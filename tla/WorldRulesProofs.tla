-------------------------- MODULE WorldRulesProofs --------------------------
(***************************************************************************)
(* Theorems about game_world.rs: about WorldRules for every rule book, that*)
(* is any conditions, skills, actions, story and rules, and any limits; and*)
(* about GameWorld for any items, scenes, characters, drafts and grants.   *)
(***************************************************************************)
EXTENDS WorldRules, GameWorld, Integers, FiniteSetTheorems, SequenceTheorems, TLAPS

(* What the steps of a command keep.                                       *)
Instance == [def : DOMAIN Conditions, target : Actors, stacks : Nat, expires : Nat, next : Nat]

Timely(c, clock) ==
  /\ c.next # Never => clock <= c.next /\ c.next <= clock + Conditions[c.def].interval
  /\ c.expires # Never => clock <= c.expires

WorldOK(w) ==
  /\ {"clock", "cond"} \subseteq DOMAIN w
  /\ w.clock \in Nat
  /\ DOMAIN w.cond \subseteq Nat /\ IsFiniteSet(DOMAIN w.cond)
  /\ \A i \in DOMAIN w.cond : w.cond[i] \in Instance /\ Timely(w.cond[i], w.clock)

EffectOK(e) ==
  /\ e[1] \in {"gain", "lose", "condition", "skill", "saved", "session", "emit"}
  /\ e[1] = "condition" => e[2] \in DOMAIN Conditions
  /\ e[1] = "emit" => e[2] # "clock_advanced"

Firing == [rule : DOMAIN Rules, depth : Nat, start : Nat]

WorkOK(x, w) ==
  /\ x[2] \in Actors
  /\ x[1] = "effect" => EffectOK(x[3])
  /\ x[1] = "tick" => x[3] \in DOMAIN w.cond
  /\ x[1] = "advance" => x[3] \in Nat /\ w.clock <= x[3]
  /\ x[1] \in {"fire", "fired"} => x[3] \in Firing

(* The conditions due are ticked before anything expires, so they are      *)
(* still there.                                                            *)
TodoOK(t, w) ==
  /\ t \in Seq(Range(t))
  /\ \A x \in Range(t) : WorkOK(x, w)
  /\ \A x, y \in Range(t) : x[1] = "advance" /\ y[1] = "advance" => x[3] = y[3]
  /\ \A i, j \in DOMAIN t : i < j /\ t[i][1] \in {"advance", "expire"} => t[j][1] # "tick"

EventOK(e) == e[1] = "clock_advanced" => e[2][1] \in Nat /\ e[2][2] \in Nat

EventsOK == events \in Seq(Range(events)) /\ \A e \in Range(events) : EventOK(e)

SignalOK(s) == s.depth \in Nat /\ EventOK(s.event)

SignalsOK == signals \in Seq(Range(signals)) /\ \A s \in Range(signals) : SignalOK(s)

RulesInv ==
  /\ WorldOK(world) /\ WorldOK(before.world)
  /\ actor \in Actors /\ deletes \subseteq Nat /\ IsFiniteSet(deletes)
  /\ TodoOK(todo, world) /\ EventsOK /\ SignalsOK

-----------------------------------------------------------------------------
(* Numbers and sequences.                                                  *)

(* The prover's induction is the least number principle.                   *)
LEMMA LeastNumber ==
  ASSUME NEW S \in SUBSET Nat, S # {}
  PROVE  \E x \in S : \A y \in S : x <= y
  <1> DEFINE R == OpToRel(<, Nat)
  <1>1. IsWellFoundedOn(R, Nat)
    BY NatLessThanWellFounded
  <1>2. \A x, y \in Nat : y < x => <<y, x>> \in R
    BY DEF OpToRel
  <1> HIDE DEF R
  <1>3. PICK x \in S : \A y \in S : ~(<<y, x>> \in R)
    BY <1>1, WFMin
  <1>4. ASSUME NEW y \in S PROVE x <= y
    <2>1. ~(y < x)
      BY <1>2, <1>3
    <2>2. x \in Nat /\ y \in Nat
      OBVIOUS
    <2> HIDE <1>3
    <2> QED
      BY <2>1, <2>2
  <1> QED
    BY <1>4

LEMMA MinIsLeast ==
  ASSUME NEW S \in SUBSET Nat, S # {}
  PROVE  Min(S) \in S /\ \A x \in S : Min(S) <= x
  BY LeastNumber DEF Min

(* A finite set of numbers has a greatest one: the one with fewest above.  *)
LEMMA MaxIsNumber ==
  ASSUME NEW S \in SUBSET Nat, S # {}, IsFiniteSet(S)
  PROVE  Max(S) \in S
  <1> DEFINE above(x) == {y \in S : x <= y}
             counts == {Cardinality(above(x)) : x \in S}
  <1>1. \A x \in S : IsFiniteSet(above(x)) /\ Cardinality(above(x)) \in Nat
    BY FS_Subset, FS_CardinalityType
  <1>2. counts \in SUBSET Nat /\ counts # {}
    BY <1>1
  <1>3. PICK n \in counts : \A k \in counts : n <= k
    BY <1>2, LeastNumber
  <1>4. PICK x \in S : n = Cardinality(above(x))
    BY <1>3
  <1>5. ASSUME NEW y \in S PROVE y <= x
    <2> SUFFICES ASSUME x < y PROVE FALSE
      BY <1>4
    <2>1. above(y) \subseteq above(x) /\ above(y) # above(x)
      <3>1. x \in Nat /\ y \in Nat /\ \A z \in S : z \in Nat
        OBVIOUS
      <3>2. \A z \in S : y <= z => x <= z
        BY <3>1
      <3>3. x \in above(x) /\ x \notin above(y)
        BY <3>1
      <3> QED
        BY <3>2, <3>3
    <2>2. Cardinality(above(y)) <= Cardinality(above(x)) /\
          Cardinality(above(y)) # Cardinality(above(x))
      BY <1>1, <2>1, FS_Subset
    <2>3. n <= Cardinality(above(y))
      BY <1>3
    <2> QED
      BY <1>1, <1>4, <2>2, <2>3
  <1> HIDE DEF above, counts
  <1>6. x \in S /\ \A y \in S : x >= y
    BY <1>5
  <1> QED
    BY <1>6 DEF Max

LEMMA SeqRange ==
  ASSUME NEW S, NEW s \in Seq(S)
  PROVE  s \in Seq(Range(s)) /\ Range(s) \subseteq S
  <1>1. DOMAIN s = 1..Len(s) /\ \A i \in 1..Len(s) : s[i] \in S
    BY LenProperties, ElementOfSeq
  <1>2. Range(s) \subseteq S
    BY <1>1 DEF Range
  <1>3. \A i \in 1..Len(s) : s[i] \in Range(s)
    BY <1>1 DEF Range
  <1>4. s \in Seq(Range(s))
    BY <1>1, <1>3, LenProperties
  <1> QED
    BY <1>2, <1>4

LEMMA ConcatRange ==
  ASSUME NEW s, s \in Seq(Range(s)), NEW t, t \in Seq(Range(t))
  PROVE  /\ s \o t \in Seq(Range(s \o t))
         /\ Range(s \o t) \subseteq Range(s) \cup Range(t)
  <1>1. s \in Seq(Range(s) \cup Range(t)) /\ t \in Seq(Range(s) \cup Range(t))
    BY SeqMonotonic
  <1>2. s \o t \in Seq(Range(s) \cup Range(t))
    BY <1>1, ConcatProperties
  <1> QED
    BY <1>2, SeqRange

LEMMA AppendRange ==
  ASSUME NEW s, s \in Seq(Range(s)), NEW e
  PROVE  /\ Append(s, e) \in Seq(Range(Append(s, e)))
         /\ Range(Append(s, e)) \subseteq Range(s) \cup {e}
  <1>1. s \in Seq(Range(s) \cup {e})
    BY SeqMonotonic
  <1>2. Append(s, e) \in Seq(Range(s) \cup {e})
    BY <1>1, AppendProperties
  <1> QED
    BY <1>2, SeqRange

LEMMA TailRange ==
  ASSUME NEW s, s \in Seq(Range(s)), s # << >>
  PROVE  /\ s[1] \in Range(s)
         /\ Tail(s) \in Seq(Range(Tail(s)))
         /\ Range(Tail(s)) \subseteq Range(s)
  <1>1. Tail(s) \in Seq(Range(s)) /\ Head(s) \in Range(s) /\ Head(s) = s[1]
    BY HeadTailProperties
  <1> QED
    BY <1>1, SeqRange

(* FlattenSeq puts its parts one after the other.                          *)
LEMMA FlatParts ==
  ASSUME NEW g, NEW N \in Nat \ {0}, N = Len(g)
  PROVE  \E f : /\ \A i \in 1..N : f[i] = IF i = 1 THEN g[i] ELSE f[i - 1] \o g[i]
               /\ FlattenSeq(g) = f[N]
  <1> DEFINE Flat(f, n) == f = [i \in 1..n |-> IF i = 1 THEN g[i] ELSE f[i - 1] \o g[i]]
             bad == {n \in 1..N : ~ \E f : Flat(f, n)}
  <1>1. bad = {}
    <2> SUFFICES ASSUME bad # {} PROVE FALSE
      OBVIOUS
    <2>1. bad \in SUBSET Nat
      <3> HIDE DEF Flat
      <3>1. bad \subseteq 1..N
        BY Zenon
      <3> QED
        BY <3>1
    <2> HIDE DEF bad
    <2>2. PICK n \in bad : \A k \in bad : n <= k
      BY <2>1, LeastNumber
    <2>3. n \in 1..N /\ n \in Nat
      BY DEF bad
    <2>4. CASE n = 1
      <3>1. Flat([i \in 1..1 |-> g[i]], 1)
        OBVIOUS
      <3> QED
        BY <2>4, <3>1 DEF bad
    <2>5. CASE n # 1
      <3>1. n - 1 \in 1..N /\ ~(n <= n - 1) /\ n - 1 \in 1..(n - 1)
        BY <2>3, <2>5
      <3>2. n - 1 \notin bad
        BY <2>2, <3>1
      <3>3. PICK f : Flat(f, n - 1)
        BY <3>1, <3>2 DEF bad
      <3>4. PICK h : h = [i \in 1..n |-> IF i = n THEN f[n - 1] \o g[n] ELSE f[i]]
        OBVIOUS
      <3>5. ASSUME NEW i \in 1..n
            PROVE  h[i] = IF i = 1 THEN g[i] ELSE h[i - 1] \o g[i]
        <4>1. CASE i = n
          <5>1. n - 1 \in 1..n /\ n - 1 # n
            BY <2>3, <3>1
          <5>2. h[n - 1] = f[n - 1]
            BY <3>4, <5>1
          <5>3. h[n] = f[n - 1] \o g[n]
            BY <3>4, <4>1
          <5> QED
            BY <2>5, <4>1, <5>2, <5>3
        <4>2. CASE i # n
          <5>1. i \in 1..(n - 1) /\ (i # 1 => i - 1 \in 1..n /\ i - 1 # n)
            BY <2>3, <4>2
          <5>2. f[i] = IF i = 1 THEN g[i] ELSE f[i - 1] \o g[i]
            BY <3>3, <5>1
          <5>3. h[i] = f[i] /\ (i # 1 => h[i - 1] = f[i - 1])
            BY <3>4, <4>2, <5>1
          <5> QED
            BY <5>2, <5>3
        <4> QED
          BY <4>1, <4>2
      <3>6. Flat(h, n)
        BY <3>4, <3>5
      <3> QED
        BY <3>6 DEF bad
    <2> QED
      BY <2>4, <2>5
  <1>2. N \in 1..N /\ 1 \in 1..N
    OBVIOUS
  <1>3. \E f : Flat(f, N)
    <2> HIDE DEF Flat
    <2> QED
      BY <1>1, <1>2
  <1>4. PICK f : f = CHOOSE x : Flat(x, N)
    OBVIOUS
  <1>5. Flat(f, N)
    BY <1>3, <1>4
  <1>6. FlattenSeq(g) = f[N]
    BY <1>4 DEF FlattenSeq
  <1>7. \A i \in 1..N : f[i] = IF i = 1 THEN g[i] ELSE f[i - 1] \o g[i]
    BY <1>5
  <1> QED
    BY <1>6, <1>7

(* What is flattened from sequences over S is a sequence over S.           *)
LEMMA FlatOver ==
  ASSUME NEW S, NEW g \in Seq(Seq(S))
  PROVE  FlattenSeq(g) \in Seq(S)
  <1>1. PICK N \in Nat : N = Len(g) /\ \A i \in 1..N : g[i] \in Seq(S)
    BY LenProperties, ElementOfSeq
  <1>2. CASE N = 0
    BY <1>1, <1>2, EmptySeq DEF FlattenSeq
  <1>3. CASE N # 0
    <2>1. N \in 1..N /\ 1 \in 1..N
      BY <1>1, <1>3
    <2>2. PICK f : /\ \A i \in 1..N : f[i] = IF i = 1 THEN g[i] ELSE f[i - 1] \o g[i]
                   /\ FlattenSeq(g) = f[N]
      <3>1. N \in Nat \ {0} /\ N = Len(g)
        BY <1>1, <1>3
      <3> QED
        BY <3>1, FlatParts, Zenon
    <2> DEFINE off == {n \in 1..N : f[n] \notin Seq(S)}
    <2>7. off = {}
      <3> SUFFICES ASSUME off # {} PROVE FALSE
        OBVIOUS
      <3>1. off \in SUBSET Nat
        OBVIOUS
      <3> HIDE DEF off
      <3>2. PICK n \in off : \A k \in off : n <= k
        BY <3>1, LeastNumber
      <3>3. n \in 1..N /\ n \in Nat /\ f[n] \notin Seq(S)
        BY DEF off
      <3>4. f[n] = IF n = 1 THEN g[n] ELSE f[n - 1] \o g[n]
        BY <2>2, <3>3
      <3>5. n # 1
        BY <1>1, <3>3, <3>4
      <3>6. n - 1 \in 1..N /\ ~(n <= n - 1)
        BY <1>1, <3>3, <3>5
      <3>7. n - 1 \notin off
        BY <3>2, <3>6
      <3>8. f[n - 1] \in Seq(S)
        BY <3>6, <3>7 DEF off
      <3>9. g[n] \in Seq(S)
        BY <1>1, <3>3
      <3>10. f[n - 1] \o g[n] \in Seq(S)
        BY <3>8, <3>9, ConcatProperties
      <3> QED
        BY <3>3, <3>4, <3>5, <3>10
    <2> QED
      BY <2>1, <2>2, <2>7
  <1> QED
    BY <1>2, <1>3

(* The one part that is not over T stands between two sequences that are.  *)
Around(s, part, T) == \E p, q \in Seq(T) : s = p \o part \o q

LEMMA FlatAround ==
  ASSUME NEW S, NEW T, T \subseteq S, NEW g \in Seq(Seq(S)), NEW m \in 1..Len(g),
         \A i \in 1..Len(g) : i # m => g[i] \in Seq(T)
  PROVE  Around(FlattenSeq(g), g[m], T)
  <1>1. PICK N \in Nat \ {0} : N = Len(g) /\ m \in 1..N
    BY LenProperties
  <1>2. \A i \in 1..N : g[i] \in Seq(S) /\ (i # m => g[i] \in Seq(T))
    BY <1>1, ElementOfSeq
  <1>3. PICK f : /\ \A i \in 1..N : f[i] = IF i = 1 THEN g[i] ELSE f[i - 1] \o g[i]
                 /\ FlattenSeq(g) = f[N]
    BY <1>1, FlatParts
  <1>4. << >> \in Seq(T)
    OBVIOUS
  <1>0. \A s, t, u \in Seq(S) : (s \o t) \o u = s \o (t \o u)
    BY SMTT(30)
  <1> DEFINE Good(n) == /\ n < m => f[n] \in Seq(T)
                        /\ m <= n => Around(f[n], g[m], T)
             off == {n \in 1..N : ~Good(n)}
  <1>5. off = {}
    <2> SUFFICES ASSUME off # {} PROVE FALSE
      OBVIOUS
    <2>1. off \in SUBSET Nat
      <3> HIDE DEF Good
      <3>1. off \subseteq 1..N
        BY Zenon
      <3> QED
        BY <1>1, <3>1
    <2> HIDE DEF off
    <2>2. PICK n \in off : \A k \in off : n <= k
      BY <2>1, LeastNumber
    <2>3. n \in 1..N /\ n \in Nat /\ ~Good(n)
      <3> HIDE DEF Good
      <3> QED
        BY DEF off
    <2>4. f[n] = IF n = 1 THEN g[n] ELSE f[n - 1] \o g[n]
      BY <1>3, <2>3
    <2>5. g[m] \in Seq(S)
      BY <1>1, <1>2
    <2>6. CASE n = 1 /\ n < m
      <3>1. g[n] \in Seq(T)
        BY <1>2, <2>3, <2>6
      <3> QED
        BY <2>3, <2>4, <2>6, <3>1
    <2>7. CASE n = 1 /\ m <= n
      <3>1. n = m
        BY <1>1, <2>7
      <3>2. f[n] = g[m]
        BY <2>4, <2>7, <3>1
      <3>3. f[n] = << >> \o g[m] \o << >>
        BY <2>5, <3>2, ConcatEmptySeq
      <3>4. Around(f[n], g[m], T)
        BY <1>4, <3>3 DEF Around
      <3>5. ~(n < m)
        BY <2>3, <3>1
      <3> QED
        BY <2>3, <3>4, <3>5
    <2>8. CASE n # 1
      <3>1. n - 1 \in 1..N /\ ~(n <= n - 1)
        BY <1>1, <2>3, <2>8
      <3>2. n - 1 \notin off
        BY <2>2, <3>1
      <3>3. Good(n - 1)
        BY <3>1, <3>2 DEF off
      <3>4. f[n] = f[n - 1] \o g[n]
        BY <2>4, <2>8
      <3>5. CASE n < m
        <4>1. f[n - 1] \in Seq(T) /\ g[n] \in Seq(T)
          BY <1>1, <1>2, <2>3, <3>3, <3>5
        <4>2. f[n] \in Seq(T)
          BY <3>4, <4>1, ConcatProperties
        <4> QED
          BY <1>1, <2>3, <3>5, <4>2
      <3>6. CASE n = m
        <4>1. f[n - 1] \in Seq(T)
          BY <1>1, <2>3, <3>3, <3>6
        <4>2. f[n - 1] \in Seq(S)
          BY <4>1, SeqMonotonic
        <4>3. f[n - 1] \o g[m] \in Seq(S)
          BY <2>5, <4>2, ConcatProperties
        <4>4. f[n] = f[n - 1] \o g[m] \o << >>
          BY <3>4, <3>6, <4>3, ConcatEmptySeq
        <4>5. Around(f[n], g[m], T)
          BY <1>4, <4>1, <4>4 DEF Around
        <4>6. ~(n < m)
          BY <2>3, <3>6
        <4> QED
          BY <2>3, <4>5, <4>6
      <3>7. CASE m < n
        <4>0. m <= n - 1 /\ ~(n < m)
          BY <1>1, <2>3, <3>7
        <4>1. PICK p \in Seq(T), q \in Seq(T) : f[n - 1] = p \o g[m] \o q
          BY <3>3, <4>0 DEF Around
        <4>2. g[n] \in Seq(T)
          BY <1>1, <1>2, <2>3, <3>7
        <4>3. /\ p \in Seq(S) /\ q \in Seq(S) /\ g[n] \in Seq(S)
              /\ q \o g[n] \in Seq(T)
          BY <4>1, <4>2, SeqMonotonic, ConcatProperties
        <4>4. p \o g[m] \in Seq(S)
          BY <2>5, <4>3, ConcatProperties
        <4>5. (p \o g[m] \o q) \o g[n] = p \o g[m] \o (q \o g[n])
          <5>1. PICK left \in Seq(S) : left = p \o g[m]
            BY <4>4
          <5>2. PICK right \in Seq(S) : right = g[n]
            BY <4>3
          <5>3. q \in Seq(S)
            BY <4>3
          <5>4. (left \o q) \o right = left \o (q \o right)
            BY <1>0, <5>3, Zenon
          <5> QED
            BY <5>1, <5>2, <5>4
        <4>6. f[n] = p \o g[m] \o (q \o g[n])
          BY <3>4, <4>1, <4>5
        <4>7. Around(f[n], g[m], T)
          BY <4>3, <4>6 DEF Around
        <4> QED
          BY <2>3, <4>0, <4>7
      <3> QED
        BY <1>1, <2>3, <3>5, <3>6, <3>7
    <2>9. n < m \/ m <= n
      BY <1>1, <2>3
    <2> HIDE DEF Good
    <2> QED
      BY <2>6, <2>7, <2>8, <2>9
  <1>6. Good(N)
    <2> HIDE DEF Good
    <2>1. N \in 1..N
      BY <1>1
    <2> QED
      BY <1>5, <2>1
  <1>7. m <= N
    BY <1>1
  <1> QED
    BY <1>3, <1>6, <1>7

-----------------------------------------------------------------------------
(* The conditions that are due, in their order.                            *)

LEMMA ConditionNumbers ==
  ASSUME WorldOK(world), NEW i \in DOMAIN world.cond
  PROVE  i \in Nat /\ world.cond[i].def \in Nat
  <1>1. DOMAIN Conditions \subseteq Nat
    BY WorldRulesAssumption, LenProperties DEF WorldRulesAssumption
  <1> QED
    BY <1>1 DEF WorldOK, Instance

LEMMA OrderedIn ==
  ASSUME WorldOK(world), NEW due \in SUBSET DOMAIN world.cond
  PROVE  Ordered(due) \in Seq(due)
  <1> DEFINE before_(i) == {j \in due : Precedes(j, i)}
             n == Cardinality(due)
             rank == [i \in due |-> Cardinality(before_(i))]
  <1>1. IsFiniteSet(due) /\ n \in Nat
    BY FS_Subset, FS_CardinalityType DEF WorldOK
  <1>2. \A i \in due : i \in Nat /\ world.cond[i].def \in Nat
    BY ConditionNumbers
  <1>3. /\ \A i \in due : ~Precedes(i, i)
        /\ \A i, j \in due : i # j => Precedes(i, j) \/ Precedes(j, i)
        /\ \A i, j, k \in due : Precedes(i, j) /\ Precedes(j, k) => Precedes(i, k)
    BY <1>2 DEF Precedes
  <1>4. ASSUME NEW i \in due
        PROVE  /\ IsFiniteSet(before_(i)) /\ before_(i) \in SUBSET due
               /\ Cardinality(before_(i)) \in Nat /\ Cardinality(before_(i)) < n
    <2>1. before_(i) \in SUBSET due /\ before_(i) # due
      BY <1>3
    <2> HIDE DEF before_
    <2>2. /\ IsFiniteSet(before_(i)) /\ Cardinality(before_(i)) <= n
          /\ Cardinality(before_(i)) # n
      BY <1>1, <2>1, FS_Subset
    <2>3. Cardinality(before_(i)) \in Nat
      BY <2>2, FS_CardinalityType
    <2> QED
      BY <1>1, <2>1, <2>2, <2>3
  <1>5. ASSUME NEW i \in due, NEW j \in due, Precedes(i, j)
        PROVE  Cardinality(before_(i)) # Cardinality(before_(j))
    <2>1. before_(i) \in SUBSET before_(j) /\ before_(i) # before_(j)
      BY <1>3, <1>5
    <2>2. IsFiniteSet(before_(j))
      BY <1>4
    <2> HIDE DEF before_
    <2> QED
      BY <2>1, <2>2, FS_Subset
  <1>6. rank \in Injection(due, 0..(n - 1))
    <2>1. \A i \in due : rank[i] = Cardinality(before_(i))
      OBVIOUS
    <2>2. \A i \in due : rank[i] \in 0..(n - 1)
      <3> HIDE DEF before_, n
      <3> QED
        BY <1>1, <1>4, <2>1
    <2>3. \A i, j \in due : rank[i] = rank[j] => i = j
      <3> HIDE DEF before_, n
      <3> QED
        BY <1>3, <1>5, <2>1
    <2>4. rank \in [due -> 0..(n - 1)]
      <3>1. rank = [i \in due |-> rank[i]]
        OBVIOUS
      <3> HIDE DEF rank
      <3> QED
        BY <2>2, <3>1
    <2> HIDE DEF rank
    <2> QED
      BY <2>3, <2>4 DEF Injection, IsInjective
  <1>7. Cardinality(0..(n - 1)) = n /\ IsFiniteSet(0..(n - 1))
    <2> HIDE DEF n
    <2>1. 0 \in Int /\ n - 1 \in Int
      BY <1>1
    <2>2. /\ IsFiniteSet(0..(n - 1))
          /\ Cardinality(0..(n - 1)) = IF 0 > n - 1 THEN 0 ELSE n - 1 - 0 + 1
      BY <2>1, FS_Interval
    <2> QED
      BY <1>1, <2>2
  <1>8. rank \in Surjection(due, 0..(n - 1))
    <2> HIDE DEF rank
    <2> QED
      BY <1>6, <1>7, FS_Injection
  <1>9. ASSUME NEW k \in 1..n
        PROVE  \E i \in due : Cardinality(before_(i)) = k - 1
    <2>1. k - 1 \in 0..(n - 1)
      <3> HIDE DEF n
      <3> QED
        BY <1>1
    <2>2. \E i \in due : rank[i] = k - 1
      <3> HIDE DEF rank, n
      <3> QED
        BY <1>8, <2>1 DEF Surjection
    <2> QED
      BY <2>2
  <1>10. ASSUME NEW k \in 1..n
         PROVE  (CHOOSE i \in due : Cardinality(before_(i)) = k - 1) \in due
    <2> HIDE DEF before_, n
    <2> QED
      BY <1>9
  <1>11. Ordered(due) = [k \in 1..n |-> CHOOSE i \in due : Cardinality(before_(i)) = k - 1]
    BY DEF Ordered
  <1> HIDE DEF before_, n
  <1>12. Ordered(due) \in [1..n -> due]
    BY <1>10, <1>11
  <1> QED
    BY <1>1, <1>12

-----------------------------------------------------------------------------
(* Work.                                                                   *)
Late == {"advance", "expire"}

LEMMA TailTodo ==
  ASSUME NEW t, NEW w, TodoOK(t, w), t # << >>
  PROVE  /\ TodoOK(Tail(t), w) /\ t[1] \in Range(t) /\ WorkOK(t[1], w)
         /\ Range(Tail(t)) \subseteq Range(t)
         /\ t[1][1] \in Late => \A x \in Range(Tail(t)) : x[1] # "tick"
  <1>1. PICK n \in Nat : n = Len(t) /\ DOMAIN t = 1..n /\ t \in Seq(Range(t))
    BY LenProperties DEF TodoOK
  <1>2. n # 0
    BY <1>1, EmptySeq
  <1>3. PICK m \in Nat : m = n - 1
    BY <1>1, <1>2
  <1>4. PICK r : r = Tail(t)
    OBVIOUS
  <1>5. r \in Seq(Range(t)) /\ Len(r) = n - 1 /\ \A i \in 1..Len(r) : r[i] = t[i + 1]
    BY <1>1, <1>4, HeadTailProperties
  <1>6. DOMAIN r = 1..m /\ \A i \in 1..m : r[i] = t[i + 1]
    BY <1>3, <1>5, LenProperties
  <1>7. t[1] \in Range(t) /\ r \in Seq(Range(r)) /\ Range(r) \subseteq Range(t)
    BY <1>1, <1>4, TailRange
  <1>8. /\ \A i \in 1..m : i + 1 \in 1..n /\ 1 < i + 1
        /\ \A i, j \in 1..m : i < j => i + 1 < j + 1
        /\ 1 \in 1..n
    BY <1>1, <1>2, <1>3
  <1>9. \A i, j \in 1..n : i < j /\ t[i][1] \in Late => t[j][1] # "tick"
    BY <1>1 DEF TodoOK, Late
  <1>10. \A i, j \in DOMAIN r : i < j /\ r[i][1] \in {"advance", "expire"} => r[j][1] # "tick"
    <2> SUFFICES ASSUME NEW i \in 1..m, NEW j \in 1..m, i < j, r[i][1] \in Late
                 PROVE  r[j][1] # "tick"
      BY <1>6 DEF Late
    <2>1. i + 1 \in 1..n /\ j + 1 \in 1..n /\ i + 1 < j + 1
      BY <1>8
    <2>2. r[i] = t[i + 1] /\ r[j] = t[j + 1]
      BY <1>6
    <2> QED
      BY <1>9, <2>1, <2>2
  <1>11. ASSUME t[1][1] \in Late, NEW x \in Range(r) PROVE x[1] # "tick"
    <2>1. PICK i \in 1..m : x = r[i]
      BY <1>6 DEF Range
    <2>2. 1 \in 1..n /\ i + 1 \in 1..n /\ 1 < i + 1 /\ r[i] = t[i + 1]
      BY <1>6, <1>8
    <2> QED
      BY <1>9, <1>11, <2>1, <2>2
  <1>12. TodoOK(r, w)
    BY <1>7, <1>10 DEF TodoOK
  <1> QED
    BY <1>4, <1>7, <1>11, <1>12 DEF TodoOK

LEMMA ConcatTodo ==
  ASSUME NEW s, NEW t, NEW w, TodoOK(s, w), TodoOK(t, w),
         \/ \A x \in Range(s) : x[1] # "advance"
         \/ \A y \in Range(t) : y[1] # "advance",
         \/ \A x \in Range(s) : x[1] \notin Late
         \/ \A y \in Range(t) : y[1] # "tick"
  PROVE  TodoOK(s \o t, w)
  <1>1. PICK m \in Nat : m = Len(s) /\ DOMAIN s = 1..m /\ s \in Seq(Range(s))
    BY LenProperties DEF TodoOK
  <1>2. PICK n \in Nat : n = Len(t) /\ DOMAIN t = 1..n /\ t \in Seq(Range(t))
    BY LenProperties DEF TodoOK
  <1>3. PICK c : c = s \o t
    OBVIOUS
  <1>4. c \in Seq(Range(c)) /\ Range(c) \subseteq Range(s) \cup Range(t)
    BY <1>1, <1>2, <1>3, ConcatRange
  <1>5. s \in Seq(Range(s) \cup Range(t)) /\ t \in Seq(Range(s) \cup Range(t))
    BY <1>1, <1>2, SeqMonotonic
  <1>6. /\ Len(c) = m + n
        /\ \A i \in 1..(m + n) : c[i] = IF i <= m THEN s[i] ELSE t[i - m]
    BY <1>1, <1>2, <1>3, <1>5, ConcatProperties
  <1>7. DOMAIN c = 1..(m + n)
    BY <1>4, <1>6, LenProperties
  <1>8. \A i \in 1..m : s[i] \in Range(s)
    BY <1>1 DEF Range
  <1>9. \A i \in 1..n : t[i] \in Range(t)
    BY <1>2 DEF Range
  <1>10. ASSUME NEW i \in 1..(m + n), NEW j \in 1..(m + n),
                i < j, c[i][1] \in {"advance", "expire"}
         PROVE  c[j][1] # "tick"
    <2>1. CASE j <= m
      <3>1. i \in 1..m /\ j \in 1..m /\ i <= m
        BY <1>10, <2>1
      <3>2. c[i] = s[i] /\ c[j] = s[j]
        BY <1>6, <2>1, <3>1
      <3> QED
        BY <1>1, <1>10, <3>1, <3>2 DEF TodoOK
    <2>2. CASE i <= m /\ ~(j <= m)
      <3>1. i \in 1..m /\ j - m \in 1..n
        BY <2>2
      <3>2. c[i] = s[i] /\ c[j] = t[j - m]
        BY <1>6, <2>2
      <3> QED
        BY <1>8, <1>9, <1>10, <3>1, <3>2 DEF Late
    <2>3. CASE ~(i <= m)
      <3>1. i - m \in 1..n /\ j - m \in 1..n /\ i - m < j - m /\ ~(j <= m)
        BY <1>10, <2>3
      <3>2. c[i] = t[i - m] /\ c[j] = t[j - m]
        BY <1>6, <2>3, <3>1
      <3> QED
        BY <1>2, <1>10, <3>1, <3>2 DEF TodoOK
    <2> QED
      BY <2>1, <2>2, <2>3
  <1>11. \A x \in Range(c) : WorkOK(x, w)
    BY <1>4 DEF TodoOK
  <1>12. \A x, y \in Range(c) : x[1] = "advance" /\ y[1] = "advance" => x[3] = y[3]
    BY <1>4 DEF TodoOK
  <1> QED
    BY <1>3, <1>4, <1>7, <1>10, <1>11, <1>12 DEF TodoOK

(* Time does not pass the advance that is under way, and conditions go     *)
(* only when none is to be ticked.                                         *)
LEMMA FrameTodo ==
  ASSUME NEW t, NEW v, NEW w, TodoOK(t, v),
         \A x \in Range(t) : x[1] = "advance" => w.clock <= x[3],
         \/ DOMAIN v.cond \subseteq DOMAIN w.cond
         \/ \A x \in Range(t) : x[1] # "tick"
  PROVE  TodoOK(t, w)
  BY DEF TodoOK, WorkOK

LEMMA SingleTodo ==
  ASSUME NEW x, NEW w, WorkOK(x, w)
  PROVE  TodoOK(<<x>>, w) /\ Range(<<x>>) = {x}
  <1>1. <<x>> \in Seq({x}) /\ DOMAIN <<x>> = {1} /\ <<x>>[1] = x
    OBVIOUS
  <1>2. Range(<<x>>) = {x}
    BY <1>1 DEF Range
  <1> QED
    BY <1>1, <1>2 DEF TodoOK

(* Work of one kind is not in the way of anything.                         *)
LEMMA SameTodo ==
  ASSUME NEW w, NEW X, NEW s \in Seq(X), \A x \in X : WorkOK(x, w),
         NEW op, \A x \in X : x[1] = op, op \notin Late
  PROVE  TodoOK(s, w) /\ \A x \in Range(s) : x[1] = op
  <1>1. s \in Seq(Range(s)) /\ Range(s) \subseteq X
    BY SeqRange
  <1>2. \A i \in DOMAIN s : s[i] \in X
    BY <1>1 DEF Range
  <1> QED
    BY <1>1, <1>2 DEF TodoOK, Late

LEMMA EffectsTodo ==
  ASSUME NEW w, NEW a \in Actors, NEW es, EffectsKnown(es)
  PROVE  TodoOK(Effects(a, es), w) /\ \A x \in Range(Effects(a, es)) : x[1] = "effect"
  <1> DEFINE X == {Work("effect", a, e) : e \in Range(es)}
  <1>1. es \in Seq(Range(es)) /\ DOMAIN es = 1..Len(es) /\ Len(es) \in Nat
    BY LenProperties DEF EffectsKnown
  <1>2. \A k \in 1..Len(es) : Work("effect", a, es[k]) \in X
    BY <1>1 DEF Range
  <1>3. Effects(a, es) \in Seq(X)
    <2> HIDE DEF X
    <2>1. Effects(a, es) \in [1..Len(es) -> X]
      BY <1>1, <1>2 DEF Effects
    <2> QED
      BY <1>1, <2>1
  <1>4. \A x \in X : x[1] = "effect" /\ WorkOK(x, w)
    BY DEF Work, WorkOK, EffectsKnown, EffectOK
  <1> HIDE DEF X
  <1>5. "effect" \notin Late
    BY DEF Late
  <1> QED
    BY <1>3, <1>4, <1>5, SameTodo

(* Nothing that finds the world as it was changes the work.                *)
LEMMA RestTodo ==
  ASSUME TodoOK(todo, world), todo # << >>, todo' = Rest,
         UNCHANGED world.clock, DOMAIN world.cond \subseteq DOMAIN world'.cond
  PROVE  TodoOK(todo', world')
  <1>1. TodoOK(Rest, world)
    BY TailTodo DEF Rest
  <1>2. \A x \in Range(Rest) : x[1] = "advance" => world'.clock <= x[3]
    BY <1>1 DEF TodoOK, WorkOK
  <1> QED
    BY <1>1, <1>2, FrameTodo

-----------------------------------------------------------------------------
(* The world under effects.                                                *)

LEMMA FrameWorld ==
  ASSUME NEW v, NEW w, WorldOK(v), {"clock", "cond"} \subseteq DOMAIN w,
         w.clock = v.clock, w.cond = v.cond
  PROVE  WorldOK(w)
  BY DEF WorldOK

LEMMA Durations ==
  ASSUME NEW d \in DOMAIN Conditions
  PROVE  /\ Conditions[d].duration \in Nat /\ Conditions[d].interval \in Nat
         /\ EffectsKnown(Conditions[d].effects)
  BY WorldRulesAssumption DEF WorldRulesAssumption

LEMMA NewTiming ==
  ASSUME WorldOK(world), NEW d \in DOMAIN Conditions
  PROVE  /\ condition_expiry(d) \in Nat /\ condition_periodic(d) \in Nat
         /\ condition_expiry(d) # Never => world.clock <= condition_expiry(d)
         /\ condition_periodic(d) # Never =>
              /\ world.clock <= condition_periodic(d)
              /\ condition_periodic(d) <= world.clock + Conditions[d].interval
  <1>1. world.clock \in Nat
    BY DEF WorldOK
  <1> QED
    BY <1>1, Durations DEF condition_expiry, condition_periodic, Never

LEMMA NewInstanceOK ==
  ASSUME WorldOK(world), NEW a \in Actors, NEW d \in DOMAIN Conditions
  PROVE  NewInstance(a, d) \in Instance /\ Timely(NewInstance(a, d), world.clock)
  BY NewTiming DEF NewInstance, Instance, Timely

LEMMA RefreshOK ==
  ASSUME WorldOK(world), NEW c \in Instance
  PROVE  /\ refresh_condition_timing(c) \in Instance
         /\ Timely(refresh_condition_timing(c), world.clock)
  <1>1. c.def \in DOMAIN Conditions
    BY DEF Instance
  <1>2. /\ refresh_condition_timing(c) \in Instance
        /\ refresh_condition_timing(c).def = c.def
        /\ refresh_condition_timing(c).expires = condition_expiry(c.def)
        /\ refresh_condition_timing(c).next = condition_periodic(c.def)
    BY <1>1, NewTiming DEF refresh_condition_timing, Instance
  <1> QED
    BY <1>1, <1>2, NewTiming DEF Timely

LEMMA FreshIsNumber ==
  ASSUME WorldOK(world), deletes \subseteq Nat, IsFiniteSet(deletes)
  PROVE  FreshInstance \in Nat
  <1> DEFINE S == {0} \cup deletes \cup DOMAIN world.cond
  <1>1. DOMAIN world.cond \subseteq Nat /\ IsFiniteSet(DOMAIN world.cond)
    BY DEF WorldOK
  <1>2. S \in SUBSET Nat /\ S # {}
    <2>1. ASSUME NEW x \in S PROVE x \in Nat
      <3>1. x = 0 \/ x \in deletes \/ x \in DOMAIN world.cond
        OBVIOUS
      <3> QED
        BY <1>1, <3>1
    <2> QED
      BY <2>1
  <1>3. IsFiniteSet({0}) /\ IsFiniteSet({0} \cup deletes)
    BY FS_Singleton, FS_Union
  <1>4. IsFiniteSet(S)
    BY <1>1, <1>3, FS_Union
  <1>5. Max(S) \in Nat
    <2> HIDE DEF S
    <2> QED
      BY <1>2, <1>4, MaxIsNumber
  <1> QED
    BY <1>5 DEF FreshInstance

CondsOK(conds) ==
  /\ DOMAIN conds \subseteq Nat /\ IsFiniteSet(DOMAIN conds)
  /\ \A i \in DOMAIN conds : conds[i] \in Instance /\ Timely(conds[i], world.clock)

LEMMA WithInstanceOK ==
  ASSUME WorldOK(world), NEW i \in Nat, NEW c \in Instance, Timely(c, world.clock)
  PROVE  CondsOK(WithInstance(i, c)) /\ DOMAIN world.cond \subseteq DOMAIN WithInstance(i, c)
  <1>1. PICK conds : conds = WithInstance(i, c)
    OBVIOUS
  <1>2. /\ DOMAIN conds = DOMAIN world.cond \cup {i}
        /\ \A j \in DOMAIN conds : conds[j] = IF j = i THEN c ELSE world.cond[j]
    BY <1>1 DEF WithInstance
  <1>3. IsFiniteSet(DOMAIN conds)
    BY <1>2, FS_AddElement DEF WorldOK
  <1>4. \A j \in DOMAIN conds : conds[j] \in Instance /\ Timely(conds[j], world.clock)
    BY <1>2 DEF WorldOK
  <1>5. CondsOK(conds)
    BY <1>2, <1>3, <1>4 DEF CondsOK, WorldOK
  <1> QED
    BY <1>1, <1>2, <1>5

LEMMA AppliedOK ==
  ASSUME WorldOK(world), deletes \subseteq Nat, IsFiniteSet(deletes),
         NEW a \in Actors, NEW d \in DOMAIN Conditions
  PROVE  CondsOK(Applied(a, d)) /\ DOMAIN world.cond \subseteq DOMAIN Applied(a, d)
  <1>1. PICK old : old = CHOOSE i \in Instances(a, d) : TRUE
    OBVIOUS
  <1>2. PICK c : c = world.cond[old]
    OBVIOUS
  <1>3. PICK more : more = [c EXCEPT !.stacks = @ + 1]
    OBVIOUS
  <1>4. \/ Applied(a, d) = WithInstance(FreshInstance, NewInstance(a, d))
        \/ /\ Instances(a, d) # {}
           /\ Applied(a, d) \in {WithInstance(old, refresh_condition_timing(c)),
                                 WithInstance(old, refresh_condition_timing(more)),
                                 WithInstance(old, more)}
    BY <1>1, <1>2, <1>3 DEF Applied
  <1>5. CASE Applied(a, d) = WithInstance(FreshInstance, NewInstance(a, d))
    BY <1>5, FreshIsNumber, NewInstanceOK, WithInstanceOK
  <1>6. CASE /\ Instances(a, d) # {}
             /\ Applied(a, d) \in {WithInstance(old, refresh_condition_timing(c)),
                                   WithInstance(old, refresh_condition_timing(more)),
                                   WithInstance(old, more)}
    <2>1. old \in DOMAIN world.cond
      BY <1>1, <1>6 DEF Instances
    <2>2. old \in Nat /\ c \in Instance /\ Timely(c, world.clock)
      BY <1>2, <2>1 DEF WorldOK
    <2>3. more \in Instance /\ Timely(more, world.clock)
      BY <1>3, <2>2 DEF Instance, Timely
    <2>4. /\ CondsOK(WithInstance(old, refresh_condition_timing(c)))
          /\ DOMAIN world.cond \subseteq DOMAIN WithInstance(old, refresh_condition_timing(c))
      BY <2>2, RefreshOK, WithInstanceOK
    <2>5. /\ CondsOK(WithInstance(old, refresh_condition_timing(more)))
          /\ DOMAIN world.cond \subseteq DOMAIN WithInstance(old, refresh_condition_timing(more))
      BY <2>2, <2>3, RefreshOK, WithInstanceOK
    <2>6. /\ CondsOK(WithInstance(old, more))
          /\ DOMAIN world.cond \subseteq DOMAIN WithInstance(old, more)
      BY <2>2, <2>3, WithInstanceOK
    <2> QED
      BY <1>6, <2>4, <2>5, <2>6
  <1> QED
    BY <1>4, <1>5, <1>6

LEMMA EffectKeeps ==
  ASSUME WorldOK(world), deletes \subseteq Nat, IsFiniteSet(deletes),
         NEW a \in Actors, NEW e, EffectOK(e)
  PROVE  /\ WorldOK(EffectWorld(a, e))
         /\ EffectWorld(a, e).clock = world.clock
         /\ DOMAIN world.cond \subseteq DOMAIN EffectWorld(a, e).cond
  <1>1. {"clock", "cond"} \subseteq DOMAIN world
    BY DEF WorldOK
  <1>2. CASE e[1] = "condition"
    <2>1. EffectWorld(a, e) = [world EXCEPT !.cond = Applied(a, e[2])]
      BY <1>2 DEF EffectWorld, Kind, Arg
    <2>2. PICK w : w = EffectWorld(a, e)
      OBVIOUS
    <2>3. /\ {"clock", "cond"} \subseteq DOMAIN w
          /\ w.clock = world.clock /\ w.cond = Applied(a, e[2])
      BY <1>1, <2>1, <2>2
    <2>4. e[2] \in DOMAIN Conditions
      BY <1>2 DEF EffectOK
    <2>5. CondsOK(w.cond) /\ DOMAIN world.cond \subseteq DOMAIN w.cond
      BY <2>3, <2>4, AppliedOK
    <2>6. WorldOK(w)
      BY <2>3, <2>5 DEF WorldOK, CondsOK
    <2> QED
      BY <2>2, <2>3, <2>5, <2>6
  <1>3. CASE e[1] # "condition"
    <2>1. PICK w : w = EffectWorld(a, e)
      OBVIOUS
    <2>2. \/ w = [world EXCEPT !.pool[a] = @ + e[2]]
          \/ w = [world EXCEPT !.pool[a] = @ - e[2]]
          \/ w = [world EXCEPT !.granted[a] = @ \cup {e[2]}]
          \/ w = [world EXCEPT !.saved = e[2]]
          \/ w = world
      BY <1>3, <2>1 DEF EffectWorld, Kind, Arg
    <2>3. /\ {"clock", "cond"} \subseteq DOMAIN w
          /\ w.clock = world.clock /\ w.cond = world.cond
      BY <1>1, <2>2
    <2> QED
      BY <2>1, <2>3, FrameWorld
  <1> QED
    BY <1>2, <1>3

-----------------------------------------------------------------------------
(* Events and signals.                                                     *)

LEMMA EffectEventOK ==
  ASSUME NEW e, EffectOK(e)
  PROVE  EventOK(EffectEvent(e))
  <1>1. CASE e[1] = "emit"
    BY <1>1 DEF EffectOK, EffectEvent, EventOK, Kind, Arg, Event
  <1>2. CASE e[1] \in {"gain", "lose"}
    BY <1>2 DEF EffectEvent, EventOK, Kind, Event
  <1>3. CASE e[1] \in {"condition", "skill"}
    BY <1>3 DEF EffectEvent, EventOK, Kind, Event
  <1>4. CASE e[1] \in {"saved", "session"}
    BY <1>4 DEF EffectEvent, EventOK, Kind, Event
  <1> QED
    BY <1>1, <1>2, <1>3, <1>4 DEF EffectOK

LEMMA SignalsOfOK ==
  ASSUME NEW e, EventOK(e), NEW depth \in Nat,
         NEW S, \A by \in {"type", "subject"} : [by |-> by, event |-> e, depth |-> depth] \in S
  PROVE  SignalsOf(e, depth) \in Seq(S)
  <1>1. /\ << [by |-> "type", event |-> e, depth |-> depth] >> \in Seq(S)
        /\ << [by |-> "subject", event |-> e, depth |-> depth] >> \in Seq(S)
        /\ << >> \in Seq(S)
    OBVIOUS
  <1>2. /\ << [by |-> "type", event |-> e, depth |-> depth] >> \o
             << [by |-> "subject", event |-> e, depth |-> depth] >> \in Seq(S)
        /\ << [by |-> "type", event |-> e, depth |-> depth] >> \o << >> \in Seq(S)
    BY <1>1, ConcatProperties
  <1> QED
    BY <1>1, <1>2 DEF SignalsOf

(* What a list of events may be announced by.                              *)
Announced(es, depth) ==
  {[by |-> by, event |-> e, depth |-> depth] : by \in {"type", "subject"}, e \in es}

LEMMA AnnouncedIn ==
  ASSUME NEW es, es \in Seq(Range(es)), \A e \in Range(es) : EventOK(e), NEW depth \in Nat,
         NEW m \in 1..Len(es), NEW S, es[m] \in S
  PROVE  SignalsOf(es[m], depth) \in Seq(Announced(S, depth))
  <1>1. EventOK(es[m])
    <2>1. es[m] \in Range(es)
      BY LenProperties DEF Range
    <2> QED
      BY <2>1
  <1>2. \A by \in {"type", "subject"} :
          [by |-> by, event |-> es[m], depth |-> depth] \in Announced(S, depth)
    BY DEF Announced
  <1> QED
    BY <1>1, <1>2, SignalsOfOK

LEMMA AllSignalsIn ==
  ASSUME NEW es, es \in Seq(Range(es)), \A e \in Range(es) : EventOK(e), NEW depth \in Nat
  PROVE  AllSignals(es, depth) \in Seq(Announced(Range(es), depth))
  <1>1. /\ DOMAIN es = 1..Len(es) /\ Len(es) \in Nat
        /\ \A n \in 1..Len(es) : es[n] \in Range(es)
    BY LenProperties DEF Range
  <1>2. PICK S : S = Announced(Range(es), depth)
    OBVIOUS
  <1>3. ASSUME NEW n \in 1..Len(es) PROVE SignalsOf(es[n], depth) \in Seq(S)
    BY <1>1, <1>2, AnnouncedIn
  <1>4. [n \in DOMAIN es |-> SignalsOf(es[n], depth)] \in Seq(Seq(S))
    <2>1. [n \in DOMAIN es |-> SignalsOf(es[n], depth)] \in [1..Len(es) -> Seq(S)]
      BY <1>1, <1>3
    <2> QED
      BY <1>1, <2>1
  <1>5. AllSignals(es, depth) \in Seq(S)
    BY <1>4, FlatOver DEF AllSignals
  <1> QED
    BY <1>2, <1>5

LEMMA AllSignalsOK ==
  ASSUME NEW es, es \in Seq(Range(es)), \A e \in Range(es) : EventOK(e), NEW depth \in Nat
  PROVE  /\ AllSignals(es, depth) \in Seq(Range(AllSignals(es, depth)))
         /\ \A s \in Range(AllSignals(es, depth)) : SignalOK(s)
  <1>1. \A s \in Announced(Range(es), depth) : SignalOK(s)
    BY DEF Announced, SignalOK
  <1>2. AllSignals(es, depth) \in Seq(Announced(Range(es), depth))
    BY AllSignalsIn
  <1> QED
    BY <1>1, <1>2, SeqRange

(* The firings of one rule, and those of the others.                       *)
FiringsOf(r)  == {Work("fire", actor, f) : f \in {g \in Firing : g.rule = r}}
FiringsBut(r) == {Work("fire", actor, f) : f \in {g \in Firing : g.rule # r}}
AllFirings    == {Work("fire", actor, f) : f \in Firing}

LEMMA RulesAre ==
  Rules \in Seq(Range(Rules)) /\ DOMAIN Rules = 1..Len(Rules) /\ Len(Rules) \in Nat
  BY WorldRulesAssumption, LenProperties DEF WorldRulesAssumption

LEMMA FiringsIn ==
  ASSUME NEW s, SignalOK(s), NEW r \in DOMAIN Rules
  PROVE  /\ trigger_occurrences(r, s) \in Int
         /\ Firings(r, s) \in Seq(FiringsOf(r))
         /\ trigger_occurrences(r, s) \in Nat
              => Len(Firings(r, s)) = trigger_occurrences(r, s)
  <1>1. trigger_occurrences(r, s) \in Int
    <2>1. CASE Rules[r].on = "clock" /\ s.by = "subject" /\ Kind(s.event) = "clock_advanced"
      <3>1. PICK every \in Nat \ {0} : every = Rules[r].arg
        BY <2>1, WorldRulesAssumption DEF WorldRulesAssumption
      <3>2. PICK from \in Nat, to \in Nat : from = s.event[2][1] /\ to = s.event[2][2]
        BY <2>1 DEF SignalOK, EventOK, Kind
      <3>3. to \div every \in Int /\ from \div every \in Int
        BY <3>1, <3>2
      <3>4. (to \div every) - (from \div every) \in Int
        BY <3>3
      <3> QED
        BY <2>1, <3>1, <3>2, <3>4 DEF trigger_occurrences, ClockCrossings, Arg
    <2>2. CASE ~(Rules[r].on = "clock" /\ s.by = "subject"
                 /\ Kind(s.event) = "clock_advanced")
      BY <2>2 DEF trigger_occurrences
    <2> QED
      BY <2>1, <2>2
  <1>2. PICK n \in Int : n = trigger_occurrences(r, s)
    BY <1>1
  <1>3. PICK f : f = [rule |-> r, depth |-> s.depth, start |-> 0]
    OBVIOUS
  <1>4. Work("fire", actor, f) \in FiringsOf(r)
    BY RulesAre, <1>3 DEF FiringsOf, Firing, SignalOK
  <1>5. PICK X, x : X = FiringsOf(r) /\ x = Work("fire", actor, f) /\ x \in X
    BY <1>4
  <1>6. Firings(r, s) = [k \in 1..n |-> x]
    BY <1>2, <1>3, <1>5 DEF Firings
  <1>7. CASE n \in Nat
    <2>1. [k \in 1..n |-> x] \in Seq(X) /\ Len([k \in 1..n |-> x]) = n
      BY <1>5, <1>7
    <2> QED
      BY <1>1, <1>2, <1>5, <1>6, <2>1
  <1>8. CASE n \notin Nat
    <2>1. 1..n = 1..0
      BY <1>8
    <2>2. [k \in 1..0 |-> x] \in Seq(X)
      BY <1>5
    <2> QED
      BY <1>1, <1>2, <1>5, <1>6, <1>8, <2>1, <2>2
  <1> QED
    BY <1>7, <1>8

LEMMA TriggeredIn ==
  ASSUME NEW s, SignalOK(s)
  PROVE  Triggered(s) \in Seq(AllFirings)
  <1>1. ASSUME NEW r \in 1..Len(Rules) PROVE Firings(r, s) \in Seq(AllFirings)
    <2>1. Firings(r, s) \in Seq(FiringsOf(r))
      BY RulesAre, FiringsIn
    <2>2. FiringsOf(r) \subseteq AllFirings
      BY DEF FiringsOf, AllFirings
    <2> QED
      BY <2>1, <2>2, SeqMonotonic
  <1>2. [r \in DOMAIN Rules |-> Firings(r, s)] \in Seq(Seq(AllFirings))
    <2>1. [r \in DOMAIN Rules |-> Firings(r, s)] \in [1..Len(Rules) -> Seq(AllFirings)]
      BY <1>1, RulesAre
    <2> QED
      BY <2>1, RulesAre
  <1> QED
    BY <1>2, FlatOver DEF Triggered

LEMMA TriggeredTodo ==
  ASSUME NEW s, SignalOK(s), actor \in Actors, NEW w
  PROVE  TodoOK(Triggered(s), w)
  <1>1. \A x \in AllFirings : x[1] = "fire" /\ WorkOK(x, w)
    BY DEF AllFirings, Work, WorkOK
  <1>2. "fire" \notin Late
    BY DEF Late
  <1> QED
    BY <1>1, <1>2, TriggeredIn, SameTodo

-----------------------------------------------------------------------------
(* The steps.                                                              *)

LEMMA NoEvents == << >> \in Seq(Range(<< >>)) /\ Range(<< >>) = {}
  <1>1. << >> \in Seq({})
    OBVIOUS
  <1>2. Range(<< >>) = {}
    BY DEF Range
  <1> QED
    BY <1>1, <1>2

LEMMA OneEvent ==
  ASSUME NEW e
  PROVE  <<e>> \in Seq(Range(<<e>>)) /\ Range(<<e>>) \subseteq {e}
  <1>1. <<e>> \in Seq({e})
    OBVIOUS
  <1> QED
    BY <1>1, SeqRange

LEMMA ThreeEvents ==
  ASSUME NEW e, NEW f, NEW g
  PROVE  <<e, f, g>> \in Seq(Range(<<e, f, g>>)) /\ Range(<<e, f, g>>) \subseteq {e, f, g}
  <1>1. <<e, f, g>> \in Seq({e, f, g})
    OBVIOUS
  <1> QED
    BY <1>1, SeqRange

LEMMA BeginKeeps ==
  ASSUME RulesInv, NEW a \in Actors, NEW work, NEW es, NEW w, Begin(a, work, es, w),
         WorldOK(w), TodoOK(work, w),
         es \in Seq(Range(es)), \A e \in Range(es) : EventOK(e)
  PROVE  RulesInv'
  <1>1. /\ world' = w /\ actor' = a /\ deletes' = {} /\ events' = es /\ signals' = << >>
        /\ before'.world = world /\ todo' = work \o << Work("rules", a, 0) >>
    BY DEF Begin
  <1>2. WorkOK(Work("rules", a, 0), w)
    BY DEF WorkOK, Work
  <1>3. /\ TodoOK(<< Work("rules", a, 0) >>, w)
        /\ \A x \in Range(<< Work("rules", a, 0) >>) : x[1] = "rules"
    <2>1. PICK x : x = Work("rules", a, 0)
      OBVIOUS
    <2>2. x[1] = "rules"
      BY <2>1 DEF Work
    <2>3. TodoOK(<<x>>, w) /\ Range(<<x>>) = {x}
      BY <1>2, <2>1, SingleTodo
    <2> QED
      BY <2>1, <2>2, <2>3
  <1>4. TodoOK(todo', world')
    BY <1>1, <1>3, ConcatTodo
  <1>5. WorldOK(world') /\ WorldOK(before'.world)
    BY <1>1 DEF RulesInv
  <1>6. EventsOK' /\ SignalsOK'
    BY <1>1, NoEvents DEF EventsOK, SignalsOK, EventOK
  <1>7. deletes' \subseteq Nat /\ IsFiniteSet(deletes')
    BY <1>1, FS_EmptySet
  <1> QED
    BY <1>1, <1>4, <1>5, <1>6, <1>7 DEF RulesInv, TodoOK, WorkOK, WorldOK, Timely

(* The work of a command that begins with effects.                         *)
LEMMA CommandTodo ==
  ASSUME NEW w, NEW a \in Actors, NEW es, EffectsKnown(es),
         NEW op \in {"used", "performed", "chosen"}, NEW arg
  PROVE  TodoOK(Effects(a, es) \o << Work(op, a, arg) >>, w)
  <1>1. WorkOK(Work(op, a, arg), w) /\ Work(op, a, arg)[1] = op
    BY DEF WorkOK, Work
  <1>2. /\ TodoOK(<< Work(op, a, arg) >>, w)
        /\ \A x \in Range(<< Work(op, a, arg) >>) : x[1] = op
    BY <1>1, SingleTodo
  <1> QED
    BY <1>2, EffectsTodo, ConcatTodo DEF Late

LEMMA CommandStep ==
  ASSUME RulesInv, Command
  PROVE  RulesInv'
  <1>0. WorldOK(world) /\ Player \in Actors
    BY WorldRulesAssumption DEF RulesInv, WorldRulesAssumption
  <1>1. ASSUME NEW a \in Actors, NEW k \in DOMAIN Skills, use_skill(a, k) PROVE RulesInv'
    <2>1. PICK w : w = [world EXCEPT !.pool[a] = @ - Skills[k].cost]
      OBVIOUS
    <2>2. PICK es : es = IF Skills[k].cost = 0 THEN << >> ELSE << Event("resource_changed", 0) >>
      OBVIOUS
    <2>3. Begin(a, Effects(a, Skills[k].effects) \o << Work("used", a, k) >>, es, w)
      BY <1>1, <2>1, <2>2 DEF use_skill
    <2>4. WorldOK(w)
      <3>1. {"clock", "cond"} \subseteq DOMAIN world
        BY <1>0 DEF WorldOK
      <3>2. {"clock", "cond"} \subseteq DOMAIN w /\ w.clock = world.clock /\ w.cond = world.cond
        BY <2>1, <3>1
      <3> QED
        BY <1>0, <3>2, FrameWorld
    <2>5. EffectsKnown(Skills[k].effects)
      BY WorldRulesAssumption DEF WorldRulesAssumption
    <2>6. TodoOK(Effects(a, Skills[k].effects) \o << Work("used", a, k) >>, w)
      BY <2>5, CommandTodo
    <2>7. EventOK(Event("resource_changed", 0))
      BY DEF EventOK, Event
    <2>8. es \in Seq(Range(es)) /\ \A e \in Range(es) : EventOK(e)
      <3>1. PICK e : e = Event("resource_changed", 0)
        OBVIOUS
      <3>2. es = << >> \/ es = <<e>>
        BY <2>2, <3>1
      <3>3. <<e>> \in Seq(Range(<<e>>)) /\ \A x \in Range(<<e>>) : EventOK(x)
        BY <2>7, <3>1, OneEvent
      <3>4. << >> \in Seq(Range(<< >>)) /\ Range(<< >>) = {}
        BY NoEvents
      <3> QED
        BY <3>2, <3>3, <3>4
    <2> QED
      BY <2>3, <2>4, <2>6, <2>8, BeginKeeps
  <1>2. ASSUME NEW a \in Actors, NEW ticks \in 1..MaxTicks, advance_time(a, ticks)
        PROVE  RulesInv'
    <2>0. world.clock \in Nat /\ ticks \in Nat
      BY <1>0, WorldRulesAssumption DEF WorldOK, WorldRulesAssumption
    <2>1. PICK to \in Nat : to = world.clock + ticks /\ world.clock <= to
      BY <2>0
    <2>2. PICK e : e = Event("clock_advanced", <<world.clock, to>>)
      OBVIOUS
    <2>3. Begin(a, << Work("advance", a, to) >>, <<e>>, world)
      BY <1>2, <2>1, <2>2 DEF advance_time
    <2>4. EventOK(e)
      BY <2>0, <2>1, <2>2 DEF EventOK, Event
    <2>5. WorkOK(Work("advance", a, to), world)
      BY <2>1 DEF WorkOK, Work
    <2>6. TodoOK(<< Work("advance", a, to) >>, world)
      BY <2>5, SingleTodo
    <2>7. <<e>> \in Seq(Range(<<e>>)) /\ \A x \in Range(<<e>>) : EventOK(x)
      BY <2>4, OneEvent
    <2> QED
      BY <1>0, <2>3, <2>6, <2>7, BeginKeeps
  <1>3. ASSUME NEW a \in Actors, NEW g \in DOMAIN Actions, perform_gameplay_action(a, g)
        PROVE  RulesInv'
    <2>1. Begin(a, Effects(a, Actions[g].effects) \o << Work("performed", a, g) >>, << >>, world)
      BY <1>3 DEF perform_gameplay_action
    <2>2. EffectsKnown(Actions[g].effects)
      BY WorldRulesAssumption DEF WorldRulesAssumption
    <2>3. TodoOK(Effects(a, Actions[g].effects) \o << Work("performed", a, g) >>, world)
      BY <2>2, CommandTodo
    <2>4. << >> \in Seq(Range(<< >>)) /\ \A e \in Range(<< >>) : EventOK(e)
      BY NoEvents
    <2> QED
      BY <1>0, <2>1, <2>3, <2>4, BeginKeeps
  <1>4. ASSUME NEW k \in UNION {DOMAIN Story[n] : n \in DOMAIN Story}, choose_event_option(k)
        PROVE  RulesInv'
    <2>1. /\ world.node \in DOMAIN Story /\ k \in DOMAIN Story[world.node]
          /\ Begin(Player, Effects(Player, Story[world.node][k].effects)
                     \o << Work("chosen", Player, k) >>, << >>, world)
      BY <1>4 DEF choose_event_option
    <2>2. EffectsKnown(Story[world.node][k].effects)
      BY <1>4, <2>1, WorldRulesAssumption DEF WorldRulesAssumption
    <2>3. TodoOK(Effects(Player, Story[world.node][k].effects)
                   \o << Work("chosen", Player, k) >>, world)
      BY <1>0, <2>2, CommandTodo
    <2>4. << >> \in Seq(Range(<< >>)) /\ \A e \in Range(<< >>) : EventOK(e)
      BY NoEvents
    <2> QED
      BY <1>0, <2>1, <2>3, <2>4, BeginKeeps
  <1>5. ASSUME NEW s \in Scenes, transition_scene(s) PROVE RulesInv'
    <2>1. PICK w : w = [world EXCEPT !.scene = s]
      OBVIOUS
    <2>2. PICK e, f, g : /\ e = Event("character_moved", 0)
                         /\ f = Event("scene_left", world.scene)
                         /\ g = Event("scene_entered", s)
      OBVIOUS
    <2>3. Begin(Player, << >>, <<e, f, g>>, w)
      BY <1>5, <2>1, <2>2 DEF transition_scene
    <2>4. WorldOK(w)
      <3>1. {"clock", "cond"} \subseteq DOMAIN world
        BY <1>0 DEF WorldOK
      <3>2. {"clock", "cond"} \subseteq DOMAIN w /\ w.clock = world.clock /\ w.cond = world.cond
        BY <2>1, <3>1
      <3> QED
        BY <1>0, <3>2, FrameWorld
    <2>5. EventOK(e) /\ EventOK(f) /\ EventOK(g)
      BY <2>2 DEF EventOK, Event
    <2>6. <<e, f, g>> \in Seq(Range(<<e, f, g>>)) /\ \A x \in Range(<<e, f, g>>) : EventOK(x)
      BY <2>5, ThreeEvents
    <2>7. TodoOK(<< >>, w)
      BY NoEvents DEF TodoOK
    <2> QED
      BY <1>0, <2>3, <2>4, <2>6, <2>7, BeginKeeps
  <1> QED
    BY <1>1, <1>2, <1>3, <1>4, <1>5 DEF Command

LEMMA HeadWork ==
  ASSUME RulesInv, NEW op, Head1(op)
  PROVE  /\ TodoOK(Rest, world) /\ todo # << >>
         /\ WorkOK(todo[1], world) /\ todo[1] \in Range(todo)
         /\ todo[1][1] = op /\ By = todo[1][2] /\ Now = todo[1][3] /\ By \in Actors
         /\ Range(Rest) \subseteq Range(todo)
         /\ op \in Late => \A x \in Range(Rest) : x[1] # "tick"
  <1>1. TodoOK(todo, world) /\ todo # << >> /\ todo[1][1] = op
    BY DEF RulesInv, Head1
  <1>2. WorkOK(todo[1], world)
    BY <1>1, TailTodo
  <1>3. By \in Actors
    BY <1>2 DEF WorkOK, By
  <1> QED
    BY <1>1, <1>2, <1>3, TailTodo DEF Rest, By, Now

LEMMA NoTicks ==
  ASSUME NEW t, NEW w, TodoOK(t, w), t # << >>, t[1][1] \in Late
  PROVE  \A x \in Range(t) : x[1] # "tick"
  <1>1. PICK n \in Nat : n = Len(t) /\ DOMAIN t = 1..n
    BY LenProperties DEF TodoOK
  <1> SUFFICES ASSUME NEW j \in 1..n PROVE t[j][1] # "tick"
    BY <1>1 DEF Range
  <1>2. CASE j = 1
    BY <1>2 DEF Late
  <1>3. CASE j # 1
    <2>1. 1 \in 1..n /\ 1 < j
      BY <1>1, <1>3
    <2>2. t[1][1] \in {"advance", "expire"}
      BY DEF Late
    <2> QED
      BY <1>1, <2>1, <2>2 DEF TodoOK
  <1> QED
    BY <1>2, <1>3

LEMMA EventAppended ==
  ASSUME EventsOK, NEW e, EventOK(e), events' = Append(events, e)
  PROVE  EventsOK'
  <1>1. /\ Append(events, e) \in Seq(Range(Append(events, e)))
        /\ Range(Append(events, e)) \subseteq Range(events) \cup {e}
    BY AppendRange DEF EventsOK
  <1>2. \A x \in Range(events') : EventOK(x)
    BY <1>1 DEF EventsOK
  <1> QED
    BY <1>1, <1>2 DEF EventsOK

LEMMA SignalsConcatenated ==
  ASSUME SignalsOK, NEW s, s \in Seq(Range(s)), \A x \in Range(s) : SignalOK(x),
         signals' = signals \o s
  PROVE  SignalsOK'
  <1>1. /\ signals \o s \in Seq(Range(signals \o s))
        /\ Range(signals \o s) \subseteq Range(signals) \cup Range(s)
    BY ConcatRange DEF SignalsOK
  <1>2. \A x \in Range(signals') : SignalOK(x)
    BY <1>1 DEF SignalsOK
  <1> QED
    BY <1>1, <1>2 DEF SignalsOK

(* The end of a command, or a step of it that adds an event.               *)
LEMMA KeepsOthers ==
  ASSUME RulesInv, UNCHANGED <<before, actor, deletes>>,
         WorldOK(world'), TodoOK(todo', world'), EventsOK', SignalsOK'
  PROVE  RulesInv'
  BY DEF RulesInv, WorldOK, Timely

LEMMA SameEvents ==
  /\ EventsOK /\ UNCHANGED events => EventsOK'
  /\ SignalsOK /\ UNCHANGED signals => SignalsOK'
  BY DEF EventsOK, SignalsOK

LEMMA EffectStep ==
  ASSUME RulesInv, apply_effect
  PROVE  RulesInv'
  <1>1. Head1("effect") /\ UNCHANGED <<before, actor, deletes, signals>>
    BY DEF apply_effect
  <1>2. /\ WorldOK(world) /\ deletes \subseteq Nat /\ IsFiniteSet(deletes)
        /\ TodoOK(todo, world) /\ EventsOK /\ SignalsOK
    BY DEF RulesInv
  <1>3. By \in Actors /\ EffectOK(Now) /\ todo # << >>
    BY <1>1, HeadWork DEF WorkOK
  <1>4. world' = EffectWorld(By, Now) /\ todo' = Rest
        /\ events' = Append(events, EffectEvent(Now))
    BY DEF apply_effect
  <1>5. /\ WorldOK(world') /\ world'.clock = world.clock
        /\ DOMAIN world.cond \subseteq DOMAIN world'.cond
    BY <1>2, <1>3, <1>4, EffectKeeps
  <1>6. TodoOK(todo', world')
    BY <1>2, <1>3, <1>4, <1>5, RestTodo
  <1>7. EventsOK'
    BY <1>2, <1>3, <1>4, EffectEventOK, EventAppended
  <1> QED
    BY <1>1, <1>2, <1>5, <1>6, <1>7, SameEvents, KeepsOthers

(* Steps that leave the conditions and the clock alone.                    *)
LEMMA PlainStep ==
  ASSUME RulesInv, todo # << >>, todo' = Rest, NEW e, EventOK(e), events' = Append(events, e),
         {"clock", "cond"} \subseteq DOMAIN world', world'.clock = world.clock,
         world'.cond = world.cond, UNCHANGED <<before, actor, deletes>>, SignalsOK'
  PROVE  RulesInv'
  <1>1. WorldOK(world) /\ TodoOK(todo, world) /\ EventsOK
    BY DEF RulesInv
  <1>2. WorldOK(world')
    BY <1>1, FrameWorld
  <1>3. TodoOK(todo', world')
    BY <1>1, RestTodo
  <1>4. EventsOK'
    BY <1>1, EventAppended
  <1> QED
    BY <1>2, <1>3, <1>4, KeepsOthers

LEMMA FinishStep ==
  ASSUME RulesInv, SkillUsed \/ ActionPerformed \/ OptionChosen
  PROVE  RulesInv'
  <1>1. {"clock", "cond"} \subseteq DOMAIN world /\ SignalsOK
    BY DEF RulesInv, WorldOK
  <1>2. PICK op, w, e : /\ Finish(op, w, e)
                        /\ e \in {Event("skill_used", 0), Event("performed", Now),
                                  Event("option_chosen", 0)}
                        /\ \/ w = [world EXCEPT !.ready[By][Now] = CooledDown(Now)]
                           \/ w = world
                           \/ w = [world EXCEPT !.node = Story[world.node][Now].next]
    BY DEF SkillUsed, ActionPerformed, OptionChosen
  <1>3. /\ todo # << >> /\ todo' = Rest /\ events' = Append(events, e) /\ world' = w
        /\ UNCHANGED <<before, actor, deletes, signals>>
    BY <1>2 DEF Finish, Head1
  <1>4. /\ {"clock", "cond"} \subseteq DOMAIN w /\ w.clock = world.clock
        /\ w.cond = world.cond
    BY <1>1, <1>2
  <1>5. EventOK(e)
    BY <1>2 DEF EventOK, Event
  <1>6. SignalsOK'
    BY <1>1, <1>3, SameEvents
  <1> QED
    BY <1>3, <1>4, <1>5, <1>6, PlainStep

LEMMA BoundariesAre ==
  ASSUME NEW to \in Nat
  PROVE  /\ Boundaries(to) \in SUBSET Nat
         /\ \A b : b \in Boundaries(to) <=>
              /\ b \in 1..to
              /\ \E i \in DOMAIN world.cond :
                   b = world.cond[i].next \/ b = world.cond[i].expires
  <1> DEFINE both == UNION {{world.cond[i].next, world.cond[i].expires} :
                              i \in DOMAIN world.cond}
  <1>1. \A b : b \in both <=>
                \E i \in DOMAIN world.cond :
                   b = world.cond[i].next \/ b = world.cond[i].expires
    OBVIOUS
  <1>2. Boundaries(to) = both \cap 1..to
    BY DEF Boundaries
  <1> HIDE DEF both
  <1>3. \A b : b \in Boundaries(to) <=> b \in both /\ b \in 1..to
    BY <1>2
  <1>4. Boundaries(to) \in SUBSET Nat
    <2>1. \A b \in 1..to : b \in Nat
      OBVIOUS
    <2> QED
      BY <1>3, <2>1
  <1> QED
    BY <1>1, <1>3, <1>4

(* Time stops at the next boundary: it passes no tick and no expiry.       *)
LEMMA ClockMoves ==
  ASSUME RulesInv, NEW to \in Nat, world.clock <= to, NEW t \in Nat,
         IF Boundaries(to) = {} THEN t = to ELSE t = Min(Boundaries(to))
  PROVE  /\ world.clock <= t /\ t <= to
         /\ WorldOK([world EXCEPT !.clock = t])
         /\ [world EXCEPT !.clock = t].clock = t
         /\ [world EXCEPT !.clock = t].cond = world.cond
  <1>1. /\ WorldOK(world) /\ {"clock", "cond"} \subseteq DOMAIN world
        /\ world.clock \in Nat
    BY DEF RulesInv, WorldOK
  <1>2. PICK w : w = [world EXCEPT !.clock = t]
    OBVIOUS
  <1>3. {"clock", "cond"} \subseteq DOMAIN w /\ w.clock = t /\ w.cond = world.cond
    BY <1>1, <1>2
  <1>4. \A i \in DOMAIN world.cond :
          /\ world.cond[i].next \in Nat /\ world.cond[i].expires \in Nat
          /\ world.cond[i].def \in DOMAIN Conditions
          /\ Timely(world.cond[i], world.clock)
    BY <1>1 DEF WorldOK, Instance
  <1>5. Boundaries(to) \in SUBSET Nat
    BY BoundariesAre
  <1>6. \A b \in Boundaries(to) : b \in 1..to /\ world.clock <= b
    <2> SUFFICES ASSUME NEW i \in DOMAIN world.cond,
                        NEW b \in {world.cond[i].next, world.cond[i].expires}, b \in 1..to
                 PROVE  world.clock <= b
      BY BoundariesAre
    <2>1. b # Never
      BY DEF Never
    <2> QED
      BY <1>4, <2>1 DEF Timely
  <1>7. world.clock <= t /\ t <= to /\ \A b \in Boundaries(to) : t <= b
    <2>1. CASE Boundaries(to) = {}
      BY <2>1
    <2>2. CASE Boundaries(to) # {}
      <3>1. t \in Boundaries(to) /\ \A b \in Boundaries(to) : t <= b
        BY <1>5, <2>2, MinIsLeast
      <3>2. t \in 1..to /\ world.clock <= t
        BY <1>6, <3>1
      <3> QED
        BY <3>1, <3>2
    <2> QED
      BY <2>1, <2>2
  <1>8. ASSUME NEW i \in DOMAIN world.cond,
               NEW b \in {world.cond[i].next, world.cond[i].expires}, b # Never
        PROVE  t <= b
    <2>1. b \in Nat /\ b # 0
      BY <1>4, <1>8 DEF Never
    <2>2. CASE b <= to
      <3>1. b \in 1..to
        BY <2>1, <2>2
      <3>2. b \in Boundaries(to)
        BY <1>8, <3>1, BoundariesAre
      <3> QED
        BY <1>7, <3>2
    <2>3. CASE ~(b <= to)
      BY <1>7, <2>1, <2>3
    <2> QED
      BY <2>2, <2>3
  <1>9. ASSUME NEW i \in DOMAIN world.cond PROVE Timely(world.cond[i], t)
    <2>1. PICK c : c = world.cond[i]
      OBVIOUS
    <2>2. /\ c.next \in Nat /\ c.def \in DOMAIN Conditions /\ Timely(c, world.clock)
          /\ c.next # Never => t <= c.next
          /\ c.expires # Never => t <= c.expires
      BY <1>4, <1>8, <2>1
    <2>3. PICK interval \in Nat : interval = Conditions[c.def].interval
      BY <2>2, Durations
    <2>4. c.next # Never => c.next <= t + interval
      BY <1>1, <1>7, <2>2, <2>3 DEF Timely
    <2> QED
      BY <2>1, <2>2, <2>3, <2>4 DEF Timely
  <1>10. WorldOK(w)
    BY <1>1, <1>3, <1>9 DEF WorldOK
  <1> QED
    BY <1>2, <1>3, <1>7, <1>10

LEMMA AdvanceStep ==
  ASSUME RulesInv, Advance
  PROVE  RulesInv'
  <1>1. Head1("advance") /\ UNCHANGED <<before, actor, deletes, events, signals>>
    BY DEF Advance
  <1>2. /\ WorldOK(world) /\ TodoOK(todo, world) /\ EventsOK /\ SignalsOK
    BY DEF RulesInv
  <1>3. PICK to : to = Now
    OBVIOUS
  <1>4. "advance" \in Late
    BY DEF Late
  <1>5. /\ to \in Nat /\ world.clock <= to /\ todo # << >> /\ TodoOK(Rest, world)
        /\ By \in Actors /\ Range(Rest) \subseteq Range(todo)
        /\ \A x \in Range(todo) : x[1] = "advance" => x[3] = to
        /\ \A x \in Range(todo) : x[1] # "tick"
    <2>1. /\ WorkOK(todo[1], world) /\ todo[1] \in Range(todo) /\ todo[1][1] = "advance"
          /\ todo[1][3] = to /\ todo # << >> /\ TodoOK(Rest, world) /\ By \in Actors
          /\ Range(Rest) \subseteq Range(todo)
      BY <1>1, <1>3, HeadWork
    <2>2. to \in Nat /\ world.clock <= to
      BY <2>1 DEF WorkOK
    <2>3. \A x \in Range(todo) : x[1] = "advance" => x[3] = to
      BY <1>2, <2>1 DEF TodoOK
    <2>4. \A x \in Range(todo) : x[1] # "tick"
      BY <1>2, <1>4, <2>1, NoTicks
    <2> QED
      BY <2>1, <2>2, <2>3, <2>4
  <1>6. CASE Boundaries(to) = {}
    <2>1. world' = [world EXCEPT !.clock = to] /\ todo' = Rest
      BY <1>3, <1>6 DEF Advance
    <2>2. WorldOK(world') /\ world'.clock = to
      BY <1>5, <1>6, <2>1, ClockMoves
    <2>3. \A x \in Range(Rest) : x[1] = "advance" => world'.clock <= x[3]
      BY <1>5, <2>2
    <2>4. \A x \in Range(Rest) : x[1] # "tick"
      BY <1>5
    <2>5. TodoOK(todo', world')
      BY <1>5, <2>1, <2>3, <2>4, FrameTodo
    <2> QED
      BY <1>1, <1>2, <2>2, <2>5, SameEvents, KeepsOthers
  <1>7. CASE Boundaries(to) # {}
    <2>1. PICK t : t = Min(Boundaries(to))
      OBVIOUS
    <2>2. t \in Nat
      <3>1. Boundaries(to) \in SUBSET Nat
        BY <1>5, BoundariesAre
      <3> QED
        BY <1>7, <2>1, <3>1, MinIsLeast
    <2>3. PICK due : due = Ordered(conditions_periodic_at(t))
      OBVIOUS
    <2>4. PICK ticks : ticks = [k \in DOMAIN due |-> Work("tick", By, due[k])]
      OBVIOUS
    <2>5. PICK expire : expire = Work("expire", By, t)
      OBVIOUS
    <2>6. world' = [world EXCEPT !.clock = t] /\ todo' = ticks \o <<expire>> \o todo
      BY <1>3, <1>7, <2>1, <2>3, <2>4, <2>5 DEF Advance, next_condition_boundary
    <2>7. /\ WorldOK(world') /\ world'.clock = t /\ world'.cond = world.cond /\ t <= to
      BY <1>5, <1>7, <2>1, <2>2, <2>6, ClockMoves
    <2>8. TodoOK(todo, world')
      <3>1. \A x \in Range(todo) : x[1] = "advance" => world'.clock <= x[3]
        BY <1>5, <2>7
      <3> QED
        BY <1>2, <1>5, <3>1, FrameTodo
    <2>9. TodoOK(ticks, world') /\ \A x \in Range(ticks) : x[1] = "tick"
      <3> DEFINE X == {Work("tick", By, i) : i \in DOMAIN world.cond}
      <3>1. due \in Seq(DOMAIN world.cond)
        <4>1. conditions_periodic_at(t) \in SUBSET DOMAIN world.cond
          BY DEF conditions_periodic_at
        <4>2. due \in Seq(conditions_periodic_at(t))
          BY <1>2, <2>3, <4>1, OrderedIn
        <4> QED
          BY <4>1, <4>2, SeqMonotonic
      <3>2. /\ DOMAIN due = 1..Len(due) /\ Len(due) \in Nat
            /\ \A k \in 1..Len(due) : due[k] \in DOMAIN world.cond
        BY <3>1, LenProperties, ElementOfSeq
      <3>3. \A k \in 1..Len(due) : Work("tick", By, due[k]) \in X
        BY <3>2
      <3>4. \A x \in X : x[1] = "tick" /\ WorkOK(x, world')
        BY <1>5, <2>7 DEF Work, WorkOK
      <3> HIDE DEF X
      <3>5. ticks \in [1..Len(due) -> X]
        BY <2>4, <3>2, <3>3
      <3>6. ticks \in Seq(X)
        BY <3>2, <3>5
      <3>7. "tick" \notin Late
        BY DEF Late
      <3> QED
        BY <3>4, <3>6, <3>7, SameTodo
    <2>10. TodoOK(<<expire>>, world') /\ \A x \in Range(<<expire>>) : x[1] = "expire"
      <3>1. expire[1] = "expire" /\ WorkOK(expire, world')
        BY <1>5, <2>5 DEF Work, WorkOK
      <3> QED
        BY <3>1, SingleTodo
    <2>11. /\ TodoOK(ticks \o <<expire>>, world')
           /\ \A x \in Range(ticks \o <<expire>>) : x[1] # "advance"
      <3>1. TodoOK(ticks \o <<expire>>, world')
        BY <2>9, <2>10, ConcatTodo
      <3>2. Range(ticks \o <<expire>>) \subseteq Range(ticks) \cup Range(<<expire>>)
        BY <2>9, <2>10, ConcatRange DEF TodoOK
      <3> QED
        BY <2>9, <2>10, <3>1, <3>2
    <2>12. TodoOK(todo', world')
      BY <1>5, <2>6, <2>8, <2>11, ConcatTodo
    <2> QED
      BY <1>1, <1>2, <2>7, <2>12, SameEvents, KeepsOthers
  <1> QED
    BY <1>6, <1>7

LEMMA TickStep ==
  ASSUME RulesInv, Tick
  PROVE  RulesInv'
  <1>1. Head1("tick") /\ UNCHANGED <<before, actor, deletes, signals>>
    BY DEF Tick
  <1>2. /\ WorldOK(world) /\ TodoOK(todo, world) /\ EventsOK /\ SignalsOK
    BY DEF RulesInv
  <1>3. PICK i : i = Now
    OBVIOUS
  <1>4. i \in DOMAIN world.cond /\ todo # << >> /\ TodoOK(Rest, world)
    BY <1>1, <1>3, HeadWork DEF WorkOK
  <1>5. PICK c : c = world.cond[i]
    OBVIOUS
  <1>6. c \in Instance /\ Timely(c, world.clock) /\ world.clock \in Nat
    BY <1>2, <1>4, <1>5 DEF WorldOK
  <1>7. CASE c.next # world.clock
    <2>1. todo' = Rest /\ UNCHANGED <<world, events>>
      BY <1>3, <1>5, <1>7 DEF Tick
    <2>2. WorldOK(world')
      BY <1>2, <2>1 DEF WorldOK, Timely
    <2> QED
      BY <1>1, <1>2, <1>4, <2>1, <2>2, SameEvents, KeepsOthers
  <1>8. CASE c.next = world.clock
    <2>1. PICK interval \in Nat : interval = Conditions[c.def].interval
      BY <1>6, Durations DEF Instance
    <2>2. PICK ticked : ticked = [c EXCEPT !.next = world.clock + interval]
      OBVIOUS
    <2>3. ticked \in Instance /\ Timely(ticked, world.clock)
      BY <1>6, <2>1, <2>2 DEF Instance, Timely
    <2>4. /\ world' = [world EXCEPT !.cond[i].next = world.clock + interval]
          /\ events' = Append(events, Event("condition_ticked", 0))
          /\ todo' = Effects(c.target, Conditions[c.def].effects) \o Rest
      BY <1>3, <1>5, <1>8, <2>1 DEF Tick
    <2>5. {"clock", "cond"} \subseteq DOMAIN world
      BY <1>2 DEF WorldOK
    <2>6. /\ {"clock", "cond"} \subseteq DOMAIN world' /\ world'.clock = world.clock
          /\ world'.cond = [world.cond EXCEPT ![i] = ticked]
      BY <1>5, <2>2, <2>4, <2>5
    <2>7. /\ DOMAIN world'.cond = DOMAIN world.cond
          /\ \A j \in DOMAIN world.cond :
               world'.cond[j] = IF j = i THEN ticked ELSE world.cond[j]
      BY <1>4, <2>6
    <2>8. WorldOK(world')
      BY <1>2, <2>3, <2>6, <2>7 DEF WorldOK
    <2>9. TodoOK(Rest, world')
      <3>1. \A x \in Range(Rest) : x[1] = "advance" => world'.clock <= x[3]
        BY <1>4, <2>6 DEF TodoOK, WorkOK
      <3> QED
        BY <1>4, <2>7, <3>1, FrameTodo
    <2>10. c.target \in Actors /\ EffectsKnown(Conditions[c.def].effects)
      BY <1>6, Durations DEF Instance
    <2>11. TodoOK(todo', world')
      <3>1. PICK es : es = Effects(c.target, Conditions[c.def].effects)
        OBVIOUS
      <3>2. TodoOK(es, world') /\ \A x \in Range(es) : x[1] = "effect"
        BY <2>10, <3>1, EffectsTodo
      <3>3. \A x \in Range(es) : x[1] # "advance" /\ x[1] \notin Late
        BY <3>2 DEF Late
      <3> QED
        BY <2>4, <2>9, <3>1, <3>2, <3>3, ConcatTodo
    <2>12. EventsOK'
      <3>1. EventOK(Event("condition_ticked", 0))
        BY DEF EventOK, Event
      <3> QED
        BY <1>2, <2>4, <3>1, EventAppended
    <2> QED
      BY <1>1, <1>2, <2>8, <2>11, <2>12, SameEvents, KeepsOthers
  <1> QED
    BY <1>7, <1>8

LEMMA ExpireStep ==
  ASSUME RulesInv, Expire
  PROVE  RulesInv'
  <1>1. Head1("expire") /\ UNCHANGED <<before, actor, signals>>
    BY DEF Expire
  <1>2. /\ WorldOK(world) /\ WorldOK(before.world) /\ TodoOK(todo, world)
        /\ actor \in Actors /\ EventsOK /\ SignalsOK
        /\ deletes \subseteq Nat /\ IsFiniteSet(deletes)
    BY DEF RulesInv
  <1>3. PICK gone : gone = conditions_expiring_at(Now)
    OBVIOUS
  <1>4. PICK conds : conds = [i \in DOMAIN world.cond \ gone |-> world.cond[i]]
    OBVIOUS
  <1>5. PICK e : e = Event("condition_expired", 0)
    OBVIOUS
  <1>6. PICK gones : gones = [k \in 1..Cardinality(gone) |-> e]
    OBVIOUS
  <1>7. /\ world' = [world EXCEPT !.cond = conds] /\ deletes' = deletes \cup gone
        /\ events' = events \o gones /\ todo' = Rest
    BY <1>3, <1>4, <1>5, <1>6 DEF Expire
  <1>8. gone \in SUBSET DOMAIN world.cond
    BY <1>3 DEF conditions_expiring_at
  <1>9. {"clock", "cond"} \subseteq DOMAIN world
    BY <1>2 DEF WorldOK
  <1>10. /\ {"clock", "cond"} \subseteq DOMAIN world' /\ world'.clock = world.clock
         /\ world'.cond = conds
    BY <1>7, <1>9
  <1>11. /\ DOMAIN conds \in SUBSET DOMAIN world.cond
         /\ \A i \in DOMAIN conds : conds[i] = world.cond[i]
    BY <1>4
  <1>12. WorldOK(world')
    <2>1. IsFiniteSet(DOMAIN conds)
      BY <1>2, <1>11, FS_Subset DEF WorldOK
    <2> QED
      BY <1>2, <1>10, <1>11, <2>1 DEF WorldOK
  <1>13. TodoOK(todo', world')
    <2>1. "expire" \in Late
      BY DEF Late
    <2>2. TodoOK(Rest, world) /\ \A x \in Range(Rest) : x[1] # "tick"
      BY <1>1, <2>1, HeadWork
    <2>3. \A x \in Range(Rest) : x[1] = "advance" => world'.clock <= x[3]
      BY <1>10, <2>2 DEF TodoOK, WorkOK
    <2> QED
      BY <1>7, <2>2, <2>3, FrameTodo
  <1>14. deletes' \subseteq Nat /\ IsFiniteSet(deletes') /\ Cardinality(gone) \in Nat
    <2>1. IsFiniteSet(gone) /\ gone \subseteq Nat
      BY <1>2, <1>8, FS_Subset DEF WorldOK
    <2> QED
      BY <1>2, <1>7, <2>1, FS_Union, FS_CardinalityType
  <1>15. EventsOK'
    <2>1. gones \in Seq({e})
      BY <1>6, <1>14
    <2>2. gones \in Seq(Range(gones)) /\ Range(gones) \subseteq {e}
      BY <2>1, SeqRange
    <2>3. EventOK(e)
      BY <1>5 DEF EventOK, Event
    <2>4. /\ events \o gones \in Seq(Range(events \o gones))
          /\ Range(events \o gones) \subseteq Range(events) \cup Range(gones)
      BY <1>2, <2>2, ConcatRange DEF EventsOK
    <2>5. \A x \in Range(events \o gones) : EventOK(x)
      BY <1>2, <2>2, <2>3, <2>4 DEF EventsOK
    <2> QED
      BY <1>7, <2>4, <2>5 DEF EventsOK
  <1>16. SignalsOK'
    BY <1>1, <1>2, SameEvents
  <1>17. actor' \in Actors /\ WorldOK(before'.world)
    BY <1>1, <1>2
  <1> QED
    BY <1>12, <1>13, <1>14, <1>15, <1>16, <1>17 DEF RulesInv, WorldOK, Timely

LEMMA SignalStep ==
  ASSUME RulesInv, StartRules \/ NextSignal
  PROVE  RulesInv'
  <1>1. /\ WorldOK(world) /\ TodoOK(todo, world) /\ EventsOK /\ SignalsOK /\ actor \in Actors
    BY DEF RulesInv
  <1>2. UNCHANGED <<world, before, actor, deletes, events>>
    BY DEF StartRules, NextSignal
  <1>3. WorldOK(world') /\ EventsOK'
    BY <1>1, <1>2, SameEvents DEF WorldOK, Timely
  <1>4. CASE StartRules
    <2>1. signals' = AllSignals(events, 0) /\ todo' = Rest /\ todo # << >>
      BY <1>4 DEF StartRules, Head1
    <2>2. SignalsOK'
      BY <1>1, <2>1, AllSignalsOK DEF EventsOK, SignalsOK
    <2>3. TodoOK(todo', world')
      BY <1>1, <1>2, <2>1, RestTodo
    <2> QED
      BY <1>2, <1>3, <2>2, <2>3, KeepsOthers
  <1>5. CASE NextSignal
    <2>1. signals' = Tail(signals) /\ todo' = Triggered(signals[1]) /\ signals # << >>
      BY <1>5 DEF NextSignal, RulesRunning
    <2>2. /\ signals[1] \in Range(signals)
          /\ Tail(signals) \in Seq(Range(Tail(signals)))
          /\ Range(Tail(signals)) \subseteq Range(signals)
      BY <1>1, <2>1, TailRange DEF SignalsOK
    <2>3. SignalsOK'
      BY <1>1, <2>1, <2>2 DEF SignalsOK
    <2>4. SignalOK(signals[1])
      BY <1>1, <2>2 DEF SignalsOK
    <2>5. TodoOK(todo', world')
      BY <1>1, <2>1, <2>4, TriggeredTodo
    <2> QED
      BY <1>2, <1>3, <2>3, <2>5, KeepsOthers
  <1> QED
    BY <1>4, <1>5

LEMMA FireStep ==
  ASSUME RulesInv, Fire
  PROVE  RulesInv'
  <1>1. Head1("fire") /\ UNCHANGED <<world, before, actor, deletes, events, signals>>
    BY DEF Fire
  <1>2. /\ WorldOK(world) /\ TodoOK(todo, world) /\ EventsOK /\ SignalsOK /\ actor \in Actors
    BY DEF RulesInv
  <1>3. WorldOK(world') /\ EventsOK' /\ SignalsOK'
    BY <1>1, <1>2, SameEvents DEF WorldOK, Timely
  <1>4. todo # << >> /\ Now \in Firing /\ TodoOK(Rest, world)
    BY <1>1, HeadWork DEF WorkOK
  <1>5. TodoOK(Rest, world')
    BY <1>1, <1>4 DEF TodoOK, WorkOK
  <1>6. CASE todo' = Rest
    BY <1>1, <1>3, <1>5, <1>6, KeepsOthers
  <1>7. CASE todo' # Rest
    <2>1. PICK f : f = [Now EXCEPT !.start = Len(events)]
      OBVIOUS
    <2>2. PICK es : es = Effects(actor, Rules[Now.rule].effects)
      OBVIOUS
    <2>3. PICK fired : fired = Work("fired", actor, f)
      OBVIOUS
    <2>4. todo' = es \o <<fired>> \o Rest
      BY <1>7, <2>1, <2>2, <2>3 DEF Fire
    <2>5. Len(events) \in Nat
      BY <1>2, LenProperties DEF EventsOK
    <2>6. f \in Firing /\ Now.rule \in DOMAIN Rules
      BY <1>4, <2>1, <2>5 DEF Firing
    <2>7. fired[1] = "fired" /\ WorkOK(fired, world')
      BY <1>2, <2>3, <2>6 DEF Work, WorkOK
    <2>8. TodoOK(<<fired>>, world') /\ Range(<<fired>>) = {fired}
      BY <2>7, SingleTodo
    <2>9. EffectsKnown(Rules[Now.rule].effects)
      BY <2>6, WorldRulesAssumption DEF WorldRulesAssumption
    <2>10. TodoOK(es, world') /\ \A x \in Range(es) : x[1] = "effect"
      BY <1>2, <2>2, <2>9, EffectsTodo
    <2>11. \A x \in Range(es) : x[1] # "advance" /\ x[1] \notin Late
      BY <2>10 DEF Late
    <2>12. TodoOK(es \o <<fired>>, world')
      BY <2>8, <2>10, <2>11, ConcatTodo
    <2>13. Range(es \o <<fired>>) \subseteq Range(es) \cup Range(<<fired>>)
      BY <2>8, <2>10, ConcatRange DEF TodoOK
    <2>14. \A x \in Range(es \o <<fired>>) : x[1] # "advance" /\ x[1] \notin Late
      BY <2>7, <2>8, <2>11, <2>13 DEF Late
    <2>15. TodoOK(todo', world')
      BY <1>5, <2>4, <2>12, <2>14, ConcatTodo
    <2> QED
      BY <1>1, <1>3, <2>15, KeepsOthers
  <1> QED
    BY <1>6, <1>7

LEMMA FiredStep ==
  ASSUME RulesInv, Fired
  PROVE  RulesInv'
  <1>1. Head1("fired") /\ UNCHANGED <<before, actor, deletes>>
    BY DEF Fired
  <1>2. /\ WorldOK(world) /\ EventsOK /\ SignalsOK
    BY DEF RulesInv
  <1>3. todo # << >> /\ Now \in Firing
    BY <1>1, HeadWork DEF WorkOK
  <1>4. PICK counts : counts = [r \in ClockRules |-> IF r = Now.rule THEN world.count[r] + 1
                                                     ELSE world.count[r]]
    OBVIOUS
  <1>5. PICK start \in Nat : start = Now.start
    BY <1>3 DEF Firing
  <1>6. PICK depth \in Nat : depth = Now.depth + 1
    BY <1>3 DEF Firing
  <1>7. PICK caused : caused = SubSeq(events, start + 1, Len(events))
    OBVIOUS
  <1>8. PICK e : e = Event("rule_triggered", 0)
    OBVIOUS
  <1>9. /\ world' = [world EXCEPT !.count = counts] /\ events' = Append(events, e)
        /\ signals' = signals \o AllSignals(caused, depth) /\ todo' = Rest
    BY <1>4, <1>5, <1>6, <1>7, <1>8 DEF Fired
  <1>10. {"clock", "cond"} \subseteq DOMAIN world
    BY <1>2 DEF WorldOK
  <1>11. /\ {"clock", "cond"} \subseteq DOMAIN world' /\ world'.clock = world.clock
         /\ world'.cond = world.cond
    BY <1>9, <1>10
  <1>12. caused \in Seq(Range(events))
    <2>1. PICK n \in Nat : n = Len(events) /\ \A i \in 1..n : events[i] \in Range(events)
      BY <1>2, LenProperties, ElementOfSeq DEF EventsOK
    <2>2. start + 1 \in Int /\ n \in Int /\ \A i \in (start + 1)..n : i \in 1..n
      BY <2>1
    <2>3. \A i \in (start + 1)..n : events[i] \in Range(events)
      BY <2>1, <2>2
    <2> QED
      BY <1>7, <2>1, <2>2, <2>3, SubSeqProperties
  <1>13. caused \in Seq(Range(caused)) /\ \A x \in Range(caused) : EventOK(x)
    BY <1>2, <1>12, SeqRange DEF EventsOK
  <1>14. SignalsOK'
    BY <1>2, <1>9, <1>13, AllSignalsOK, SignalsConcatenated
  <1>15. EventOK(e)
    BY <1>8 DEF EventOK, Event
  <1> QED
    BY <1>1, <1>3, <1>9, <1>11, <1>14, <1>15, PlainStep

LEMMA EndStep ==
  ASSUME RulesInv, Commit \/ Rollback
  PROVE  RulesInv'
  <1>1. /\ WorldOK(world) /\ WorldOK(before.world)
    BY DEF RulesInv
  <1>2. /\ actor' = Player /\ deletes' = {} /\ todo' = << >> /\ events' = << >>
        /\ signals' = << >>
    BY DEF Commit, Rollback, Idle
  <1>3. WorldOK(world') /\ WorldOK(before'.world)
    <2>1. CASE Commit
      <3>1. world' = world /\ before'.world = world
        BY <2>1 DEF Commit
      <3> QED
        BY <1>1, <3>1
    <2>2. CASE Rollback
      <3>1. world' = before.world /\ before' = before
        BY <2>2 DEF Rollback, Restored
      <3> QED
        BY <1>1, <3>1
    <2> QED
      BY <2>1, <2>2
  <1>4. actor' \in Actors /\ deletes' \subseteq Nat /\ IsFiniteSet(deletes')
    BY <1>2, FS_EmptySet, WorldRulesAssumption DEF WorldRulesAssumption
  <1>5. TodoOK(todo', world')
    BY <1>2, NoEvents DEF TodoOK
  <1>6. EventsOK' /\ SignalsOK'
    BY <1>2, NoEvents DEF EventsOK, SignalsOK
  <1> QED
    BY <1>3, <1>4, <1>5, <1>6 DEF RulesInv, WorldOK, Timely

LEMMA RulesStep ==
  ASSUME RulesInv, [Next]_vars
  PROVE  RulesInv'
  <1>1. CASE UNCHANGED vars
    BY <1>1 DEF vars, RulesInv, WorldOK, Timely, TodoOK, WorkOK, EventsOK, SignalsOK
  <1> QED
    BY <1>1, CommandStep, EffectStep, FinishStep, AdvanceStep, TickStep, ExpireStep,
       SignalStep, FireStep, FiredStep, EndStep DEF Next, Step

LEMMA RulesInit == Init => RulesInv
  <1> SUFFICES ASSUME Init PROVE RulesInv
    OBVIOUS
  <1>1. /\ world.clock = 0 /\ world.cond = << >> /\ {"clock", "cond"} \subseteq DOMAIN world
        /\ before.world = world /\ actor = Player /\ deletes = {}
        /\ todo = << >> /\ events = << >> /\ signals = << >>
    BY DEF Init
  <1>2. WorldOK(world)
    BY <1>1, FS_EmptySet DEF WorldOK
  <1>3. actor \in Actors /\ deletes \subseteq Nat /\ IsFiniteSet(deletes)
    BY <1>1, FS_EmptySet, WorldRulesAssumption DEF WorldRulesAssumption
  <1>4. TodoOK(todo, world) /\ EventsOK /\ SignalsOK
    BY <1>1, NoEvents DEF TodoOK, EventsOK, SignalsOK
  <1> QED
    BY <1>1, <1>2, <1>3, <1>4 DEF RulesInv

(* What a command keeps from step to step.                                 *)
THEOREM RulesInvariant == Spec => []RulesInv
  BY RulesInit, RulesStep, PTL DEF Spec

(* Time never runs past a condition, in whatever order ticks, expiries and *)
(* the effects of both change the conditions: none is overdue, and no tick *)
(* was skipped.                                                            *)
THEOREM TimeKept == Spec => []OnTime
  <1>1. RulesInv => OnTime
    <2> SUFFICES ASSUME RulesInv, NEW i \in DOMAIN world.cond, NEW c, c = world.cond[i]
                 PROVE  /\ c.next # Never =>
                             c.next \in world.clock..(world.clock + Conditions[c.def].interval)
                        /\ c.expires # Never => c.expires >= world.clock
      BY DEF OnTime
    <2>1. c \in Instance /\ Timely(c, world.clock) /\ world.clock \in Nat
      BY DEF RulesInv, WorldOK
    <2>2. PICK interval \in Nat : interval = Conditions[c.def].interval
      BY <2>1, Durations DEF Instance
    <2>3. c.next \in Nat /\ c.expires \in Nat
      BY <2>1 DEF Instance
    <2> QED
      BY <2>1, <2>2, <2>3 DEF Timely
  <1> QED
    BY <1>1, RulesInvariant, PTL

(* A refused command leaves no trace, whichever of its steps refused: not  *)
(* in the records and not in the session parameters.                       *)
THEOREM RefusalsLeaveNoTrace == Spec => []RolledBack
  <1>1. Init => RolledBack
    BY DEF Init, RolledBack
  <1>2. RolledBack /\ [Next]_vars => RolledBack'
    <2> SUFFICES ASSUME RolledBack, [Next]_vars PROVE RolledBack'
      OBVIOUS
    <2>1. CASE UNCHANGED vars
      BY <2>1 DEF vars, RolledBack
    <2>2. CASE Command
      <3>1. outcome' = "running"
        BY <2>2 DEF Command, use_skill, advance_time, perform_gameplay_action,
                    choose_event_option, transition_scene, Begin
      <3> QED
        BY <3>1 DEF RolledBack
    <2>3. CASE apply_effect \/ SkillUsed \/ ActionPerformed \/ OptionChosen
               \/ Advance \/ Tick \/ Expire \/ StartRules \/ NextSignal \/ Fire \/ Fired
      <3>1. outcome = "running" /\ outcome' = outcome
        BY <2>3 DEF apply_effect, SkillUsed, ActionPerformed, OptionChosen, Finish, Advance,
                    Tick, Expire, StartRules, NextSignal, RulesRunning, Fire, Fired, Head1
      <3> QED
        BY <3>1 DEF RolledBack
    <2>4. CASE Commit
      BY <2>4 DEF Commit, RolledBack
    <2>5. CASE Rollback
      BY <2>5 DEF Rollback, Restored, RolledBack
    <2> QED
      BY <2>1, <2>2, <2>3, <2>4, <2>5 DEF Next, Step
  <1> QED
    BY <1>1, <1>2, PTL DEF Spec

-----------------------------------------------------------------------------
(* The rules on the clock.  While a command gathers its changes, the time  *)
(* that passed is in its first event; once rules run it is in one signal,  *)
(* and once that one was taken, in the firings that are still to be done.  *)

FreeRules == {r \in ClockRules : Rules[r].needs = << >>}

CountsTyped(w) == {"clock", "count"} \subseteq DOMAIN w /\ w.count \in [ClockRules -> Nat]

CountsExact(w) == \A r \in FreeRules : w.count[r] = w.clock \div Rules[r].arg

IsClock(e) == e[1] = "clock_advanced"

ClockSignal(s) == s.by = "subject" /\ IsClock(s.event)

IsFiring(x) == x[1] \in {"fire", "fired"}

Fires(x, r) == IsFiring(x) /\ x[3].rule = r

(* The firings of r on the stack are n works in a row.                     *)
Block(t, r, n) ==
  /\ n \in Nat
  /\ \E a \in 0..Len(t) :
       /\ a + n <= Len(t)
       /\ \A i \in 1..Len(t) : Fires(t[i], r) <=> a < i /\ i <= a + n

(* The rules come last, and nothing is fired before.                       *)
RulesLast(t) ==
  /\ Len(t) # 0
  /\ \A i \in 1..Len(t) : ~IsFiring(t[i]) /\ (t[i][1] = "rules" <=> i = Len(t))

(* The events of an advance: the passage of time is the first.             *)
Passed == Len(events) # 0 /\ IsClock(events[1])

Passing ==
  IF Passed
  THEN /\ events[1][2][1] = before.world.clock
       /\ \A x \in Range(todo) : x[1] = "advance" => x[3] = events[1][2][2]
       /\ (\E x \in Range(todo) : x[1] = "advance") \/ world.clock = events[1][2][2]
  ELSE /\ world.clock = before.world.clock
       /\ \A x \in Range(todo) : x[1] # "advance"

Gathering ==
  /\ signals = << >> /\ RulesLast(todo)
  /\ world.count = before.world.count
  /\ \A n \in 1..Len(events) : IsClock(events[n]) => n = 1
  /\ Passing

(* How often the time that passed triggers a rule.                         *)
DueCount(r) == ClockCrossings(Rules[r].arg, before.world.clock, world.clock)

IsPassage(e) == e[2][1] = before.world.clock /\ e[2][2] = world.clock

Announces(sig) ==
  \E k \in 1..Len(sig) : /\ ClockSignal(sig[k]) /\ IsPassage(sig[k].event)
                        /\ \A j \in 1..Len(sig) : ClockSignal(sig[j]) => j = k

Quiet(sig) == \A j \in 1..Len(sig) : ~ClockSignal(sig[j])

(* The signal is still to be taken, or its firings are on the stack.       *)
Ahead ==
  /\ Announces(signals)
  /\ \A r \in FreeRules : Block(todo, r, 0) /\ world.count[r] = before.world.count[r]

Taken ==
  /\ Quiet(signals)
  /\ \A r \in FreeRules : Block(todo, r, before.world.count[r] + DueCount(r) - world.count[r])

(* What a rule causes is no passage of time.                               *)
WorkTriggered(t) ==
  \A x \in Range(t) :
    /\ x[1] \in {"effect", "fire", "fired"}
    /\ x[1] = "fired" => \A n \in 1..Len(events) : IsClock(events[n]) => n <= x[3].start

Triggering == WorkTriggered(todo) /\ (Ahead \/ Taken)

ClockInv ==
  /\ CountsTyped(world) /\ CountsTyped(before.world) /\ CountsExact(before.world)
  /\ outcome # "running" => world = before.world
  /\ outcome = "running" => /\ before.world.clock <= world.clock
                            /\ Gathering \/ Triggering

-----------------------------------------------------------------------------
(* Sequences again: the parts of a concatenation, and blocks of firings.   *)

LEMMA ConcatItems ==
  ASSUME NEW s, s \in Seq(Range(s)), NEW t, t \in Seq(Range(t))
  PROVE  /\ Len(s) \in Nat /\ Len(t) \in Nat /\ Len(s \o t) = Len(s) + Len(t)
         /\ \A i \in 1..(Len(s) + Len(t)) :
              (s \o t)[i] = IF i <= Len(s) THEN s[i] ELSE t[i - Len(s)]
         /\ \A i \in 1..Len(s) : s[i] \in Range(s)
         /\ \A i \in 1..Len(t) : t[i] \in Range(t)
  <1>1. s \in Seq(Range(s) \cup Range(t)) /\ t \in Seq(Range(s) \cup Range(t))
    BY SeqMonotonic
  <1> QED
    BY <1>1, ConcatProperties, LenProperties, ElementOfSeq

LEMMA ConcatCovers ==
  ASSUME NEW p, p \in Seq(Range(p)), NEW t, t \in Seq(Range(t))
  PROVE  Range(t) \subseteq Range(p \o t)
  <1>1. PICK l \in Nat, m \in Nat : l = Len(p) /\ m = Len(t)
    BY ConcatItems
  <1>2. PICK u : u = p \o t
    OBVIOUS
  <1>3. /\ u \in Seq(Range(u)) /\ Len(u) = l + m
        /\ \A i \in 1..(l + m) : u[i] = IF i <= l THEN p[i] ELSE t[i - l]
    BY <1>1, <1>2, ConcatItems, ConcatRange
  <1>4. DOMAIN u = 1..(l + m) /\ DOMAIN t = 1..m
    BY <1>1, <1>3, LenProperties
  <1>5. ASSUME NEW i \in 1..m PROVE t[i] \in Range(u)
    <2>1. l + i \in 1..(l + m) /\ ~(l + i <= l) /\ l + i - l = i
      OBVIOUS
    <2>2. u[l + i] = t[i]
      BY <1>3, <2>1
    <2> QED
      BY <1>4, <2>1, <2>2 DEF Range
  <1> QED
    BY <1>2, <1>4, <1>5 DEF Range

LEMMA ConcatBegins ==
  ASSUME NEW p, p \in Seq(Range(p)), NEW t, t \in Seq(Range(t))
  PROVE  Range(p) \subseteq Range(p \o t)
  <1>1. PICK l \in Nat, m \in Nat : l = Len(p) /\ m = Len(t)
    BY ConcatItems
  <1>2. PICK u : u = p \o t
    OBVIOUS
  <1>3. /\ u \in Seq(Range(u)) /\ Len(u) = l + m
        /\ \A i \in 1..(l + m) : u[i] = IF i <= l THEN p[i] ELSE t[i - l]
    BY <1>1, <1>2, ConcatItems, ConcatRange
  <1>4. DOMAIN u = 1..(l + m) /\ DOMAIN p = 1..l
    BY <1>1, <1>3, LenProperties
  <1>5. \A i \in 1..l : i \in 1..(l + m) /\ u[i] = p[i]
    BY <1>3
  <1> QED
    BY <1>2, <1>4, <1>5 DEF Range

LEMMA TailItems ==
  ASSUME NEW t, t \in Seq(Range(t)), t # << >>
  PROVE  /\ Len(t) \in Nat \ {0} /\ Len(Tail(t)) = Len(t) - 1
         /\ \A i \in 1..(Len(t) - 1) : Tail(t)[i] = t[i + 1]
         /\ Range(t) = {t[1]} \cup Range(Tail(t))
  <1>1. PICK n \in Nat : n = Len(t) /\ DOMAIN t = 1..n
    BY LenProperties
  <1>2. n # 0
    BY <1>1, EmptySeq
  <1>3. PICK m \in Nat : m = n - 1
    BY <1>2
  <1>4. PICK u : u = Tail(t)
    OBVIOUS
  <1>5. u \in Seq(Range(t)) /\ Len(u) = m /\ \A i \in 1..Len(u) : u[i] = t[i + 1]
    BY <1>1, <1>3, <1>4, HeadTailProperties
  <1>6. DOMAIN u = 1..m /\ \A i \in 1..m : u[i] = t[i + 1]
    BY <1>5, LenProperties
  <1>7. \A i \in 1..n : i = 1 \/ (i - 1 \in 1..m /\ i - 1 + 1 = i)
    BY <1>3
  <1>8. 1 \in 1..n /\ \A i \in 1..m : i + 1 \in 1..n
    BY <1>2, <1>3
  <1>9. ASSUME NEW x \in Range(t) PROVE x \in {t[1]} \cup Range(u)
    <2>1. PICK i \in 1..n : x = t[i]
      BY <1>1 DEF Range
    <2>2. CASE i = 1
      BY <2>1, <2>2
    <2>3. CASE i # 1
      <3>1. i - 1 \in 1..m /\ u[i - 1] = x
        BY <1>6, <1>7, <2>1, <2>3
      <3> QED
        BY <1>6, <3>1 DEF Range
    <2> QED
      BY <2>2, <2>3
  <1>10. t[1] \in Range(t) /\ Range(u) \subseteq Range(t)
    BY <1>1, <1>6, <1>8 DEF Range
  <1> QED
    BY <1>1, <1>2, <1>3, <1>4, <1>5, <1>6, <1>9, <1>10

LEMMA BlockEmpty ==
  /\ \A r : Block(<< >>, r, 0)
  /\ \A r, n : Block(<< >>, r, n) => n = 0
  <1>1. Len(<< >>) = 0
    OBVIOUS
  <1> QED
    BY <1>1 DEF Block

(* The stack without its head.                                             *)
LEMMA BlockTail ==
  ASSUME NEW t, t \in Seq(Range(t)), t # << >>, NEW r, NEW n, Block(t, r, n)
  PROVE  IF Fires(t[1], r) THEN Block(Tail(t), r, n - 1) ELSE Block(Tail(t), r, n)
  <1>1. PICK m \in Nat : m = Len(t) - 1 /\ Len(t) = m + 1
    BY TailItems
  <1>2. PICK u : u = Tail(t)
    OBVIOUS
  <1>3. Len(u) = m /\ \A i \in 1..m : u[i] = t[i + 1]
    BY <1>1, <1>2, TailItems
  <1>4. PICK a \in 0..(m + 1) :
          /\ n \in Nat /\ a + n <= m + 1
          /\ \A i \in 1..(m + 1) : Fires(t[i], r) <=> a < i /\ i <= a + n
    BY <1>1 DEF Block
  <1>5. 1 \in 1..(m + 1) /\ \A i \in 1..m : i + 1 \in 1..(m + 1)
    BY <1>1
  <1>6. \A i \in 1..m : Fires(u[i], r) <=> a < i + 1 /\ i + 1 <= a + n
    BY <1>3, <1>4, <1>5
  <1>7. Fires(t[1], r) <=> a < 1 /\ 1 <= a + n
    BY <1>4, <1>5
  <1>8. CASE Fires(t[1], r)
    <2>1. a = 0 /\ n - 1 \in Nat /\ 0 \in 0..m /\ 0 + (n - 1) <= m
      BY <1>4, <1>7, <1>8
    <2>2. \A i \in 1..m : Fires(u[i], r) <=> 0 < i /\ i <= 0 + (n - 1)
      BY <1>4, <1>6, <2>1
    <2>3. Block(u, r, n - 1)
      BY <1>3, <2>1, <2>2 DEF Block
    <2> QED
      BY <1>2, <1>8, <2>3
  <1>9. CASE ~Fires(t[1], r)
    <2>1. PICK b \in 0..m : b = IF a = 0 THEN 0 ELSE a - 1
      BY <1>4
    <2>2. b + n <= m
      BY <1>4, <1>7, <1>9, <2>1
    <2>3. \A i \in 1..m : Fires(u[i], r) <=> b < i /\ i <= b + n
      BY <1>4, <1>6, <1>7, <1>9, <2>1
    <2>4. Block(u, r, n)
      BY <1>3, <1>4, <2>2, <2>3 DEF Block
    <2> QED
      BY <1>2, <1>9, <2>4
  <1> QED
    BY <1>8, <1>9

(* Work in front of the stack that fires nothing.                          *)
LEMMA BlockBehind ==
  ASSUME NEW p, p \in Seq(Range(p)), NEW t, t \in Seq(Range(t)), NEW r, NEW n,
         \A x \in Range(p) : ~Fires(x, r), Block(t, r, n)
  PROVE  Block(p \o t, r, n)
  <1>1. PICK l \in Nat, m \in Nat : l = Len(p) /\ m = Len(t)
    BY ConcatItems
  <1>2. PICK u : u = p \o t
    OBVIOUS
  <1>3. /\ Len(u) = l + m
        /\ \A i \in 1..(l + m) : u[i] = IF i <= l THEN p[i] ELSE t[i - l]
        /\ \A i \in 1..l : ~Fires(p[i], r)
    BY <1>1, <1>2, ConcatItems
  <1>4. PICK a \in 0..m : /\ n \in Nat /\ a + n <= m
                          /\ \A i \in 1..m : Fires(t[i], r) <=> a < i /\ i <= a + n
    BY <1>1 DEF Block
  <1>5. PICK b \in 0..(l + m) : b = l + a
    BY <1>4
  <1>6. b + n <= l + m
    BY <1>4, <1>5
  <1>7. ASSUME NEW i \in 1..(l + m)
        PROVE  Fires(u[i], r) <=> b < i /\ i <= b + n
    <2>1. CASE i <= l
      <3>1. i \in 1..l /\ u[i] = p[i]
        BY <1>3, <2>1
      <3>2. ~(b < i)
        BY <1>4, <1>5, <2>1
      <3> QED
        BY <1>3, <3>1, <3>2
    <2>2. CASE ~(i <= l)
      <3>1. i - l \in 1..m /\ u[i] = t[i - l]
        BY <1>3, <2>2
      <3>2. Fires(u[i], r) <=> a < i - l /\ i - l <= a + n
        BY <1>4, <3>1
      <3>3. (a < i - l <=> b < i) /\ (i - l <= a + n <=> i <= b + n)
        BY <1>4, <1>5
      <3> QED
        BY <3>2, <3>3
    <2> QED
      BY <2>1, <2>2
  <1>8. Block(u, r, n)
    BY <1>3, <1>4, <1>5, <1>6, <1>7 DEF Block
  <1> QED
    BY <1>2, <1>8

(* A firing begins where one was due.                                      *)
LEMMA BlockSame ==
  ASSUME NEW t, t \in Seq(Range(t)), t # << >>, NEW x, NEW r, NEW n, Block(t, r, n),
         Fires(x, r) <=> Fires(t[1], r)
  PROVE  Block(<<x>> \o Tail(t), r, n)
  <1>1. PICK m \in Nat : m = Len(t) - 1 /\ Len(t) = m + 1
    BY TailItems
  <1>2. PICK u : u = <<x>> \o Tail(t)
    OBVIOUS
  <1>3. /\ Len(<<x>>) = 1 /\ <<x>>[1] = x /\ <<x>> \in Seq(Range(<<x>>))
        /\ Tail(t) \in Seq(Range(Tail(t)))
        /\ Len(Tail(t)) = m /\ \A i \in 1..m : Tail(t)[i] = t[i + 1]
    BY <1>1, TailItems, TailRange, OneEvent
  <1>4. /\ Len(u) = 1 + m
        /\ \A i \in 1..(1 + m) : u[i] = IF i <= 1 THEN <<x>>[i] ELSE Tail(t)[i - 1]
    BY <1>2, <1>3, ConcatItems
  <1>5. ASSUME NEW i \in 1..(m + 1) PROVE Fires(u[i], r) <=> Fires(t[i], r)
    <2>1. CASE i = 1
      <3>1. u[1] = x
        BY <1>1, <1>3, <1>4
      <3> QED
        BY <2>1, <3>1
    <2>2. CASE i # 1
      <3>1. i - 1 \in 1..m /\ ~(i <= 1) /\ i - 1 + 1 = i /\ i \in 1..(1 + m)
        BY <2>2
      <3>2. u[i] = Tail(t)[i - 1] /\ Tail(t)[i - 1] = t[i]
        BY <1>3, <1>4, <3>1
      <3> QED
        BY <3>2
    <2> QED
      BY <2>1, <2>2
  <1>6. Len(u) = Len(t)
    BY <1>1, <1>4
  <1>7. \A i \in 1..Len(t) : Fires(u[i], r) <=> Fires(t[i], r)
    BY <1>1, <1>5
  <1>8. Block(u, r, n)
    BY <1>6, <1>7 DEF Block
  <1> QED
    BY <1>2, <1>8

(* What one signal fires.                                                  *)
LEMMA BlockBetween ==
  ASSUME NEW p, p \in Seq(Range(p)), NEW b, b \in Seq(Range(b)),
         NEW q, q \in Seq(Range(q)), NEW r,
         \A x \in Range(p) \cup Range(q) : ~Fires(x, r), \A x \in Range(b) : Fires(x, r)
  PROVE  Block(p \o b \o q, r, Len(b))
  <1>1. PICK t : t = b \o q
    OBVIOUS
  <1>2. PICK n \in Nat, m \in Nat : n = Len(b) /\ m = Len(q)
    BY ConcatItems
  <1>3. /\ Len(t) = n + m
        /\ \A i \in 1..(n + m) : t[i] = IF i <= n THEN b[i] ELSE q[i - n]
        /\ \A i \in 1..n : Fires(b[i], r)
        /\ \A i \in 1..m : ~Fires(q[i], r)
    BY <1>1, <1>2, ConcatItems
  <1>4. ASSUME NEW i \in 1..(n + m) PROVE Fires(t[i], r) <=> 0 < i /\ i <= 0 + n
    <2>1. CASE i <= n
      BY <1>3, <2>1
    <2>2. CASE ~(i <= n)
      <3>1. i - n \in 1..m /\ t[i] = q[i - n]
        BY <1>3, <2>2
      <3> QED
        BY <1>3, <2>2, <3>1
    <2> QED
      BY <2>1, <2>2
  <1>5. Block(t, r, n)
    <2>1. 0 \in 0..(n + m) /\ 0 + n <= n + m
      OBVIOUS
    <2> QED
      BY <1>3, <1>4, <2>1 DEF Block
  <1>6. t \in Seq(Range(t))
    BY <1>1, ConcatRange
  <1>7. Block(p \o t, r, n)
    BY <1>5, <1>6, BlockBehind
  <1>8. p \o b \o q = p \o t
    <2>1. PICK S : S = Range(p) \cup Range(b) \cup Range(q)
      OBVIOUS
    <2>2. p \in Seq(S) /\ b \in Seq(S) /\ q \in Seq(S)
      BY <2>1, SeqMonotonic
    <2> QED
      BY <1>1, <2>2, SMTT(30)
  <1> QED
    BY <1>2, <1>7, <1>8

-----------------------------------------------------------------------------
(* What the passage of time triggers.                                      *)

LEMMA CrossingsCount ==
  ASSUME NEW r \in ClockRules, NEW from \in Nat, NEW to \in Nat, from <= to
  PROVE  /\ from \div Rules[r].arg \in Nat /\ to \div Rules[r].arg \in Nat
         /\ ClockCrossings(Rules[r].arg, from, to) \in Nat
         /\ ClockCrossings(Rules[r].arg, from, to)
              = (to \div Rules[r].arg) - (from \div Rules[r].arg)
  <1>1. PICK every \in Nat \ {0} : every = Rules[r].arg
    BY WorldRulesAssumption DEF WorldRulesAssumption, ClockRules
  <1>2. from \div every \in Nat /\ to \div every \in Nat
    BY <1>1
  <1>3. from \div every <= to \div every
    BY <1>1
  <1> QED
    BY <1>1, <1>2, <1>3 DEF ClockCrossings

LEMMA ClockOccurrences ==
  ASSUME NEW s, NEW r \in ClockRules
  PROVE  trigger_occurrences(r, s)
           = IF ClockSignal(s)
             THEN ClockCrossings(Rules[r].arg, s.event[2][1], s.event[2][2]) ELSE 0
  <1>1. Rules[r].on = "clock"
    BY DEF ClockRules
  <1> QED
    BY <1>1 DEF trigger_occurrences, ClockSignal, IsClock, Kind, Arg

LEMMA TriggeredBlock ==
  ASSUME NEW s, SignalOK(s), NEW r \in DOMAIN Rules, trigger_occurrences(r, s) \in Nat
  PROVE  Block(Triggered(s), r, trigger_occurrences(r, s))
  <1>1. PICK g : g = [f \in DOMAIN Rules |-> Firings(f, s)]
    OBVIOUS
  <1>2. PICK N \in Nat : N = Len(Rules) /\ DOMAIN Rules = 1..N
    BY RulesAre
  <1>3. \A f \in 1..N : g[f] = Firings(f, s) /\ Firings(f, s) \in Seq(FiringsOf(f))
    BY <1>1, <1>2, FiringsIn
  <1>4. ASSUME NEW f \in 1..N
        PROVE  /\ g[f] \in Seq(AllFirings)
               /\ f # r => g[f] \in Seq(FiringsBut(r))
    <2>1. FiringsOf(f) \subseteq AllFirings /\ (f # r => FiringsOf(f) \subseteq FiringsBut(r))
      BY DEF FiringsOf, FiringsBut, AllFirings
    <2> QED
      BY <1>3, <2>1, SeqMonotonic
  <1>5. g \in Seq(Seq(AllFirings)) /\ Len(g) = N
    <2>1. g \in [1..N -> Seq(AllFirings)]
      BY <1>1, <1>2, <1>4
    <2> QED
      BY <2>1
  <1>6. FiringsBut(r) \subseteq AllFirings
    BY DEF FiringsBut, AllFirings
  <1>7. Around(FlattenSeq(g), g[r], FiringsBut(r))
    BY <1>2, <1>4, <1>5, <1>6, FlatAround
  <1>8. PICK p \in Seq(FiringsBut(r)), q \in Seq(FiringsBut(r)) :
          Triggered(s) = p \o g[r] \o q
    BY <1>1, <1>7 DEF Around, Triggered
  <1>9. PICK b : b = g[r]
    OBVIOUS
  <1>10. b \in Seq(FiringsOf(r)) /\ Len(b) = trigger_occurrences(r, s)
    BY <1>2, <1>3, <1>9, FiringsIn
  <1>11. /\ p \in Seq(Range(p)) /\ q \in Seq(Range(q)) /\ b \in Seq(Range(b))
         /\ Range(p) \subseteq FiringsBut(r) /\ Range(q) \subseteq FiringsBut(r)
         /\ Range(b) \subseteq FiringsOf(r)
    BY <1>8, <1>10, SeqRange
  <1>12. /\ \A x \in FiringsOf(r) : Fires(x, r)
         /\ \A x \in FiringsBut(r) : ~Fires(x, r)
    BY DEF FiringsOf, FiringsBut, Fires, IsFiring, Work
  <1>13. Block(p \o b \o q, r, Len(b))
    BY <1>11, <1>12, BlockBetween
  <1> QED
    BY <1>8, <1>9, <1>10, <1>13

(* Only the passage of time is announced as such.                          *)
LEMMA NoClockSignals ==
  ASSUME NEW es, es \in Seq(Range(es)), \A e \in Range(es) : EventOK(e), NEW depth \in Nat,
         \A e \in Range(es) : ~IsClock(e)
  PROVE  \A s \in Range(AllSignals(es, depth)) : ~ClockSignal(s)
  <1>1. Range(AllSignals(es, depth)) \subseteq Announced(Range(es), depth)
    BY AllSignalsIn, SeqRange
  <1> QED
    BY <1>1 DEF Announced, ClockSignal

LEMMA OneClockSignal ==
  ASSUME NEW es, es \in Seq(Range(es)), \A e \in Range(es) : EventOK(e), NEW depth \in Nat,
         Len(es) # 0, IsClock(es[1]), \A n \in 1..Len(es) : IsClock(es[n]) => n = 1,
         NEW sig, sig = AllSignals(es, depth)
  PROVE  \E k \in 1..Len(sig) :
           /\ ClockSignal(sig[k]) /\ sig[k].event = es[1]
           /\ \A j \in 1..Len(sig) : ClockSignal(sig[j]) => j = k
  <1>1. PICK N \in Nat : /\ N = Len(es) /\ DOMAIN es = 1..N /\ 1 \in 1..N
                         /\ \A n \in 1..N : es[n] \in Range(es)
    BY LenProperties DEF Range
  <1>2. PICK later : later = {es[n] : n \in 2..N}
    OBVIOUS
  <1>3. PICK S, T : S = Announced(Range(es), depth) /\ T = Announced(later, depth)
    OBVIOUS
  <1>4. T \subseteq S
    <2>1. later \subseteq Range(es)
      BY <1>1, <1>2
    <2> QED
      BY <1>3, <2>1 DEF Announced
  <1>5. \A t \in T : ~ClockSignal(t)
    <2>1. \A e \in later : ~IsClock(e)
      <3>1. \A n \in 2..N : n \in 1..N /\ n # 1
        OBVIOUS
      <3> QED
        BY <1>1, <1>2, <3>1
    <2> QED
      BY <1>3, <2>1 DEF Announced, ClockSignal
  <1>6. PICK g : g = [n \in DOMAIN es |-> SignalsOf(es[n], depth)]
    OBVIOUS
  <1>7. ASSUME NEW n \in 1..N
        PROVE  g[n] \in Seq(S) /\ (n # 1 => g[n] \in Seq(T))
    <2>1. g[n] = SignalsOf(es[n], depth)
      BY <1>1, <1>6
    <2>2. g[n] \in Seq(S)
      BY <1>1, <1>3, <2>1, AnnouncedIn
    <2>3. CASE n # 1
      <3>1. n \in 2..N
        BY <2>3
      <3>2. es[n] \in later
        BY <1>2, <3>1
      <3> QED
        BY <1>1, <1>3, <2>1, <2>2, <3>2, AnnouncedIn
    <2> QED
      BY <2>2, <2>3
  <1>8. g \in Seq(Seq(S)) /\ Len(g) = N
    <2>1. g \in [1..N -> Seq(S)]
      BY <1>1, <1>6, <1>7
    <2> QED
      BY <2>1
  <1>9. Around(FlattenSeq(g), g[1], T)
    BY <1>1, <1>4, <1>7, <1>8, FlatAround
  <1>10. PICK p \in Seq(T), q \in Seq(T) : sig = p \o g[1] \o q
    BY <1>6, <1>9 DEF Around, AllSignals
  <1>11. PICK x, y : /\ x = [by |-> "type", event |-> es[1], depth |-> depth]
                     /\ y = [by |-> "subject", event |-> es[1], depth |-> depth]
    OBVIOUS
  <1>12. g[1] = <<x>> \o <<y>>
    <2>1. g[1] = SignalsOf(es[1], depth)
      BY <1>1, <1>6
    <2> QED
      BY <1>11, <2>1 DEF SignalsOf, IsClock, Kind
  <1>13. PICK b : b = g[1] /\ b = <<x>> \o <<y>>
    BY <1>12
  <1>14. b \in Seq(Range(b)) /\ Len(b) = 2 /\ b[1] = x /\ b[2] = y
    <2>1. /\ <<x>> \in Seq({x, y}) /\ Len(<<x>>) = 1 /\ <<x>>[1] = x
          /\ <<y>> \in Seq({x, y}) /\ Len(<<y>>) = 1 /\ <<y>>[1] = y
      OBVIOUS
    <2>2. /\ b \in Seq({x, y}) /\ Len(b) = 2
          /\ \A i \in 1..2 : b[i] = IF i <= 1 THEN <<x>>[i] ELSE <<y>>[i - 1]
      BY <1>13, <2>1, ConcatProperties
    <2> QED
      BY <2>1, <2>2, SeqRange
  <1>15. /\ p \in Seq(Range(p)) /\ Range(p) \subseteq T
         /\ q \in Seq(Range(q)) /\ Range(q) \subseteq T
    BY <1>10, SeqRange
  <1>16. PICK l \in Nat, m \in Nat : l = Len(p) /\ m = Len(q)
    BY <1>15, ConcatItems
  <1>17. PICK u : u = p \o b
    OBVIOUS
  <1>18. /\ u \in Seq(Range(u)) /\ Len(u) = l + 2
         /\ \A i \in 1..(l + 2) : u[i] = IF i <= l THEN p[i] ELSE b[i - l]
         /\ \A i \in 1..l : p[i] \in T
    <2>1. u \in Seq(Range(u))
      BY <1>14, <1>15, <1>17, ConcatRange
    <2>2. /\ Len(u) = l + 2
          /\ \A i \in 1..(l + 2) : u[i] = IF i <= l THEN p[i] ELSE b[i - l]
      <3>1. /\ Len(u) = Len(p) + Len(b)
            /\ \A i \in 1..(Len(p) + Len(b)) :
                 u[i] = IF i <= Len(p) THEN p[i] ELSE b[i - Len(p)]
        BY <1>14, <1>15, <1>17, ConcatItems
      <3> QED
        BY <1>14, <1>16, <3>1
    <2>3. \A i \in 1..l : p[i] \in T
      BY <1>14, <1>15, <1>16, ConcatItems
    <2> QED
      BY <2>1, <2>2, <2>3
  <1>19. /\ Len(sig) = l + 2 + m
         /\ \A i \in 1..(l + 2 + m) : sig[i] = IF i <= l + 2 THEN u[i] ELSE q[i - (l + 2)]
         /\ \A i \in 1..m : q[i] \in T
    BY <1>10, <1>13, <1>15, <1>16, <1>17, <1>18, ConcatItems
  <1>20. PICK k \in 1..(l + 2 + m) : k = l + 2
    OBVIOUS
  <1>21. sig[k] = y
    <2>1. k \in 1..(l + 2) /\ ~(k <= l) /\ k - l = 2 /\ k <= l + 2
      BY <1>20
    <2> QED
      BY <1>14, <1>18, <1>19, <2>1
  <1>22. ASSUME NEW j \in 1..(l + 2 + m), ClockSignal(sig[j]) PROVE j = k
    <2>1. CASE j <= l
      <3>1. j \in 1..l /\ j \in 1..(l + 2) /\ j <= l + 2
        BY <2>1
      <3>2. sig[j] \in T
        BY <1>18, <1>19, <2>1, <3>1
      <3> QED
        BY <1>5, <1>22, <3>2
    <2>2. CASE j = l + 1
      <3>1. j \in 1..(l + 2) /\ ~(j <= l) /\ j - l = 1 /\ j <= l + 2
        BY <2>2
      <3>2. sig[j] = x
        BY <1>14, <1>18, <1>19, <3>1
      <3> QED
        BY <1>11, <1>22, <3>2 DEF ClockSignal
    <2>3. CASE j = l + 2
      BY <1>20, <2>3
    <2>4. CASE ~(j <= l + 2)
      <3>1. j - (l + 2) \in 1..m
        BY <2>4
      <3>2. sig[j] \in T
        BY <1>19, <2>4, <3>1
      <3> QED
        BY <1>5, <1>22, <3>2
    <2> QED
      BY <2>1, <2>2, <2>3, <2>4
  <1>23. ClockSignal(y) /\ y.event = es[1]
    BY <1>11 DEF ClockSignal
  <1>24. ClockSignal(sig[k]) /\ sig[k].event = es[1]
    BY <1>21, <1>23
  <1>25. k \in 1..Len(sig) /\ \A j \in 1..Len(sig) : ClockSignal(sig[j]) => j = k
    <2>1. Len(sig) = l + 2 + m
      BY <1>19
    <2> QED
      BY <1>20, <1>22, <2>1
  <1> QED
    BY <1>24, <1>25

-----------------------------------------------------------------------------
(* While a command gathers its changes.                                    *)

LEMMA RulesTail ==
  ASSUME NEW t, t \in Seq(Range(t)), t # << >>, RulesLast(t), t[1][1] # "rules"
  PROVE  RulesLast(Tail(t))
  <1>1. PICK m \in Nat : m = Len(t) - 1 /\ Len(t) = m + 1
    BY TailItems
  <1>2. PICK u : u = Tail(t)
    OBVIOUS
  <1>3. Len(u) = m /\ \A i \in 1..m : u[i] = t[i + 1]
    BY <1>1, <1>2, TailItems
  <1>4. \A i \in 1..(m + 1) : ~IsFiring(t[i]) /\ (t[i][1] = "rules" <=> i = m + 1)
    BY <1>1 DEF RulesLast
  <1>5. m # 0
    <2>1. 1 \in 1..(m + 1)
      OBVIOUS
    <2>2. 1 # m + 1
      BY <1>4, <2>1
    <2> QED
      BY <2>2
  <1>6. ASSUME NEW i \in 1..m
        PROVE  ~IsFiring(u[i]) /\ (u[i][1] = "rules" <=> i = m)
    <2>1. i + 1 \in 1..(m + 1) /\ (i + 1 = m + 1 <=> i = m)
      OBVIOUS
    <2> QED
      BY <1>3, <1>4, <2>1
  <1>7. RulesLast(u)
    BY <1>3, <1>5, <1>6 DEF RulesLast
  <1> QED
    BY <1>2, <1>7

LEMMA RulesBehind ==
  ASSUME NEW p, p \in Seq(Range(p)), NEW t, t \in Seq(Range(t)), RulesLast(t),
         \A x \in Range(p) : ~IsFiring(x) /\ x[1] # "rules"
  PROVE  RulesLast(p \o t)
  <1>1. PICK l \in Nat, m \in Nat : l = Len(p) /\ m = Len(t)
    BY ConcatItems
  <1>2. PICK u : u = p \o t
    OBVIOUS
  <1>3. /\ Len(u) = l + m
        /\ \A i \in 1..(l + m) : u[i] = IF i <= l THEN p[i] ELSE t[i - l]
        /\ \A i \in 1..l : ~IsFiring(p[i]) /\ p[i][1] # "rules"
    BY <1>1, <1>2, ConcatItems
  <1>4. /\ m # 0
        /\ \A i \in 1..m : ~IsFiring(t[i]) /\ (t[i][1] = "rules" <=> i = m)
    BY <1>1 DEF RulesLast
  <1>5. ASSUME NEW i \in 1..(l + m)
        PROVE  ~IsFiring(u[i]) /\ (u[i][1] = "rules" <=> i = l + m)
    <2>1. CASE i <= l
      <3>1. i \in 1..l /\ u[i] = p[i] /\ i # l + m
        BY <1>3, <1>4, <2>1
      <3> QED
        BY <1>3, <3>1
    <2>2. CASE ~(i <= l)
      <3>1. i - l \in 1..m /\ u[i] = t[i - l] /\ (i - l = m <=> i = l + m)
        BY <1>3, <2>2
      <3> QED
        BY <1>4, <3>1
    <2> QED
      BY <2>1, <2>2
  <1>6. Len(u) # 0
    BY <1>3, <1>4
  <1>7. RulesLast(u)
    BY <1>3, <1>5, <1>6 DEF RulesLast
  <1> QED
    BY <1>2, <1>7

LEMMA RulesAlone ==
  ASSUME NEW t, t \in Seq(Range(t)), t # << >>, RulesLast(t), t[1][1] = "rules"
  PROVE  Tail(t) = << >> /\ Range(t) = {t[1]}
  <1>1. PICK n \in Nat \ {0} : n = Len(t) /\ Len(Tail(t)) = n - 1
    BY TailItems
  <1>2. 1 \in 1..n
    OBVIOUS
  <1>3. n = 1
    BY <1>1, <1>2 DEF RulesLast
  <1>4. Tail(t) \in Seq(Range(Tail(t))) /\ Len(Tail(t)) = 0
    BY <1>1, <1>3, TailRange
  <1>5. Tail(t) = << >>
    BY <1>4, EmptySeq
  <1> QED
    BY <1>5, TailItems, NoEvents

(* What is done adds events, none of them of time.                         *)
MoreEvents ==
  /\ Len(events) \in Nat /\ Len(events') \in Nat /\ Len(events) <= Len(events')
  /\ \A n \in 1..Len(events') :
       IF n <= Len(events) THEN events'[n] = events[n] ELSE ~IsClock(events'[n])

LEMMA MoreNone ==
  ASSUME EventsOK, UNCHANGED events
  PROVE  MoreEvents
  <1>1. Len(events) \in Nat
    BY LenProperties DEF EventsOK
  <1> QED
    BY <1>1 DEF MoreEvents

LEMMA MoreConcat ==
  ASSUME EventsOK, NEW es, es \in Seq(Range(es)), \A e \in Range(es) : ~IsClock(e),
         events' = events \o es
  PROVE  MoreEvents
  <1>1. PICK l \in Nat, m \in Nat : l = Len(events) /\ m = Len(es)
    BY ConcatItems DEF EventsOK
  <1>2. /\ Len(events') = l + m
        /\ \A i \in 1..(l + m) : events'[i] = IF i <= l THEN events[i] ELSE es[i - l]
        /\ \A i \in 1..m : ~IsClock(es[i])
    BY <1>1, ConcatItems DEF EventsOK
  <1>3. \A i \in 1..(l + m) : ~(i <= l) => i - l \in 1..m
    OBVIOUS
  <1>4. \A i \in 1..(l + m) : IF i <= l THEN events'[i] = events[i] ELSE ~IsClock(events'[i])
    BY <1>2, <1>3
  <1>5. l <= l + m /\ l + m \in Nat
    OBVIOUS
  <1> QED
    BY <1>1, <1>2, <1>4, <1>5 DEF MoreEvents

LEMMA MoreAppend ==
  ASSUME EventsOK, NEW e, ~IsClock(e), events' = Append(events, e)
  PROVE  MoreEvents
  <1>1. PICK n \in Nat : n = Len(events)
    BY LenProperties DEF EventsOK
  <1>2. events \in Seq(Range(events) \cup {e})
    BY SeqMonotonic DEF EventsOK
  <1>3. /\ Len(events') = n + 1 /\ events'[n + 1] = e
        /\ \A i \in 1..n : events'[i] = events[i]
    BY <1>1, <1>2, AppendProperties
  <1>4. \A i \in 1..(n + 1) : IF i <= n THEN events'[i] = events[i] ELSE ~IsClock(events'[i])
    <2>1. \A i \in 1..(n + 1) : IF i <= n THEN i \in 1..n ELSE i = n + 1
      OBVIOUS
    <2> QED
      BY <1>3, <2>1
  <1> QED
    BY <1>1, <1>3, <1>4 DEF MoreEvents

(* Steps that take no time and fire nothing.                               *)
SameTime ==
  /\ {"clock", "count"} \subseteq DOMAIN world'
  /\ world'.clock = world.clock /\ world'.count = world.count

LEMMA PassedKept ==
  ASSUME MoreEvents
  PROVE  /\ Passed' <=> Passed
         /\ Passed => events'[1] = events[1]
  <1>1. PICK l \in Nat, n \in Nat : l = Len(events) /\ n = Len(events') /\ l <= n
    BY DEF MoreEvents
  <1>2. CASE l # 0
    <2>1. 1 \in 1..n /\ 1 <= l /\ n # 0
      BY <1>1, <1>2
    <2>2. events'[1] = events[1]
      BY <1>1, <2>1 DEF MoreEvents
    <2> QED
      BY <1>1, <1>2, <2>1, <2>2 DEF Passed, IsClock
  <1>3. CASE l = 0
    <2>1. n # 0 => 1 \in 1..n /\ ~(1 <= l)
      BY <1>3
    <2>2. n # 0 => ~IsClock(events[1])'
      BY <1>1, <2>1 DEF MoreEvents, IsClock
    <2> QED
      BY <1>1, <1>3, <2>2 DEF Passed
  <1> QED
    BY <1>2, <1>3

LEMMA FirstOnly ==
  ASSUME MoreEvents, \A n \in 1..Len(events) : IsClock(events[n]) => n = 1
  PROVE  (\A n \in 1..Len(events) : IsClock(events[n]) => n = 1)'
  <1>1. PICK l \in Nat, m \in Nat : l = Len(events) /\ m = Len(events')
    BY DEF MoreEvents
  <1>2. ASSUME NEW n \in 1..m, IsClock(events'[n]) PROVE n = 1
    <2>1. n <= l /\ events'[n] = events[n]
      BY <1>1, <1>2 DEF MoreEvents
    <2>2. n \in 1..l
      BY <2>1
    <2> QED
      BY <1>1, <1>2, <2>1, <2>2
  <1> QED
    BY <1>1, <1>2 DEF IsClock

LEMMA GatherStep ==
  ASSUME RulesInv, Gathering, todo # << >>, todo[1][1] \notin {"rules", "advance"},
         NEW p, p \in Seq(Range(p)),
         \A x \in Range(p) : x[1] \notin {"rules", "advance", "fire", "fired"},
         todo' = p \o Rest, MoreEvents, SameTime, UNCHANGED <<before, signals>>
  PROVE  Gathering'
  <1>1. todo \in Seq(Range(todo))
    BY DEF RulesInv, TodoOK
  <1>2. /\ Rest \in Seq(Range(Rest)) /\ Range(todo) = {todo[1]} \cup Range(Rest)
    BY <1>1, TailRange, TailItems DEF Rest
  <1>3. RulesLast(Rest)
    BY <1>1, RulesTail DEF Gathering, Rest
  <1>4. RulesLast(todo')
    BY <1>2, <1>3, RulesBehind DEF IsFiring
  <1>5. Range(todo') \subseteq Range(p) \cup Range(Rest)
    BY <1>2, ConcatRange
  <1>6. Range(Rest) \subseteq Range(todo')
    BY <1>2, ConcatCovers
  <1>7. \A x : x[1] = "advance" => (x \in Range(todo') <=> x \in Range(todo))
    BY <1>2, <1>5, <1>6
  <1>8. Passed' <=> Passed
    BY PassedKept
  <1>9. Passing'
    <2>1. CASE Passed
      <3>1. events'[1] = events[1]
        BY <2>1, PassedKept
      <3> QED
        BY <1>7, <1>8, <2>1, <3>1 DEF Gathering, Passing, SameTime
    <2>2. CASE ~Passed
      BY <1>7, <1>8, <2>2 DEF Gathering, Passing, SameTime
    <2> QED
      BY <2>1, <2>2
  <1>10. (\A n \in 1..Len(events) : IsClock(events[n]) => n = 1)'
    BY FirstOnly DEF Gathering
  <1> QED
    BY <1>4, <1>9, <1>10 DEF Gathering, SameTime, RulesLast, IsFiring

LEMMA ClockKept ==
  ASSUME ClockInv, outcome = "running", UNCHANGED <<before, outcome>>, SameTime,
         Gathering' \/ Triggering'
  PROVE  ClockInv'
  <1>1. CountsTyped(world) /\ CountsTyped(before.world) /\ CountsExact(before.world)
    BY DEF ClockInv
  <1>2. CountsTyped(world')
    BY <1>1 DEF CountsTyped, SameTime
  <1>3. before'.world.clock <= world'.clock
    BY DEF ClockInv, SameTime
  <1> QED
    BY <1>1, <1>2, <1>3 DEF ClockInv, CountsTyped, CountsExact

(* A command finds the counts of its start.                                *)
LEMMA BeginClock ==
  ASSUME RulesInv, ClockInv, NEW a, NEW work, NEW es, NEW w, Begin(a, work, es, w),
         work \in Seq(Range(work)), \A x \in Range(work) : ~IsFiring(x) /\ x[1] # "rules",
         {"clock", "count"} \subseteq DOMAIN w, w.clock = world.clock, w.count = world.count,
         \A n \in 1..Len(es) : IsClock(es[n]) => n = 1,
         IF Len(es) # 0 /\ IsClock(es[1])
         THEN /\ es[1][2][1] = world.clock
              /\ \A x \in Range(work) : x[1] = "advance" => x[3] = es[1][2][2]
              /\ \E x \in Range(work) : x[1] = "advance"
         ELSE \A x \in Range(work) : x[1] # "advance"
  PROVE  ClockInv'
  <1>1. /\ world' = w /\ events' = es /\ signals' = << >> /\ before'.world = world
        /\ todo' = work \o << Work("rules", a, 0) >>
        /\ outcome # "running" /\ outcome' = "running"
    BY DEF Begin
  <1>2. PICK last : last = Work("rules", a, 0)
    OBVIOUS
  <1>3. /\ <<last>> \in Seq(Range(<<last>>)) /\ Range(<<last>>) \subseteq {last}
        /\ last[1] = "rules" /\ Len(<<last>>) = 1 /\ <<last>>[1] = last
    BY <1>2, OneEvent DEF Work
  <1>4. RulesLast(<<last>>)
    <2>1. \A i \in 1..1 : i = 1
      OBVIOUS
    <2> QED
      BY <1>3, <2>1 DEF RulesLast, IsFiring
  <1>5. RulesLast(work \o <<last>>)
    BY <1>3, <1>4, RulesBehind
  <1>6. RulesLast(todo')
    BY <1>1, <1>2, <1>5
  <1>7. /\ Range(todo') \subseteq Range(work) \cup {last}
        /\ Range(work) \subseteq Range(todo')
    <2>1. Range(work \o <<last>>) \subseteq Range(work) \cup {last}
      BY <1>3, ConcatRange
    <2>2. Range(work) \subseteq Range(work \o <<last>>)
      BY <1>3, ConcatBegins
    <2> QED
      BY <1>1, <1>2, <2>1, <2>2
  <1>8. Passed' <=> Len(es) # 0 /\ IsClock(es[1])
    BY <1>1 DEF Passed, IsClock
  <1>9. \A x \in Range(todo') : x[1] = "advance" => x \in Range(work)
    BY <1>3, <1>7
  <1>10. Passing'
    BY <1>1, <1>7, <1>8, <1>9 DEF Passing
  <1>11. (\A n \in 1..Len(events) : IsClock(events[n]) => n = 1)'
    BY <1>1 DEF IsClock
  <1>12. world'.count = before'.world.count
    BY <1>1
  <1>13. Gathering'
    BY <1>1, <1>6, <1>10, <1>11, <1>12 DEF Gathering
  <1>14. CountsTyped(world) /\ world = before.world /\ CountsExact(before.world)
    BY <1>1 DEF ClockInv
  <1>15. CountsTyped(world')
    BY <1>1, <1>14 DEF CountsTyped
  <1>16. CountsTyped(before'.world) /\ CountsExact(before'.world)
    BY <1>1, <1>14
  <1>17. before'.world.clock <= world'.clock
    BY <1>1 DEF RulesInv, WorldOK
  <1> QED
    BY <1>1, <1>13, <1>15, <1>16, <1>17 DEF ClockInv, CountsTyped, CountsExact

(* A command that begins with effects.                                     *)
LEMMA BeginEffects ==
  ASSUME RulesInv, ClockInv, NEW a \in Actors, NEW effects, EffectsKnown(effects),
         NEW op \in {"used", "performed", "chosen"}, NEW arg, NEW es, NEW w,
         Begin(a, Effects(a, effects) \o << Work(op, a, arg) >>, es, w),
         {"clock", "count"} \subseteq DOMAIN w, w.clock = world.clock, w.count = world.count,
         es \in Seq(Range(es)), \A e \in Range(es) : ~IsClock(e)
  PROVE  ClockInv'
  <1>1. PICK work : work = Effects(a, effects) \o << Work(op, a, arg) >>
    OBVIOUS
  <1>2. PICK p, x : p = Effects(a, effects) /\ x = Work(op, a, arg)
    OBVIOUS
  <1>3. p \in Seq(Range(p)) /\ \A y \in Range(p) : y[1] = "effect"
    BY <1>2, EffectsTodo DEF TodoOK
  <1>4. <<x>> \in Seq(Range(<<x>>)) /\ Range(<<x>>) \subseteq {x} /\ x[1] = op
    BY <1>2, OneEvent DEF Work
  <1>5. work \in Seq(Range(work)) /\ Range(work) \subseteq Range(p) \cup {x}
    BY <1>1, <1>2, <1>3, <1>4, ConcatRange
  <1>6. \A y \in Range(work) : y[1] \in {"effect", "used", "performed", "chosen"}
    BY <1>3, <1>4, <1>5
  <1>7. \A y \in Range(work) : ~IsFiring(y) /\ y[1] # "rules" /\ y[1] # "advance"
    BY <1>6 DEF IsFiring
  <1>8. \A n \in 1..Len(es) : ~IsClock(es[n])
    BY LenProperties DEF Range
  <1>9. ~(Len(es) # 0 /\ IsClock(es[1]))
    <2>1. Len(es) \in Nat
      BY LenProperties
    <2>2. Len(es) # 0 => 1 \in 1..Len(es)
      BY <2>1
    <2> QED
      BY <1>8, <2>2
  <1> QED
    BY <1>1, <1>5, <1>7, <1>8, <1>9, BeginClock

LEMMA CommandClock ==
  ASSUME RulesInv, ClockInv, Command
  PROVE  ClockInv'
  <1>0. /\ {"clock", "count"} \subseteq DOMAIN world /\ Player \in Actors
        /\ world.clock \in Nat
    BY WorldRulesAssumption
       DEF RulesInv, WorldOK, ClockInv, CountsTyped, WorldRulesAssumption
  <1>1. ASSUME NEW a \in Actors, NEW k \in DOMAIN Skills, use_skill(a, k) PROVE ClockInv'
    <2>1. PICK w : w = [world EXCEPT !.pool[a] = @ - Skills[k].cost]
      OBVIOUS
    <2>2. PICK es : es = IF Skills[k].cost = 0 THEN << >> ELSE << Event("resource_changed", 0) >>
      OBVIOUS
    <2>3. Begin(a, Effects(a, Skills[k].effects) \o << Work("used", a, k) >>, es, w)
      BY <1>1, <2>1, <2>2 DEF use_skill
    <2>4. /\ {"clock", "count"} \subseteq DOMAIN w
          /\ w.clock = world.clock /\ w.count = world.count
      BY <1>0, <2>1
    <2>5. EffectsKnown(Skills[k].effects)
      BY WorldRulesAssumption DEF WorldRulesAssumption
    <2>6. es \in Seq(Range(es)) /\ \A e \in Range(es) : ~IsClock(e)
      <3>1. PICK e : e = Event("resource_changed", 0)
        OBVIOUS
      <3>2. es = << >> \/ es = <<e>>
        BY <2>2, <3>1
      <3>3. ~IsClock(e)
        BY <3>1 DEF IsClock, Event
      <3>4. <<e>> \in Seq(Range(<<e>>)) /\ \A x \in Range(<<e>>) : ~IsClock(x)
        BY <3>3, OneEvent
      <3>5. << >> \in Seq(Range(<< >>)) /\ Range(<< >>) = {}
        BY NoEvents
      <3> QED
        BY <3>2, <3>4, <3>5
    <2> QED
      BY <2>3, <2>4, <2>5, <2>6, BeginEffects
  <1>2. ASSUME NEW a \in Actors, NEW ticks \in 1..MaxTicks, advance_time(a, ticks)
        PROVE  ClockInv'
    <2>1. PICK to : to = world.clock + ticks
      OBVIOUS
    <2>2. PICK e : e = Event("clock_advanced", <<world.clock, to>>)
      OBVIOUS
    <2>3. PICK x : x = Work("advance", a, to)
      OBVIOUS
    <2>4. Begin(a, <<x>>, <<e>>, world)
      BY <1>2, <2>1, <2>2, <2>3 DEF advance_time
    <2>5. /\ <<x>> \in Seq(Range(<<x>>)) /\ Range(<<x>>) = {x}
          /\ x[1] = "advance" /\ x[3] = to
      <3>1. Range(<<x>>) = {x}
        BY DEF Range
      <3> QED
        BY <2>3, <3>1, OneEvent DEF Work
    <2>6. /\ Len(<<e>>) = 1 /\ <<e>>[1] = e
          /\ e[2][1] = world.clock /\ e[2][2] = to /\ IsClock(e)
      BY <2>2 DEF Event, IsClock
    <2>7. \A n \in 1..Len(<<e>>) : IsClock(<<e>>[n]) => n = 1
      BY <2>6
    <2>8. \A y \in Range(<<x>>) : ~IsFiring(y) /\ y[1] # "rules"
      BY <2>5 DEF IsFiring
    <2> QED
      <3>1. PICK work, es : work = <<x>> /\ es = <<e>>
        OBVIOUS
      <3>2. /\ Begin(a, work, es, world) /\ work \in Seq(Range(work))
            /\ \A y \in Range(work) : ~IsFiring(y) /\ y[1] # "rules"
            /\ \A n \in 1..Len(es) : IsClock(es[n]) => n = 1
        BY <2>4, <2>5, <2>7, <2>8, <3>1
      <3>3. /\ Len(es) # 0 /\ IsClock(es[1])
            /\ es[1][2][1] = world.clock /\ es[1][2][2] = to
        BY <2>6, <3>1
      <3>4. /\ \A y \in Range(work) : y[1] = "advance" => y[3] = to
            /\ \E y \in Range(work) : y[1] = "advance"
        BY <2>5, <3>1
      <3> QED
        BY <1>0, <3>2, <3>3, <3>4, BeginClock
  <1>3. ASSUME NEW a \in Actors, NEW g \in DOMAIN Actions, perform_gameplay_action(a, g)
        PROVE  ClockInv'
    <2>1. Begin(a, Effects(a, Actions[g].effects) \o << Work("performed", a, g) >>, << >>, world)
      BY <1>3 DEF perform_gameplay_action
    <2>2. EffectsKnown(Actions[g].effects)
      BY WorldRulesAssumption DEF WorldRulesAssumption
    <2> QED
      BY <1>0, <2>1, <2>2, NoEvents, BeginEffects
  <1>4. ASSUME NEW k \in UNION {DOMAIN Story[n] : n \in DOMAIN Story}, choose_event_option(k)
        PROVE  ClockInv'
    <2>1. /\ world.node \in DOMAIN Story /\ k \in DOMAIN Story[world.node]
          /\ Begin(Player, Effects(Player, Story[world.node][k].effects)
                     \o << Work("chosen", Player, k) >>, << >>, world)
      BY <1>4 DEF choose_event_option
    <2>2. EffectsKnown(Story[world.node][k].effects)
      BY <1>4, <2>1, WorldRulesAssumption DEF WorldRulesAssumption
    <2> QED
      BY <1>0, <2>1, <2>2, NoEvents, BeginEffects
  <1>5. ASSUME NEW s \in Scenes, transition_scene(s) PROVE ClockInv'
    <2>1. PICK w : w = [world EXCEPT !.scene = s]
      OBVIOUS
    <2>2. PICK e, f, g : /\ e = Event("character_moved", 0)
                         /\ f = Event("scene_left", world.scene)
                         /\ g = Event("scene_entered", s)
      OBVIOUS
    <2>3. PICK es : es = <<e, f, g>>
      OBVIOUS
    <2>4. Begin(Player, << >>, es, w)
      BY <1>5, <2>1, <2>2, <2>3 DEF transition_scene
    <2>5. /\ {"clock", "count"} \subseteq DOMAIN w
          /\ w.clock = world.clock /\ w.count = world.count
      BY <1>0, <2>1
    <2>6. ~IsClock(e) /\ ~IsClock(f) /\ ~IsClock(g)
      BY <2>2 DEF IsClock, Event
    <2>7. Len(es) = 3 /\ es[1] = e /\ es[2] = f /\ es[3] = g
      BY <2>3
    <2>8. \A n \in 1..Len(es) : ~IsClock(es[n])
      <3>1. \A n \in 1..3 : n = 1 \/ n = 2 \/ n = 3
        OBVIOUS
      <3> QED
        BY <2>6, <2>7, <3>1
    <2>9. ~(Len(es) # 0 /\ IsClock(es[1]))
      BY <2>6, <2>7
    <2> QED
      BY <2>4, <2>5, <2>8, <2>9, NoEvents, BeginClock
  <1> QED
    BY <1>1, <1>2, <1>3, <1>4, <1>5 DEF Command

LEMMA GatherRest ==
  ASSUME RulesInv, Gathering, todo # << >>, todo[1][1] \notin {"rules", "advance"},
         todo' = Rest, MoreEvents, SameTime, UNCHANGED <<before, signals>>
  PROVE  Gathering'
  <1>1. Rest \in Seq(Range(Rest))
    BY TailRange DEF RulesInv, TodoOK, Rest
  <1>2. todo' = << >> \o Rest
    BY <1>1, ConcatEmptySeq
  <1> QED
    BY <1>2, NoEvents, GatherStep

(* What the head of the stack says about where the command is.             *)
LEMMA OnlyGathering ==
  ASSUME RulesInv, ClockInv, NEW op, Head1(op), op \notin {"effect", "fire", "fired"}
  PROVE  Gathering
  <1>1. outcome = "running" /\ todo[1] \in Range(todo) /\ todo[1][1] = op
    BY HeadWork DEF Head1
  <1> QED
    BY <1>1 DEF ClockInv, Triggering, WorkTriggered

LEMMA OnlyTriggering ==
  ASSUME RulesInv, ClockInv, NEW op, Head1(op), op \in {"fire", "fired"}
  PROVE  Triggering
  <1>1. outcome = "running" /\ todo # << >> /\ todo[1][1] = op
    BY DEF Head1
  <1>2. 1 \in 1..Len(todo)
    <2>1. Len(todo) \in Nat \ {0}
      BY <1>1, TailItems DEF RulesInv, TodoOK
    <2> QED
      BY <2>1
  <1>3. IsFiring(todo[1])
    BY <1>1 DEF IsFiring
  <1> QED
    BY <1>1, <1>2, <1>3 DEF ClockInv, Gathering, RulesLast

LEMMA EffectTime ==
  ASSUME NEW a, NEW e, {"clock", "count"} \subseteq DOMAIN world
  PROVE  /\ {"clock", "count"} \subseteq DOMAIN EffectWorld(a, e)
         /\ EffectWorld(a, e).clock = world.clock /\ EffectWorld(a, e).count = world.count
  <1>1. PICK w : w = EffectWorld(a, e)
    OBVIOUS
  <1>2. \/ w = [world EXCEPT !.pool[a] = @ + e[2]]
        \/ w = [world EXCEPT !.pool[a] = @ - e[2]]
        \/ w = [world EXCEPT !.cond = Applied(a, e[2])]
        \/ w = [world EXCEPT !.granted[a] = @ \cup {e[2]}]
        \/ w = [world EXCEPT !.saved = e[2]]
        \/ w = world
    BY <1>1 DEF EffectWorld, Kind, Arg
  <1>3. {"clock", "count"} \subseteq DOMAIN w /\ w.clock = world.clock /\ w.count = world.count
    BY <1>2
  <1> QED
    BY <1>1, <1>3

LEMMA EffectEventPlain ==
  ASSUME NEW e, EffectOK(e)
  PROVE  ~IsClock(EffectEvent(e))
  <1>1. CASE e[1] = "emit"
    BY <1>1 DEF EffectOK, EffectEvent, IsClock, Kind, Arg, Event
  <1>2. CASE e[1] \in {"gain", "lose"}
    BY <1>2 DEF EffectEvent, IsClock, Kind, Event
  <1>3. CASE e[1] \in {"condition", "skill"}
    BY <1>3 DEF EffectEvent, IsClock, Kind, Event
  <1>4. CASE e[1] \in {"saved", "session"}
    BY <1>4 DEF EffectEvent, IsClock, Kind, Event
  <1> QED
    BY <1>1, <1>2, <1>3, <1>4 DEF EffectOK

-----------------------------------------------------------------------------
(* While rules are triggered.                                              *)

LEMMA WorkKept ==
  ASSUME MoreEvents, NEW t, WorkTriggered(t)
  PROVE  WorkTriggered(t)'
  <1>1. PICK l \in Nat, m \in Nat : l = Len(events) /\ m = Len(events')
    BY DEF MoreEvents
  <1>2. ASSUME NEW n \in 1..m, IsClock(events'[n]) PROVE n \in 1..l /\ IsClock(events[n])
    <2>1. n <= l /\ events'[n] = events[n]
      BY <1>1, <1>2 DEF MoreEvents
    <2> QED
      BY <1>2, <2>1
  <1> QED
    BY <1>1, <1>2 DEF WorkTriggered, IsClock

LEMMA AnnouncesTail ==
  ASSUME NEW sig, sig \in Seq(Range(sig)), sig # << >>
  PROVE  /\ Quiet(sig) => ~ClockSignal(sig[1]) /\ Quiet(Tail(sig))
         /\ Announces(sig) =>
              IF ClockSignal(sig[1]) THEN IsPassage(sig[1].event) /\ Quiet(Tail(sig))
              ELSE Announces(Tail(sig))
  <1>1. PICK m \in Nat : m = Len(sig) - 1 /\ Len(sig) = m + 1
    BY TailItems
  <1>2. PICK u : u = Tail(sig)
    OBVIOUS
  <1>3. Len(u) = m /\ \A i \in 1..m : u[i] = sig[i + 1]
    BY <1>1, <1>2, TailItems
  <1>4. 1 \in 1..(m + 1) /\ \A i \in 1..m : i + 1 \in 1..(m + 1) /\ i + 1 # 1
    OBVIOUS
  <1>5. ASSUME Quiet(sig) PROVE ~ClockSignal(sig[1]) /\ Quiet(u)
    BY <1>1, <1>3, <1>4, <1>5 DEF Quiet
  <1>6. ASSUME Announces(sig), ClockSignal(sig[1])
        PROVE  IsPassage(sig[1].event) /\ Quiet(u)
    <2>1. PICK k \in 1..(m + 1) :
            /\ ClockSignal(sig[k]) /\ IsPassage(sig[k].event)
            /\ \A j \in 1..(m + 1) : ClockSignal(sig[j]) => j = k
      BY <1>1, <1>6 DEF Announces
    <2>2. k = 1
      BY <1>4, <1>6, <2>1
    <2> QED
      BY <1>3, <1>4, <2>1, <2>2 DEF Quiet
  <1>7. ASSUME Announces(sig), ~ClockSignal(sig[1]) PROVE Announces(u)
    <2>1. PICK k \in 1..(m + 1) :
            /\ ClockSignal(sig[k]) /\ IsPassage(sig[k].event)
            /\ \A j \in 1..(m + 1) : ClockSignal(sig[j]) => j = k
      BY <1>1, <1>7 DEF Announces
    <2>2. k # 1
      BY <1>7, <2>1
    <2>3. PICK h \in 1..m : h = k - 1 /\ h + 1 = k
      BY <2>2
    <2>4. ASSUME NEW j \in 1..m, ClockSignal(u[j]) PROVE j = h
      <3>1. j + 1 = k
        BY <1>3, <1>4, <2>1, <2>4
      <3> QED
        BY <2>3, <3>1
    <2>5. u[h] = sig[k]
      BY <1>3, <2>3
    <2> QED
      BY <1>3, <2>1, <2>3, <2>4, <2>5 DEF Announces
  <1> QED
    BY <1>2, <1>5, <1>6, <1>7

LEMMA AnnouncesMore ==
  ASSUME NEW sig, sig \in Seq(Range(sig)), NEW more, more \in Seq(Range(more)), Quiet(more)
  PROVE  /\ Quiet(sig) => Quiet(sig \o more)
         /\ Announces(sig) => Announces(sig \o more)
  <1>1. PICK l \in Nat, m \in Nat : l = Len(sig) /\ m = Len(more)
    BY ConcatItems
  <1>2. PICK u : u = sig \o more
    OBVIOUS
  <1>3. /\ Len(u) = l + m
        /\ \A i \in 1..(l + m) : u[i] = IF i <= l THEN sig[i] ELSE more[i - l]
    BY <1>1, <1>2, ConcatItems
  <1>4. ASSUME NEW j \in 1..(l + m), ClockSignal(u[j]) PROVE j \in 1..l
    <2>1. CASE ~(j <= l)
      <3>1. j - l \in 1..m
        BY <2>1
      <3> QED
        BY <1>1, <1>3, <1>4, <2>1, <3>1 DEF Quiet
    <2> QED
      BY <2>1
  <1>5. \A j \in 1..l : j \in 1..(l + m) /\ u[j] = sig[j]
    BY <1>3
  <1>6. Quiet(sig) => Quiet(u)
    BY <1>1, <1>3, <1>4, <1>5 DEF Quiet
  <1>7. ASSUME Announces(sig) PROVE Announces(u)
    <2>1. PICK k \in 1..l :
            /\ ClockSignal(sig[k]) /\ IsPassage(sig[k].event)
            /\ \A j \in 1..l : ClockSignal(sig[j]) => j = k
      BY <1>1, <1>7 DEF Announces
    <2> QED
      BY <1>3, <1>4, <1>5, <2>1 DEF Announces
  <1> QED
    BY <1>2, <1>6, <1>7

(* Steps that take no time leave the signals and the counts due.           *)
LEMMA SameDue ==
  ASSUME SameTime, UNCHANGED before
  PROVE  /\ \A r : DueCount(r)' = DueCount(r)
         /\ \A sig : Announces(sig) => Announces(sig)'
         /\ \A sig : Quiet(sig) => Quiet(sig)'
         /\ \A t, r, n : Block(t, r, n) => Block(t, r, n)'
  BY DEF DueCount, SameTime, Announces, Quiet, IsPassage, ClockSignal, IsClock, Block,
         Fires, IsFiring

(* The stack changes, but not by what a rule on the clock has to do.       *)
LEMMA TriggerKept ==
  ASSUME Triggering, NEW t, todo' = t, WorkTriggered(t)',
         \A r \in FreeRules : \A n : Block(todo, r, n) => Block(t, r, n),
         SameTime, UNCHANGED <<before, signals>>
  PROVE  Triggering'
  <1>1. WorkTriggered(todo)'
    BY DEF WorkTriggered
  <1>2. PICK sig : sig = signals
    OBVIOUS
  <1>3. CASE Ahead
    <2>1. Announces(sig)'
      BY <1>2, <1>3, SameDue DEF Ahead
    <2>2. Announces(signals)'
      BY <1>2, <2>1 DEF Announces
    <2>3. ASSUME NEW r \in FreeRules
          PROVE  Block(todo, r, 0)' /\ world'.count[r] = before'.world.count[r]
      <3>1. Block(t, r, 0)'
        BY <1>3, SameDue DEF Ahead
      <3> QED
        BY <1>3, <3>1 DEF Ahead, Block, SameTime
    <2> QED
      BY <1>1, <2>2, <2>3 DEF Triggering, Ahead
  <1>4. CASE Taken
    <2>1. Quiet(sig)'
      BY <1>2, <1>4, SameDue DEF Taken
    <2>2. Quiet(signals)'
      BY <1>2, <2>1 DEF Quiet
    <2>3. ASSUME NEW r \in FreeRules
          PROVE  Block(todo, r, before.world.count[r] + DueCount(r) - world.count[r])'
      <3>1. PICK n : n = before.world.count[r] + DueCount(r) - world.count[r]
        OBVIOUS
      <3>2. Block(t, r, n)'
        BY <1>4, <3>1, SameDue DEF Taken
      <3>3. n = (before.world.count[r] + DueCount(r) - world.count[r])'
        BY <3>1, SameDue DEF SameTime
      <3>4. Block(todo, r, n)'
        BY <3>2 DEF Block
      <3> QED
        BY <3>3, <3>4 DEF Block
    <2> QED
      BY <1>1, <2>2, <2>3 DEF Triggering, Taken
  <1> QED
    BY <1>3, <1>4 DEF Triggering

LEMMA TriggerRest ==
  ASSUME RulesInv, Triggering, todo # << >>,
         \A r \in FreeRules : ~Fires(todo[1], r),
         todo' = Rest, MoreEvents, SameTime, UNCHANGED <<before, signals>>
  PROVE  Triggering'
  <1>1. todo \in Seq(Range(todo))
    BY DEF RulesInv, TodoOK
  <1>2. PICK t : t = Rest
    OBVIOUS
  <1>3. Range(t) \subseteq Range(todo)
    BY <1>1, <1>2, TailRange DEF Rest
  <1>4. WorkTriggered(t)
    BY <1>3 DEF Triggering, WorkTriggered
  <1>5. WorkTriggered(t)'
    BY <1>4, WorkKept
  <1>6. \A r \in FreeRules : \A n : Block(todo, r, n) => Block(t, r, n)
    BY <1>1, <1>2, BlockTail DEF Rest
  <1> QED
    BY <1>2, <1>5, <1>6, TriggerKept

-----------------------------------------------------------------------------
(* The counts, step by step.                                               *)

LEMMA EffectClock ==
  ASSUME RulesInv, ClockInv, apply_effect
  PROVE  ClockInv'
  <1>1. /\ Head1("effect") /\ todo' = Rest /\ world' = EffectWorld(By, Now)
        /\ events' = Append(events, EffectEvent(Now))
        /\ UNCHANGED <<before, outcome, signals>>
    BY DEF apply_effect
  <1>2. outcome = "running" /\ todo # << >> /\ todo[1][1] = "effect" /\ EffectOK(Now)
    BY <1>1, HeadWork DEF Head1, WorkOK
  <1>3. MoreEvents
    BY <1>1, <1>2, EffectEventPlain, MoreAppend DEF RulesInv
  <1>4. SameTime
    BY <1>1, EffectTime DEF ClockInv, CountsTyped, SameTime
  <1>5. CASE Gathering
    <2>1. Gathering'
      BY <1>1, <1>2, <1>3, <1>4, <1>5, GatherRest
    <2> QED
      BY <1>1, <1>2, <1>4, <2>1, ClockKept
  <1>6. CASE Triggering
    <2>1. \A r \in FreeRules : ~Fires(todo[1], r)
      BY <1>2 DEF Fires, IsFiring
    <2>2. Triggering'
      BY <1>1, <1>2, <1>3, <1>4, <1>6, <2>1, TriggerRest
    <2> QED
      BY <1>1, <1>2, <1>4, <2>2, ClockKept
  <1> QED
    BY <1>2, <1>5, <1>6 DEF ClockInv

LEMMA FinishClock ==
  ASSUME RulesInv, ClockInv, SkillUsed \/ ActionPerformed \/ OptionChosen
  PROVE  ClockInv'
  <1>1. {"clock", "count"} \subseteq DOMAIN world
    BY DEF ClockInv, CountsTyped
  <1>2. PICK op, w, e : /\ Finish(op, w, e) /\ op \in {"used", "performed", "chosen"}
                        /\ e \in {Event("skill_used", 0), Event("performed", Now),
                                  Event("option_chosen", 0)}
                        /\ \/ w = [world EXCEPT !.ready[By][Now] = CooledDown(Now)]
                           \/ w = world
                           \/ w = [world EXCEPT !.node = Story[world.node][Now].next]
    BY DEF SkillUsed, ActionPerformed, OptionChosen
  <1>3. /\ Head1(op) /\ todo' = Rest /\ events' = Append(events, e) /\ world' = w
        /\ UNCHANGED <<before, outcome, signals>>
    BY <1>2 DEF Finish
  <1>4. SameTime
    BY <1>1, <1>2, <1>3 DEF SameTime
  <1>5. ~IsClock(e)
    BY <1>2 DEF IsClock, Event
  <1>6. MoreEvents
    BY <1>3, <1>5, MoreAppend DEF RulesInv
  <1>7. outcome = "running" /\ todo # << >> /\ todo[1][1] \notin {"rules", "advance"}
    BY <1>2, <1>3 DEF Head1
  <1>8. Gathering
    BY <1>2, <1>3, OnlyGathering
  <1>9. Gathering'
    BY <1>3, <1>4, <1>6, <1>7, <1>8, GatherRest
  <1> QED
    BY <1>3, <1>4, <1>7, <1>9, ClockKept

LEMMA TickClock ==
  ASSUME RulesInv, ClockInv, Tick
  PROVE  ClockInv'
  <1>1. Head1("tick") /\ UNCHANGED <<before, outcome, signals>>
    BY DEF Tick
  <1>2. outcome = "running" /\ todo # << >> /\ todo[1][1] = "tick"
    BY <1>1 DEF Head1
  <1>3. Gathering
    BY <1>1, OnlyGathering
  <1>4. {"clock", "count"} \subseteq DOMAIN world /\ EventsOK
    BY DEF ClockInv, CountsTyped, RulesInv
  <1>5. PICK c : c = world.cond[Now]
    OBVIOUS
  <1>6. CASE c.next # world.clock
    <2>1. todo' = Rest /\ UNCHANGED <<world, events>>
      BY <1>5, <1>6 DEF Tick
    <2>2. SameTime /\ MoreEvents
      BY <1>4, <2>1, MoreNone DEF SameTime
    <2>3. Gathering'
      BY <1>1, <1>2, <1>3, <2>1, <2>2, GatherRest
    <2> QED
      BY <1>1, <1>2, <2>2, <2>3, ClockKept
  <1>7. CASE c.next = world.clock
    <2>1. PICK p : p = Effects(c.target, Conditions[c.def].effects)
      OBVIOUS
    <2>2. PICK t : t = world.clock + Conditions[c.def].interval
      OBVIOUS
    <2>3. /\ world' = [world EXCEPT !.cond[Now].next = t]
          /\ events' = Append(events, Event("condition_ticked", 0))
          /\ todo' = p \o Rest
      BY <1>5, <1>7, <2>1, <2>2 DEF Tick
    <2>4. SameTime
      BY <1>4, <2>3 DEF SameTime
    <2>5. ~IsClock(Event("condition_ticked", 0))
      BY DEF IsClock, Event
    <2>6. MoreEvents
      BY <1>4, <2>3, <2>5, MoreAppend
    <2>7. c \in Instance
      <3>1. Now \in DOMAIN world.cond
        BY <1>1, HeadWork DEF WorkOK
      <3> QED
        BY <1>5, <3>1 DEF RulesInv, WorldOK
    <2>8. c.target \in Actors /\ EffectsKnown(Conditions[c.def].effects)
      BY <2>7, Durations DEF Instance
    <2>9. p \in Seq(Range(p)) /\ \A x \in Range(p) : x[1] = "effect"
      BY <2>1, <2>8, EffectsTodo DEF TodoOK
    <2>10. \A x \in Range(p) : x[1] \notin {"rules", "advance", "fire", "fired"}
      BY <2>9
    <2>11. Gathering'
      BY <1>1, <1>2, <1>3, <2>3, <2>4, <2>6, <2>9, <2>10, GatherStep
    <2> QED
      BY <1>1, <1>2, <2>4, <2>11, ClockKept
  <1> QED
    BY <1>6, <1>7

LEMMA ExpireClock ==
  ASSUME RulesInv, ClockInv, Expire
  PROVE  ClockInv'
  <1>1. Head1("expire") /\ UNCHANGED <<before, outcome, signals>> /\ todo' = Rest
    BY DEF Expire
  <1>2. outcome = "running" /\ todo # << >> /\ todo[1][1] = "expire"
    BY <1>1 DEF Head1
  <1>3. Gathering
    BY <1>1, OnlyGathering
  <1>4. {"clock", "count"} \subseteq DOMAIN world /\ EventsOK
    BY DEF ClockInv, CountsTyped, RulesInv
  <1>5. PICK gone : gone = conditions_expiring_at(Now)
    OBVIOUS
  <1>6. PICK conds : conds = [i \in DOMAIN world.cond \ gone |-> world.cond[i]]
    OBVIOUS
  <1>7. PICK e : e = Event("condition_expired", 0)
    OBVIOUS
  <1>8. PICK gones : gones = [k \in 1..Cardinality(gone) |-> e]
    OBVIOUS
  <1>9. world' = [world EXCEPT !.cond = conds] /\ events' = events \o gones
    BY <1>5, <1>6, <1>7, <1>8 DEF Expire
  <1>10. SameTime
    BY <1>4, <1>9 DEF SameTime
  <1>11. Cardinality(gone) \in Nat
    <2>1. gone \in SUBSET DOMAIN world.cond
      BY <1>5 DEF conditions_expiring_at
    <2>2. IsFiniteSet(gone)
      BY <2>1, FS_Subset DEF RulesInv, WorldOK
    <2> QED
      BY <2>2, FS_CardinalityType
  <1>12. gones \in Seq({e})
    BY <1>8, <1>11
  <1>13. gones \in Seq(Range(gones)) /\ Range(gones) \subseteq {e} /\ ~IsClock(e)
    BY <1>7, <1>12, SeqRange DEF IsClock, Event
  <1>14. MoreEvents
    BY <1>4, <1>9, <1>13, MoreConcat
  <1>15. Gathering'
    BY <1>1, <1>2, <1>3, <1>10, <1>14, GatherRest
  <1> QED
    BY <1>1, <1>2, <1>10, <1>15, ClockKept

(* Time passes on the way to where the advance goes.                       *)
LEMMA AdvanceClock ==
  ASSUME RulesInv, ClockInv, Advance
  PROVE  ClockInv'
  <1>1. Head1("advance") /\ UNCHANGED <<before, outcome, signals, events>>
    BY DEF Advance
  <1>2. outcome = "running" /\ todo # << >>
    BY <1>1 DEF Head1
  <1>3. Gathering
    BY <1>1, OnlyGathering
  <1>4. PICK to : to = Now
    OBVIOUS
  <1>5. /\ todo \in Seq(Range(todo)) /\ todo[1] \in Range(todo) /\ todo[1][1] = "advance"
        /\ todo[1][3] = to /\ to \in Nat /\ world.clock <= to
        /\ By \in Actors
    BY <1>1, <1>4, HeadWork DEF WorkOK, RulesInv, TodoOK
  <1>6. /\ Passed /\ events[1][2][1] = before.world.clock
        /\ \A x \in Range(todo) : x[1] = "advance" => x[3] = events[1][2][2]
    BY <1>3, <1>5 DEF Gathering, Passing
  <1>7. events[1][2][2] = to
    BY <1>5, <1>6
  <1>8. PICK t : t = IF Boundaries(to) = {} THEN to ELSE Min(Boundaries(to))
    OBVIOUS
  <1>9. t \in Nat
    <2>1. Boundaries(to) \in SUBSET Nat
      BY <1>5, BoundariesAre
    <2> QED
      BY <1>5, <1>8, <2>1, MinIsLeast
  <1>10. world.clock <= t
    BY <1>5, <1>8, <1>9, ClockMoves
  <1>11. world' = [world EXCEPT !.clock = t]
    BY <1>4, <1>8 DEF Advance, next_condition_boundary
  <1>12. {"clock", "count"} \subseteq DOMAIN world
    BY DEF ClockInv, CountsTyped
  <1>13. /\ {"clock", "count"} \subseteq DOMAIN world'
         /\ world'.clock = t /\ world'.count = world.count
    BY <1>11, <1>12
  <1>14. CountsTyped(world')
    BY <1>13 DEF ClockInv, CountsTyped
  <1>15. before'.world.clock <= world'.clock
    <2>1. PICK b \in Nat, c \in Nat : b = before.world.clock /\ c = world.clock
      BY DEF RulesInv, WorldOK
    <2>2. b <= c
      BY <1>2, <2>1 DEF ClockInv
    <2> QED
      BY <1>1, <1>9, <1>10, <1>13, <2>1, <2>2
  <1>16. RulesLast(todo') /\ Passing'
    <2>1. Passed'
      BY <1>1, <1>6 DEF Passed, IsClock
    <2>2. CASE Boundaries(to) = {}
      <3>1. todo' = Rest /\ t = to
        BY <1>4, <1>8, <2>2 DEF Advance
      <3>2. RulesLast(todo')
        BY <1>2, <1>3, <1>5, <3>1, RulesTail DEF Gathering, Rest
      <3>3. Range(todo') \subseteq Range(todo)
        BY <1>2, <1>5, <3>1, TailRange DEF Rest
      <3>4. Passing'
        BY <1>1, <1>6, <1>7, <1>13, <2>1, <3>1, <3>3 DEF Passing
      <3> QED
        BY <3>2, <3>4
    <2>3. CASE Boundaries(to) # {}
      <3>1. PICK due : due = Ordered(conditions_periodic_at(t))
        OBVIOUS
      <3>2. PICK ticks : ticks = [k \in DOMAIN due |-> Work("tick", By, due[k])]
        OBVIOUS
      <3>3. PICK expire : expire = Work("expire", By, t)
        OBVIOUS
      <3>4. PICK p : p = ticks \o <<expire>>
        OBVIOUS
      <3>5. todo' = p \o todo
        BY <1>4, <1>8, <2>3, <3>1, <3>2, <3>3, <3>4 DEF Advance, next_condition_boundary
      <3>6. ticks \in Seq(Range(ticks)) /\ \A x \in Range(ticks) : x[1] = "tick"
        <4>1. conditions_periodic_at(t) \in SUBSET DOMAIN world.cond
          BY DEF conditions_periodic_at
        <4>2. due \in Seq(conditions_periodic_at(t))
          BY <3>1, <4>1, OrderedIn DEF RulesInv
        <4>3. DOMAIN due = 1..Len(due) /\ Len(due) \in Nat
          BY <4>2, LenProperties
        <4>4. PICK X : X = {Work("tick", By, due[k]) : k \in 1..Len(due)}
          OBVIOUS
        <4>5. ticks \in [1..Len(due) -> X]
          BY <3>2, <4>3, <4>4
        <4>6. ticks \in Seq(X)
          BY <4>3, <4>5
        <4>7. \A x \in X : x[1] = "tick"
          BY <4>4 DEF Work
        <4> QED
          BY <4>6, <4>7, SeqRange
      <3>7. /\ <<expire>> \in Seq(Range(<<expire>>)) /\ Range(<<expire>>) \subseteq {expire}
            /\ expire[1] = "expire"
        BY <3>3, OneEvent DEF Work
      <3>8. p \in Seq(Range(p)) /\ Range(p) \subseteq Range(ticks) \cup {expire}
        BY <3>4, <3>6, <3>7, ConcatRange
      <3>9. \A x \in Range(p) : x[1] \in {"tick", "expire"}
        BY <3>6, <3>7, <3>8
      <3>10. \A x \in Range(p) : ~IsFiring(x) /\ x[1] # "rules" /\ x[1] # "advance"
        BY <3>9 DEF IsFiring
      <3>11. RulesLast(todo')
        BY <1>3, <1>5, <3>5, <3>8, <3>10, RulesBehind DEF Gathering
      <3>12. Range(todo) \subseteq Range(todo') /\ Range(todo') \subseteq Range(p) \cup Range(todo)
        BY <1>5, <3>5, <3>8, ConcatCovers, ConcatRange
      <3>13. /\ \A x \in Range(todo') : x[1] = "advance" => x \in Range(todo)
             /\ \E x \in Range(todo') : x[1] = "advance"
        BY <1>5, <3>10, <3>12
      <3>14. Passing'
        BY <1>1, <1>6, <2>1, <3>13 DEF Passing
      <3> QED
        BY <3>11, <3>14
    <2> QED
      BY <2>2, <2>3
  <1>17. Gathering'
    BY <1>1, <1>3, <1>13, <1>16 DEF Gathering, RulesLast, IsFiring, IsClock
  <1> QED
    BY <1>1, <1>2, <1>14, <1>15, <1>17 DEF ClockInv, CountsTyped, CountsExact

LEMMA DueNumbers ==
  ASSUME RulesInv, ClockInv, outcome = "running", NEW r \in FreeRules
  PROVE  /\ r \in ClockRules /\ r \in DOMAIN Rules
         /\ DueCount(r) \in Nat /\ before.world.count[r] \in Nat /\ world.count[r] \in Nat
         /\ DueCount(r) = (world.clock \div Rules[r].arg) - (before.world.clock \div Rules[r].arg)
         /\ world.clock \div Rules[r].arg \in Nat /\ before.world.clock \div Rules[r].arg \in Nat
         /\ before.world.count[r] = before.world.clock \div Rules[r].arg
  <1>1. r \in ClockRules /\ r \in DOMAIN Rules
    BY DEF FreeRules, ClockRules
  <1>2. PICK b \in Nat, c \in Nat : b = before.world.clock /\ c = world.clock
    BY DEF RulesInv, WorldOK
  <1>3. b <= c
    BY <1>2 DEF ClockInv
  <1>4. before.world.count[r] \in Nat /\ world.count[r] \in Nat
    BY <1>1 DEF ClockInv, CountsTyped
  <1>5. before.world.count[r] = before.world.clock \div Rules[r].arg
    BY DEF ClockInv, CountsExact
  <1> QED
    BY <1>1, <1>2, <1>3, <1>4, <1>5, CrossingsCount DEF DueCount

(* The passage of time becomes one signal.                                 *)
LEMMA StartRulesClock ==
  ASSUME RulesInv, ClockInv, StartRules
  PROVE  ClockInv'
  <1>1. /\ Head1("rules") /\ todo' = Rest /\ signals' = AllSignals(events, 0)
        /\ UNCHANGED <<world, before, outcome, events>>
    BY DEF StartRules
  <1>2. outcome = "running" /\ todo # << >> /\ todo[1][1] = "rules"
    BY <1>1 DEF Head1
  <1>3. Gathering
    BY <1>1, OnlyGathering
  <1>4. SameTime
    BY <1>1 DEF SameTime, ClockInv, CountsTyped
  <1>5. todo \in Seq(Range(todo)) /\ EventsOK
    BY DEF RulesInv, TodoOK
  <1>6. Rest = << >> /\ Range(todo) = {todo[1]}
    BY <1>2, <1>3, <1>5, RulesAlone DEF Gathering, Rest
  <1>7. todo' = << >>
    BY <1>1, <1>6
  <1>8. \A r : Block(todo, r, 0)'
    BY <1>7, BlockEmpty DEF Block, Fires, IsFiring
  <1>9. WorkTriggered(todo)'
    BY <1>7, NoEvents DEF WorkTriggered
  <1>10. PICK sig : sig = AllSignals(events, 0)
    OBVIOUS
  <1>11. \A n \in 1..Len(events) : IsClock(events[n]) => n = 1
    BY <1>3 DEF Gathering
  <1>12. CASE Passed
    <2>1. events[1][2][1] = before.world.clock /\ world.clock = events[1][2][2]
      BY <1>2, <1>3, <1>6, <1>12 DEF Gathering, Passing
    <2>2. PICK k \in 1..Len(sig) :
            /\ ClockSignal(sig[k]) /\ sig[k].event = events[1]
            /\ \A j \in 1..Len(sig) : ClockSignal(sig[j]) => j = k
      BY <1>5, <1>10, <1>11, <1>12, OneClockSignal DEF EventsOK, Passed
    <2>3. IsPassage(sig[k].event)
      BY <2>1, <2>2 DEF IsPassage
    <2>4. Announces(sig)
      BY <2>2, <2>3 DEF Announces
    <2>5. Announces(sig)'
      BY <1>1, <1>4, <2>4, SameDue
    <2>6. Announces(signals)'
      BY <1>1, <1>10, <2>5 DEF Announces
    <2>7. world'.count = before'.world.count
      BY <1>1, <1>3 DEF Gathering
    <2>8. Ahead'
      BY <1>8, <2>6, <2>7 DEF Ahead
    <2>9. Triggering'
      BY <1>9, <2>8 DEF Triggering
    <2> QED
      BY <1>1, <1>2, <1>4, <2>9, ClockKept
  <1>13. CASE ~Passed
    <2>1. world.clock = before.world.clock
      BY <1>3, <1>13 DEF Gathering, Passing
    <2>2. \A e \in Range(events) : ~IsClock(e)
      <3>1. PICK N \in Nat : N = Len(events) /\ DOMAIN events = 1..N
        BY <1>5, LenProperties DEF EventsOK
      <3>2. ASSUME NEW n \in 1..N, IsClock(events[n]) PROVE FALSE
        <4>1. n = 1 /\ N # 0
          BY <1>11, <3>1, <3>2
        <4> QED
          BY <1>13, <3>1, <3>2, <4>1 DEF Passed
      <3> QED
        BY <3>1, <3>2 DEF Range
    <2>3. /\ \A s \in Range(sig) : ~ClockSignal(s)
          /\ sig \in Seq(Range(sig))
      BY <1>5, <1>10, <2>2, NoClockSignals, AllSignalsOK DEF EventsOK
    <2>4. Quiet(sig)
      BY <2>3, LenProperties DEF Quiet, Range
    <2>5. Quiet(sig)'
      BY <1>1, <1>4, <2>4, SameDue
    <2>6. Quiet(signals)'
      BY <1>1, <1>10, <2>5 DEF Quiet
    <2>7. ASSUME NEW r \in FreeRules
          PROVE  Block(todo, r, before.world.count[r] + DueCount(r) - world.count[r])'
      <3>1. PICK q \in Nat : q = world.clock \div Rules[r].arg
        BY <1>2, DueNumbers
      <3>2. DueCount(r) = q - q
        BY <1>2, <2>1, <3>1, DueNumbers
      <3>3. PICK n \in Nat : n = world.count[r]
        BY <1>2, DueNumbers
      <3>4. before.world.count[r] = n
        BY <1>3, <3>3 DEF Gathering
      <3>5. before.world.count[r] + DueCount(r) - world.count[r] = 0
        BY <3>2, <3>3, <3>4
      <3>6. (before.world.count[r] + DueCount(r) - world.count[r])' = 0
        BY <1>1, <1>4, <3>5, SameDue DEF SameTime
      <3> QED
        BY <1>8, <3>6 DEF Block
    <2>8. Taken'
      BY <2>6, <2>7 DEF Taken
    <2>9. Triggering'
      BY <1>9, <2>8 DEF Triggering
    <2> QED
      BY <1>1, <1>2, <1>4, <2>9, ClockKept
  <1> QED
    BY <1>12, <1>13

(* A signal is taken: that of the passage of time puts what is due on the  *)
(* stack, and no other puts a firing of a rule on the clock there.         *)
LEMMA NextSignalClock ==
  ASSUME RulesInv, ClockInv, NextSignal
  PROVE  ClockInv'
  <1>1. /\ outcome = "running" /\ todo = << >> /\ signals # << >>
        /\ todo' = Triggered(signals[1]) /\ signals' = Tail(signals)
        /\ UNCHANGED <<world, before, outcome, events, actor>>
    BY DEF NextSignal, RulesRunning
  <1>2. Triggering
    <2>1. ~RulesLast(todo)
      BY <1>1, BlockEmpty DEF RulesLast
    <2> QED
      BY <1>1, <2>1 DEF ClockInv, Gathering
  <1>3. SameTime
    BY <1>1 DEF SameTime, ClockInv, CountsTyped
  <1>4. PICK s : s = signals[1]
    OBVIOUS
  <1>5. PICK rest : rest = Tail(signals)
    OBVIOUS
  <1>6. PICK t : t = Triggered(s)
    OBVIOUS
  <1>7. signals \in Seq(Range(signals)) /\ SignalOK(s)
    <2>1. signals \in Seq(Range(signals)) /\ signals[1] \in Range(signals)
      BY <1>1, TailRange DEF RulesInv, SignalsOK
    <2> QED
      BY <1>4, <2>1 DEF RulesInv, SignalsOK
  <1>8. WorkTriggered(todo)'
    <2>1. t \in Seq(AllFirings)
      BY <1>6, <1>7, TriggeredIn
    <2>2. \A x \in Range(t) : x[1] = "fire"
      <3>1. Range(t) \subseteq AllFirings
        BY <2>1, SeqRange
      <3> QED
        BY <3>1 DEF AllFirings, Work
    <2>3. WorkTriggered(t)'
      BY <2>2 DEF WorkTriggered
    <2> QED
      BY <1>1, <1>4, <1>6, <2>3 DEF WorkTriggered
  <1>9. ASSUME NEW r \in FreeRules, NEW n \in Nat, n = trigger_occurrences(r, s)
        PROVE  Block(todo, r, n)'
    <2>1. Block(t, r, n)
      BY <1>1, <1>6, <1>7, <1>9, TriggeredBlock, DueNumbers
    <2>2. Block(t, r, n)'
      BY <1>1, <1>3, <2>1, SameDue
    <2> QED
      BY <1>1, <1>4, <1>6, <2>2 DEF Block
  <1>10. CASE Ahead /\ ClockSignal(s)
    <2>1. IsPassage(s.event) /\ Quiet(rest)
      BY <1>1, <1>4, <1>5, <1>7, <1>10, AnnouncesTail DEF Ahead
    <2>2. Quiet(rest)'
      BY <1>1, <1>3, <2>1, SameDue
    <2>3. Quiet(signals)'
      BY <1>1, <1>5, <2>2 DEF Quiet
    <2>4. ASSUME NEW r \in FreeRules
          PROVE  Block(todo, r, before.world.count[r] + DueCount(r) - world.count[r])'
      <3>1. PICK d \in Nat : d = DueCount(r)
        BY <1>1, DueNumbers
      <3>2. d = trigger_occurrences(r, s)
        BY <1>1, <1>10, <2>1, <3>1, DueNumbers, ClockOccurrences DEF DueCount, IsPassage
      <3>3. Block(todo, r, d)'
        BY <1>9, <3>1, <3>2
      <3>4. PICK c \in Nat : c = world.count[r]
        BY <1>1, DueNumbers
      <3>5. before.world.count[r] = c
        BY <1>10, <3>4 DEF Ahead
      <3>6. before.world.count[r] + DueCount(r) - world.count[r] = d
        BY <3>1, <3>4, <3>5
      <3>7. (before.world.count[r] + DueCount(r) - world.count[r])' = d
        BY <1>1, <1>3, <3>6, SameDue DEF SameTime
      <3> QED
        BY <3>3, <3>7 DEF Block
    <2>5. Taken'
      BY <2>3, <2>4 DEF Taken
    <2>6. Triggering'
      BY <1>8, <2>5 DEF Triggering
    <2> QED
      BY <1>1, <1>3, <2>6, ClockKept
  <1>11. ASSUME ~ClockSignal(s) PROVE \A r \in FreeRules : Block(todo, r, 0)'
    BY <1>1, <1>9, <1>11, ClockOccurrences, DueNumbers
  <1>12. CASE Ahead /\ ~ClockSignal(s)
    <2>1. Announces(rest)
      BY <1>1, <1>4, <1>5, <1>7, <1>12, AnnouncesTail DEF Ahead
    <2>2. Announces(rest)'
      BY <1>1, <1>3, <2>1, SameDue
    <2>3. Announces(signals)'
      BY <1>1, <1>5, <2>2 DEF Announces
    <2>4. \A r \in FreeRules : world'.count[r] = before'.world.count[r]
      BY <1>1, <1>12 DEF Ahead
    <2>5. Ahead'
      BY <1>11, <1>12, <2>3, <2>4 DEF Ahead
    <2>6. Triggering'
      BY <1>8, <2>5 DEF Triggering
    <2> QED
      BY <1>1, <1>3, <2>6, ClockKept
  <1>13. CASE Taken
    <2>1. ~ClockSignal(s) /\ Quiet(rest)
      BY <1>1, <1>4, <1>5, <1>7, <1>13, AnnouncesTail DEF Taken
    <2>2. Quiet(rest)'
      BY <1>1, <1>3, <2>1, SameDue
    <2>3. Quiet(signals)'
      BY <1>1, <1>5, <2>2 DEF Quiet
    <2>4. ASSUME NEW r \in FreeRules
          PROVE  Block(todo, r, before.world.count[r] + DueCount(r) - world.count[r])'
      <3>1. PICK n : n = before.world.count[r] + DueCount(r) - world.count[r]
        OBVIOUS
      <3>2. Block(<< >>, r, n)
        BY <1>1, <1>13, <3>1 DEF Taken
      <3>3. n = 0
        BY <3>2, BlockEmpty
      <3>4. (before.world.count[r] + DueCount(r) - world.count[r])' = 0
        BY <1>1, <1>3, <3>1, <3>3, SameDue DEF SameTime
      <3>5. Block(todo, r, 0)'
        BY <1>11, <2>1
      <3> QED
        BY <3>4, <3>5 DEF Block
    <2>5. Taken'
      BY <2>3, <2>4 DEF Taken
    <2>6. Triggering'
      BY <1>8, <2>5 DEF Triggering
    <2> QED
      BY <1>1, <1>3, <2>6, ClockKept
  <1> QED
    BY <1>2, <1>10, <1>12, <1>13 DEF Triggering

(* A firing becomes the rule's effects and its end.  A rule without        *)
(* predicates always goes through.                                         *)
LEMMA FireClock ==
  ASSUME RulesInv, ClockInv, Fire
  PROVE  ClockInv'
  <1>1. /\ Head1("fire")
        /\ UNCHANGED <<world, before, outcome, events, signals>>
    BY DEF Fire
  <1>2. outcome = "running" /\ todo # << >> /\ todo[1][1] = "fire"
    BY <1>1 DEF Head1
  <1>3. Triggering
    BY <1>1, OnlyTriggering
  <1>4. SameTime /\ MoreEvents
    BY <1>1, MoreNone DEF SameTime, ClockInv, CountsTyped, RulesInv
  <1>5. Now \in Firing /\ Now = todo[1][3]
    BY <1>1, HeadWork DEF WorkOK, Now
  <1>6. todo \in Seq(Range(todo)) /\ Rest \in Seq(Range(Rest)) /\ Range(Rest) \subseteq Range(todo)
    BY <1>2, TailRange DEF RulesInv, TodoOK, Rest
  <1>7. CASE ~evaluate_predicates(actor, Rules[Now.rule].needs)
    <2>1. todo' = Rest
      BY <1>7 DEF Fire
    <2>2. Rules[Now.rule].needs # << >>
      BY <1>7 DEF evaluate_predicates
    <2>3. \A r \in FreeRules : ~Fires(todo[1], r)
      BY <1>5, <2>2 DEF Fires, FreeRules
    <2>4. Triggering'
      BY <1>1, <1>2, <1>3, <1>4, <2>1, <2>3, TriggerRest
    <2> QED
      BY <1>1, <1>2, <1>4, <2>4, ClockKept
  <1>8. CASE evaluate_predicates(actor, Rules[Now.rule].needs)
    <2>1. PICK f : f = [Now EXCEPT !.start = Len(events)]
      OBVIOUS
    <2>2. PICK es : es = Effects(actor, Rules[Now.rule].effects)
      OBVIOUS
    <2>3. PICK fired : fired = Work("fired", actor, f)
      OBVIOUS
    <2>4. todo' = es \o <<fired>> \o Rest
      BY <1>8, <2>1, <2>2, <2>3 DEF Fire
    <2>5. f.rule = Now.rule /\ f.start = Len(events)
      BY <1>5, <2>1 DEF Firing
    <2>6. fired[1] = "fired" /\ fired[3] = f
      BY <2>3 DEF Work
    <2>7. \A r : Fires(fired, r) <=> Fires(todo[1], r)
      BY <1>2, <1>5, <2>5, <2>6 DEF Fires, IsFiring
    <2>8. es \in Seq(Range(es)) /\ \A x \in Range(es) : x[1] = "effect"
      <3>1. EffectsKnown(Rules[Now.rule].effects)
        BY <1>5, WorldRulesAssumption DEF WorldRulesAssumption, Firing
      <3>2. actor \in Actors
        BY DEF RulesInv
      <3> QED
        BY <2>2, <3>1, <3>2, EffectsTodo DEF TodoOK
    <2>9. PICK u : u = <<fired>> \o Rest
      OBVIOUS
    <2>10. /\ u \in Seq(Range(u)) /\ Range(u) \subseteq {fired} \cup Range(Rest)
      <3>1. /\ <<fired>> \in Seq(Range(<<fired>>)) /\ Range(<<fired>>) = {fired}
        BY OneEvent
      <3> QED
        BY <1>6, <2>9, <3>1, ConcatRange
    <2>11. PICK t : t = es \o u
      OBVIOUS
    <2>12. todo' = t
      <3>1. <<fired>> \in Seq(Range(<<fired>>))
        BY OneEvent
      <3>2. (es \o <<fired>>) \o Rest = es \o (<<fired>> \o Rest)
        BY <1>6, <2>8, <3>1, SMTT(30)
      <3> QED
        BY <2>4, <2>9, <2>11, <3>2
    <2>13. ASSUME NEW r \in FreeRules, NEW n, Block(todo, r, n)
           PROVE  Block(t, r, n)
      <3>1. Block(u, r, n)
        BY <1>2, <1>6, <2>7, <2>9, <2>13, BlockSame DEF Rest
      <3>2. \A x \in Range(es) : ~Fires(x, r)
        BY <2>8 DEF Fires, IsFiring
      <3> QED
        BY <2>8, <2>10, <2>11, <3>1, <3>2, BlockBehind
    <2>14. WorkTriggered(t)
      <3>1. \A x \in Range(t) : x[1] = "effect" \/ x = fired \/ x \in Range(todo)
        BY <1>6, <2>8, <2>10, <2>11, ConcatRange
      <3>2. \A n \in 1..Len(events) : IsClock(events[n]) => n <= fired[3].start
        <4>1. Len(events) \in Nat
          BY LenProperties DEF RulesInv, EventsOK
        <4> QED
          BY <2>5, <2>6, <4>1
      <3> QED
        BY <1>3, <2>6, <3>1, <3>2 DEF Triggering, WorkTriggered
    <2>15. WorkTriggered(t)'
      BY <1>4, <2>14, WorkKept
    <2>16. Triggering'
      BY <1>1, <1>3, <1>4, <2>12, <2>13, <2>15, TriggerKept
    <2> QED
      BY <1>1, <1>2, <1>4, <2>16, ClockKept
  <1> QED
    BY <1>7, <1>8

(* The end of a firing: one more counted, one less to be done.             *)
LEMMA FiredClock ==
  ASSUME RulesInv, ClockInv, Fired
  PROVE  ClockInv'
  <1>1. Head1("fired") /\ UNCHANGED <<before, outcome>>
    BY DEF Fired
  <1>2. outcome = "running" /\ todo # << >> /\ todo[1][1] = "fired"
    BY <1>1 DEF Head1
  <1>3. Triggering
    BY <1>1, OnlyTriggering
  <1>4. Now \in Firing /\ Now = todo[1][3]
    BY <1>1, HeadWork DEF WorkOK, Now
  <1>5. PICK q : q = Now.rule
    OBVIOUS
  <1>6. \A r : Fires(todo[1], r) <=> r = q
    BY <1>2, <1>4, <1>5 DEF Fires, IsFiring
  <1>7. PICK start \in Nat, depth \in Nat : start = Now.start /\ depth = Now.depth + 1
    BY <1>4 DEF Firing
  <1>8. PICK caused : caused = SubSeq(events, start + 1, Len(events))
    OBVIOUS
  <1>9. PICK more : more = AllSignals(caused, depth)
    OBVIOUS
  <1>10. PICK counts : counts = [r \in ClockRules |-> IF r = q THEN world.count[r] + 1
                                                      ELSE world.count[r]]
    OBVIOUS
  <1>11. PICK e : e = Event("rule_triggered", 0)
    OBVIOUS
  <1>12. /\ world' = [world EXCEPT !.count = counts] /\ events' = Append(events, e)
         /\ signals' = signals \o more /\ todo' = Rest
    BY <1>5, <1>7, <1>8, <1>9, <1>10, <1>11 DEF Fired
  <1>13. ~IsClock(e)
    BY <1>11 DEF IsClock, Event
  <1>14. MoreEvents
    BY <1>12, <1>13, MoreAppend DEF RulesInv
  <1>15. CountsTyped(world) /\ CountsTyped(before.world) /\ CountsExact(before.world)
    BY DEF ClockInv
  <1>16. /\ {"clock", "count"} \subseteq DOMAIN world' /\ world'.clock = world.clock
         /\ world'.count = counts
    BY <1>12, <1>15 DEF CountsTyped
  <1>17. CountsTyped(world')
    <2>1. \A r \in ClockRules : world.count[r] \in Nat /\ world.count[r] + 1 \in Nat
      BY <1>15 DEF CountsTyped
    <2>2. counts \in [ClockRules -> Nat]
      BY <1>10, <2>1
    <2> QED
      BY <1>16, <2>2 DEF CountsTyped
  <1>18. todo \in Seq(Range(todo)) /\ EventsOK /\ SignalsOK
    BY DEF RulesInv, TodoOK
  <1>19. PICK t : t = Rest
    OBVIOUS
  <1>20. WorkTriggered(todo)'
    <2>1. Range(t) \subseteq Range(todo)
      BY <1>2, <1>18, <1>19, TailRange DEF Rest
    <2>2. WorkTriggered(t)
      BY <1>3, <2>1 DEF Triggering, WorkTriggered
    <2>3. WorkTriggered(t)'
      BY <1>14, <2>2, WorkKept
    <2> QED
      BY <1>12, <1>19, <2>3 DEF WorkTriggered
  <1>21. more \in Seq(Range(more)) /\ Quiet(more)
    <2>1. PICK n \in Nat : n = Len(events) /\ \A i \in 1..n : events[i] \in Range(events)
      BY <1>18, LenProperties, ElementOfSeq DEF EventsOK
    <2>2. PICK later : later = {events[i] : i \in (start + 1)..n}
      OBVIOUS
    <2>3. ASSUME NEW i \in (start + 1)..n
          PROVE  events[i] \in Range(events) /\ ~IsClock(events[i])
      <3>1. i \in 1..n /\ ~(i <= start)
        BY <2>1
      <3>2. IsClock(events[i]) => i <= start
        <4>1. todo[1] \in Range(todo) /\ todo[1][3].start = start
          BY <1>1, <1>4, <1>7, HeadWork
        <4> QED
          BY <1>2, <1>3, <2>1, <3>1, <4>1 DEF Triggering, WorkTriggered
      <3> QED
        BY <2>1, <3>1, <3>2
    <2>4. caused \in Seq(later)
      <3>1. start + 1 \in Int /\ n \in Int /\ \A i \in (start + 1)..n : events[i] \in later
        BY <2>1, <2>2
      <3>2. \A i \in (start + 1)..n : i \in 1..n
        BY <2>1
      <3> QED
        BY <1>8, <2>1, <3>1, <3>2, SubSeqProperties
    <2>5. caused \in Seq(Range(caused)) /\ Range(caused) \subseteq later
      BY <2>4, SeqRange
    <2>6. \A x \in Range(caused) : EventOK(x) /\ ~IsClock(x)
      BY <1>18, <2>2, <2>3, <2>5 DEF EventsOK
    <2>7. more \in Seq(Range(more)) /\ \A s \in Range(more) : ~ClockSignal(s)
      BY <1>9, <2>5, <2>6, AllSignalsOK, NoClockSignals
    <2> QED
      BY <2>7, LenProperties DEF Quiet, Range
  <1>22. PICK sig : sig = signals \o more
    OBVIOUS
  <1>23. /\ Quiet(signals) => Quiet(sig)
         /\ Announces(signals) => Announces(sig)
    BY <1>18, <1>21, <1>22, AnnouncesMore DEF SignalsOK
  <1>24. /\ Quiet(sig) => Quiet(signals)'
         /\ Announces(sig) => Announces(signals)'
    BY <1>1, <1>12, <1>16, <1>22 DEF Quiet, Announces, IsPassage, ClockSignal, IsClock
  <1>25. ASSUME NEW r \in FreeRules, NEW n, Block(t, r, n)
         PROVE  Block(todo, r, n)'
    <2>1. todo' = t
      BY <1>12, <1>19
    <2>2. n \in Nat /\ \E a \in 0..Len(t) :
            /\ a + n <= Len(t)
            /\ \A i \in 1..Len(t) : Fires(t[i], r) <=> a < i /\ i <= a + n
      BY <1>25 DEF Block
    <2> QED
      BY <2>1, <2>2 DEF Block, Fires, IsFiring
  <1>26. ASSUME Ahead PROVE Triggering'
    <2>1. ASSUME NEW r \in FreeRules
          PROVE  Block(todo, r, 0)' /\ world'.count[r] = before'.world.count[r]
      <3>1. Block(todo, r, 0)
        BY <1>26 DEF Ahead
      <3>2. IF Fires(todo[1], r) THEN Block(t, r, 0 - 1) ELSE Block(t, r, 0)
        BY <1>2, <1>18, <1>19, <3>1, BlockTail DEF Rest
      <3>3. r # q /\ Block(t, r, 0)
        <4>1. ~Block(t, r, 0 - 1)
          BY DEF Block
        <4> QED
          BY <1>6, <3>2, <4>1
      <3>4. world'.count[r] = world.count[r]
        BY <1>10, <1>16, <3>3 DEF FreeRules
      <3> QED
        BY <1>1, <1>25, <1>26, <3>3, <3>4 DEF Ahead
    <2>2. Ahead'
      BY <1>23, <1>24, <1>26, <2>1 DEF Ahead
    <2> QED
      BY <1>20, <2>2 DEF Triggering
  <1>27. ASSUME Taken PROVE Triggering'
    <2>1. ASSUME NEW r \in FreeRules
          PROVE  Block(todo, r, before.world.count[r] + DueCount(r) - world.count[r])'
      <3>1. PICK b \in Nat, d \in Nat, c \in Nat :
              b = before.world.count[r] /\ d = DueCount(r) /\ c = world.count[r]
        BY <1>2, DueNumbers
      <3>2. PICK n : n = b + d - c
        OBVIOUS
      <3>3. Block(todo, r, n)
        BY <1>27, <3>1, <3>2 DEF Taken
      <3>4. IF r = q THEN Block(t, r, n - 1) ELSE Block(t, r, n)
        BY <1>2, <1>6, <1>18, <1>19, <3>3, BlockTail DEF Rest
      <3>5. DueCount(r)' = d
        BY <1>1, <1>16, <3>1 DEF DueCount
      <3>6. world'.count[r] = IF r = q THEN c + 1 ELSE c
        BY <1>10, <1>16, <3>1 DEF FreeRules
      <3>7. before'.world.count[r] = b
        BY <1>1, <3>1
      <3>8. (before.world.count[r] + DueCount(r) - world.count[r])'
              = IF r = q THEN n - 1 ELSE n
        <4>1. b + d - (c + 1) = b + d - c - 1
          OBVIOUS
        <4> QED
          BY <3>2, <3>5, <3>6, <3>7, <4>1
      <3>9. CASE r = q
        BY <1>25, <3>4, <3>8, <3>9 DEF Block
      <3>10. CASE r # q
        BY <1>25, <3>4, <3>8, <3>10 DEF Block
      <3> QED
        BY <3>9, <3>10
    <2>2. Taken'
      BY <1>23, <1>24, <1>27, <2>1 DEF Taken
    <2> QED
      BY <1>20, <2>2 DEF Triggering
  <1>28. Triggering'
    BY <1>3, <1>26, <1>27 DEF Triggering
  <1>29. before'.world.clock <= world'.clock
    BY <1>1, <1>2, <1>16 DEF ClockInv
  <1> QED
    BY <1>1, <1>2, <1>15, <1>17, <1>28, <1>29 DEF ClockInv, CountsTyped, CountsExact

(* When nothing is left to be done, nothing is due either.                 *)
LEMMA EndClock ==
  ASSUME RulesInv, ClockInv, Commit \/ Rollback
  PROVE  ClockInv'
  <1>1. CountsTyped(world) /\ CountsTyped(before.world) /\ CountsExact(before.world)
    BY DEF ClockInv
  <1>2. CASE Commit
    <2>1. /\ outcome = "running" /\ todo = << >> /\ signals = << >> /\ outcome' = "done"
          /\ world' = world /\ before'.world = world
      BY <1>2 DEF Commit, Finished
    <2>2. Len(todo) = 0 /\ Len(signals) = 0
      BY <2>1
    <2>3. Triggering
      BY <2>1, <2>2 DEF ClockInv, Gathering, RulesLast
    <2>4. ~Announces(signals)
      BY <2>2 DEF Announces
    <2>5. Taken
      BY <2>3, <2>4 DEF Triggering, Ahead
    <2>6. ASSUME NEW r \in FreeRules
          PROVE  world.count[r] = world.clock \div Rules[r].arg
      <3>1. PICK b \in Nat, c \in Nat, d \in Nat, n \in Nat :
              /\ b = before.world.clock \div Rules[r].arg
              /\ c = world.clock \div Rules[r].arg
              /\ d = DueCount(r) /\ n = world.count[r]
        BY <2>1, DueNumbers
      <3>2. d = c - b /\ before.world.count[r] = b
        BY <2>1, <3>1, DueNumbers
      <3>3. Block(<< >>, r, b + d - n)
        BY <2>1, <2>5, <3>1, <3>2 DEF Taken
      <3>4. b + d - n = 0
        BY <3>3, BlockEmpty
      <3>5. n = c
        BY <3>2, <3>4
      <3> QED
        BY <3>1, <3>5
    <2>7. CountsExact(world)
      BY <2>6 DEF CountsExact
    <2> QED
      BY <1>1, <2>1, <2>7 DEF ClockInv, CountsTyped, CountsExact
  <1>3. CASE Rollback
    <2>1. outcome' = "refused" /\ world' = before.world /\ before' = before
      BY <1>3 DEF Rollback, Restored
    <2> QED
      BY <1>1, <2>1 DEF ClockInv, CountsTyped, CountsExact
  <1> QED
    BY <1>2, <1>3

LEMMA ClockStep ==
  ASSUME RulesInv, ClockInv, [Next]_vars
  PROVE  ClockInv'
  <1>1. CASE UNCHANGED vars
    <2>1. /\ Gathering => Gathering'
          /\ Triggering => Triggering'
      BY <1>1 DEF vars, Gathering, RulesLast, Passing, Passed, Triggering, WorkTriggered,
                  Ahead, Taken, Announces, Quiet, IsPassage, ClockSignal, IsClock, Block,
                  Fires, IsFiring, DueCount
    <2> QED
      BY <1>1, <2>1 DEF vars, ClockInv, CountsTyped, CountsExact
  <1> QED
    BY <1>1, CommandClock, EffectClock, FinishClock, AdvanceClock, TickClock, ExpireClock,
       StartRulesClock, NextSignalClock, FireClock, FiredClock, EndClock DEF Next, Step

LEMMA ClockInit == Init => ClockInv
  <1> SUFFICES ASSUME Init PROVE ClockInv
    OBVIOUS
  <1>1. /\ {"clock", "count"} \subseteq DOMAIN world /\ world.clock = 0
        /\ world.count = [r \in ClockRules |-> 0]
        /\ before.world = world /\ outcome = "none"
    BY DEF Init
  <1>2. CountsTyped(world)
    BY <1>1 DEF CountsTyped
  <1>3. ASSUME NEW r \in FreeRules PROVE world.count[r] = world.clock \div Rules[r].arg
    <2>1. PICK every \in Nat \ {0} : every = Rules[r].arg
      BY WorldRulesAssumption DEF WorldRulesAssumption, FreeRules, ClockRules
    <2>2. 0 \div every = 0
      OBVIOUS
    <2> QED
      BY <1>1, <2>1, <2>2 DEF FreeRules
  <1>4. CountsExact(world)
    BY <1>3 DEF CountsExact
  <1> QED
    BY <1>1, <1>2, <1>4 DEF ClockInv

(* A clock rule without predicates has been triggered once for every       *)
(* multiple of its period, however the time was cut into advances and      *)
(* conditions, and whatever else was triggered on the way: no crossing is  *)
(* lost between the events, the signals and the firings, and none is       *)
(* counted twice.                                                          *)
THEOREM ClockRulesCounted == Spec => []ClockRulesExact
  <1>1. RulesInv /\ ClockInv => ClockRulesExact
    BY DEF ClockInv, CountsExact, FreeRules, ClockRulesExact
  <1>2. Init => ClockInv
    BY ClockInit
  <1>3. RulesInv /\ ClockInv /\ [Next]_vars => ClockInv'
    BY ClockStep
  <1> QED
    BY <1>1, <1>2, <1>3, RulesInvariant, PTL DEF Spec

-----------------------------------------------------------------------------
(***************************************************************************)
(* GameWorld.                                                              *)
(***************************************************************************)

(* Sums over finite sets.  MapThenSumSet takes its elements one by one; f  *)
(* has its value for every subset.                                         *)
First1(t) == CHOOSE x \in t : TRUE
SumStep(w, f, t) == IF t = {} THEN 0 ELSE w[First1(t)] + f[t \ {First1(t)}]
Adds(f, w, S) == \A t \in SUBSET S : f[t] = SumStep(w, f, t)

Sums(f, w, D) == f = [t \in D |-> SumStep(w, f, t)]
UpTo(S, n) == {t \in SUBSET S : Cardinality(t) <= n}

LEMMA OneTaken ==
  ASSUME NEW S, IsFiniteSet(S), NEW t \in SUBSET S, t # {}
  PROVE  /\ First1(t) \in t /\ t \ {First1(t)} \in SUBSET S
         /\ Cardinality(t) \in Nat /\ Cardinality(t) # 0
         /\ \A x \in t : Cardinality(t \ {x}) = Cardinality(t) - 1
  <1>1. First1(t) \in t
    BY DEF First1
  <1>2. IsFiniteSet(t)
    BY FS_Subset
  <1>3. Cardinality(t) \in Nat /\ Cardinality(t) # 0
    BY <1>2, FS_CardinalityType, FS_EmptySet
  <1>4. \A x \in t : Cardinality(t \ {x}) = Cardinality(t) - 1
    BY <1>2, FS_RemoveElement
  <1> QED
    BY <1>1, <1>3, <1>4

LEMMA SumUpTo ==
  ASSUME NEW S, IsFiniteSet(S), NEW w, NEW N \in Nat
  PROVE  \E f : Sums(f, w, UpTo(S, N))
  <1> DEFINE Upto(f, n) == Sums(f, w, UpTo(S, n))
             bad == {n \in 0..N : ~ \E f : Upto(f, n)}
  <1>1. bad = {}
    <2> SUFFICES ASSUME bad # {} PROVE FALSE
      OBVIOUS
    <2>1. bad \in SUBSET Nat
      <3> HIDE DEF Upto
      <3>1. bad \subseteq 0..N
        BY Zenon
      <3> QED
        BY <3>1
    <2> HIDE DEF bad
    <2>2. PICK n \in bad : \A k \in bad : n <= k
      BY <2>1, LeastNumber
    <2>3. n \in 0..N /\ n \in Nat
      BY DEF bad
    <2>4. CASE n = 0
      <3>1. PICK f : f = [t \in UpTo(S, 0) |-> 0]
        OBVIOUS
      <3>2. ASSUME NEW t \in UpTo(S, 0) PROVE SumStep(w, f, t) = 0
        <4>1. t \in SUBSET S /\ Cardinality(t) <= 0
          BY DEF UpTo
        <4>2. t = {}
          <5>1. IsFiniteSet(t)
            BY <4>1, FS_Subset
          <5>2. Cardinality(t) \in Nat
            BY <5>1, FS_CardinalityType
          <5>3. Cardinality(t) = 0
            BY <4>1, <5>2
          <5> QED
            BY <5>1, <5>3, FS_EmptySet
        <4> QED
          BY <4>2 DEF SumStep
      <3>3. Upto(f, 0)
        BY <3>1, <3>2 DEF Sums
      <3> QED
        BY <2>4, <3>3 DEF bad
    <2>5. CASE n # 0
      <3>1. n - 1 \in 0..N /\ ~(n <= n - 1)
        BY <2>3, <2>5
      <3>2. n - 1 \notin bad
        BY <2>2, <3>1
      <3>3. PICK f : Upto(f, n - 1)
        BY <3>1, <3>2 DEF bad
      <3>4. PICK h : h = [t \in UpTo(S, n) |-> SumStep(w, f, t)]
        OBVIOUS
      <3>5. ASSUME NEW t \in UpTo(S, n - 1) PROVE t \in UpTo(S, n) /\ h[t] = f[t]
        <4>1. t \in SUBSET S /\ Cardinality(t) <= n - 1
          BY DEF UpTo
        <4>2. Cardinality(t) \in Nat
          BY <4>1, FS_Subset, FS_CardinalityType
        <4>3. t \in UpTo(S, n)
          BY <2>3, <4>1, <4>2 DEF UpTo
        <4>4. f[t] = SumStep(w, f, t)
          BY <3>3 DEF Sums
        <4> QED
          BY <3>4, <4>3, <4>4
      <3>6. ASSUME NEW t \in UpTo(S, n) PROVE h[t] = SumStep(w, h, t)
        <4>1. h[t] = SumStep(w, f, t)
          BY <3>4
        <4>2. CASE t = {}
          BY <4>1, <4>2 DEF SumStep
        <4>3. CASE t # {}
          <5>1. t \in SUBSET S /\ Cardinality(t) <= n
            BY DEF UpTo
          <5>2. PICK r : r = t \ {First1(t)}
            OBVIOUS
          <5>3. /\ r \in SUBSET S /\ Cardinality(r) = Cardinality(t) - 1
                /\ Cardinality(t) \in Nat
            BY <4>3, <5>1, <5>2, OneTaken
          <5>4. r \in UpTo(S, n - 1)
            BY <2>3, <5>1, <5>3 DEF UpTo
          <5>5. h[r] = f[r]
            BY <3>5, <5>4
          <5> QED
            BY <4>1, <4>3, <5>2, <5>5 DEF SumStep
        <4> QED
          BY <4>2, <4>3
      <3>7. h = [t \in UpTo(S, n) |-> SumStep(w, h, t)]
        BY <3>4, <3>6
      <3>8. Upto(h, n)
        BY <3>7 DEF Sums
      <3> QED
        BY <3>8 DEF bad
    <2> QED
      BY <2>4, <2>5
  <1>2. N \in 0..N
    OBVIOUS
  <1> HIDE DEF bad
  <1> QED
    BY <1>1, <1>2 DEF bad

LEMMA SumExists ==
  ASSUME NEW S, IsFiniteSet(S), NEW w
  PROVE  \E f : Sums(f, w, SUBSET S)
  <1>1. PICK N \in Nat : N = Cardinality(S)
    BY FS_CardinalityType
  <1>2. UpTo(S, N) = SUBSET S
    <2>1. ASSUME NEW t \in SUBSET S PROVE Cardinality(t) <= N
      BY <1>1, FS_Subset
    <2> QED
      BY <2>1 DEF UpTo
  <1>3. \E f : Sums(f, w, UpTo(S, N))
    BY SumUpTo
  <1> QED
    BY <1>2, <1>3, Zenon

(* The order in which elements are taken does not matter, nor what else    *)
(* the sum is taken over.                                                  *)
LEMMA SumTakes ==
  ASSUME NEW S, IsFiniteSet(S), NEW w, NEW f, Adds(f, w, S), \A x \in S : w[x] \in Nat,
         NEW T \in SUBSET S
  PROVE  f[T] \in Nat /\ \A x \in T : f[T] = w[x] + f[T \ {x}]
  <1> DEFINE Good(t) == f[t] \in Nat /\ \A x \in t : f[t] = w[x] + f[t \ {x}]
             bad == {n \in Nat : \E t \in SUBSET S : Cardinality(t) = n /\ ~Good(t)}
  <1>1. bad = {}
    <2> SUFFICES ASSUME bad # {} PROVE FALSE
      OBVIOUS
    <2>1. bad \in SUBSET Nat
      <3> HIDE DEF Good
      <3> QED
        BY Zenon
    <2> HIDE DEF bad
    <2>2. PICK n \in bad : \A k \in bad : n <= k
      BY <2>1, LeastNumber
    <2>3. n \in Nat
      BY <2>1
    <2>4. PICK t \in SUBSET S : Cardinality(t) = n /\ ~Good(t)
      <3> HIDE DEF Good
      <3> QED
        BY DEF bad
    <2>5. f[t] = SumStep(w, f, t)
      BY DEF Adds
    <2>6. CASE t = {}
      BY <2>4, <2>5, <2>6 DEF SumStep
    <2>7. CASE t # {}
      <3>1. PICK y \in t : y = First1(t)
        BY <2>7, OneTaken
      <3>2. \A x \in t : Good(t \ {x})
        <4> SUFFICES ASSUME NEW x \in t PROVE Good(t \ {x})
          BY Zenon
        <4>1. Cardinality(t \ {x}) = n - 1 /\ n # 0
          BY <2>4, <2>7, OneTaken
        <4>2. n - 1 \in Nat /\ ~(n <= n - 1)
          BY <2>3, <4>1
        <4>3. n - 1 \notin bad
          BY <2>2, <4>2
        <4> HIDE DEF Good
        <4> QED
          BY <4>1, <4>2, <4>3 DEF bad
      <3>3. f[t] = w[y] + f[t \ {y}]
        BY <2>5, <2>7, <3>1 DEF SumStep
      <3>4. f[t] \in Nat
        <4>1. f[t \ {y}] \in Nat
          BY <3>2
        <4>2. w[y] \in Nat
          OBVIOUS
        <4> QED
          BY <3>3, <4>1, <4>2
      <3>5. ASSUME NEW x \in t PROVE f[t] = w[x] + f[t \ {x}]
        <4>1. CASE x = y
          BY <3>3, <4>1
        <4>2. CASE x # y
          <5>1. x \in t \ {y} /\ y \in t \ {x}
            BY <4>2
          <5>2. (t \ {y}) \ {x} = (t \ {x}) \ {y}
            OBVIOUS
          <5>3. PICK r : r = (t \ {x}) \ {y}
            OBVIOUS
          <5>4. f[t \ {y}] = w[x] + f[r]
            BY <3>2, <5>1, <5>2, <5>3
          <5>5. f[t \ {x}] = w[y] + f[r] /\ f[t \ {x}] \in Nat
            BY <3>2, <5>1, <5>3
          <5>6. w[x] \in Nat /\ w[y] \in Nat /\ f[r] \in Nat
            <6>1. w[x] \in Nat /\ w[y] \in Nat
              OBVIOUS
            <6>2. PICK u \in SUBSET S : u = t \ {x} /\ y \in u
              BY <5>1
            <6>3. Cardinality(u) = n - 1 /\ n # 0
              BY <2>4, <2>7, <6>2, OneTaken
            <6>4. Cardinality(u \ {y}) = Cardinality(u) - 1 /\ Cardinality(u) \in Nat /\ Cardinality(u) # 0
              BY <6>2, OneTaken
            <6>5. n - 2 \in Nat /\ ~(n <= n - 2) /\ Cardinality(r) = n - 2
              BY <2>3, <5>3, <6>2, <6>3, <6>4
            <6>6. n - 2 \notin bad
              BY <2>2, <6>5
            <6>7. r \in SUBSET S
              BY <5>3
            <6>8. Good(r)
              <7> HIDE DEF Good
              <7> QED
                BY <6>5, <6>6, <6>7 DEF bad
            <6> QED
              BY <6>1, <6>8
          <5> QED
            BY <3>3, <5>4, <5>5, <5>6
        <4> QED
          BY <4>1, <4>2
      <3> QED
        BY <2>4, <3>4, <3>5
    <2> QED
      BY <2>6, <2>7
  <1>2. Cardinality(T) \in Nat
    BY FS_Subset, FS_CardinalityType
  <1>3. Good(T)
    <2> HIDE DEF Good
    <2> QED
      BY <1>1, <1>2
  <1> QED
    BY <1>3

LEMMA SumSame ==
  ASSUME NEW S, IsFiniteSet(S), NEW w, NEW f, Adds(f, w, S),
         NEW R, NEW v, NEW g, Adds(g, v, R),
         NEW T \in SUBSET S, T \in SUBSET R, \A x \in T : w[x] = v[x]
  PROVE  f[T] = g[T]
  <1> DEFINE bad == {n \in Nat : \E t \in SUBSET T : Cardinality(t) = n /\ f[t] # g[t]}
  <1>1. bad = {}
    <2> SUFFICES ASSUME bad # {} PROVE FALSE
      OBVIOUS
    <2>1. bad \in SUBSET Nat
      BY Zenon
    <2> HIDE DEF bad
    <2>2. PICK n \in bad : \A k \in bad : n <= k
      BY <2>1, LeastNumber
    <2>3. n \in Nat
      BY <2>1
    <2>4. PICK t \in SUBSET T : Cardinality(t) = n /\ f[t] # g[t]
      BY DEF bad
    <2>5. f[t] = SumStep(w, f, t) /\ g[t] = SumStep(v, g, t)
      BY DEF Adds
    <2>6. CASE t = {}
      BY <2>4, <2>5, <2>6 DEF SumStep
    <2>7. CASE t # {}
      <3>1. PICK y \in t : y = First1(t)
        BY <2>7, OneTaken
      <3>2. PICK r \in SUBSET T : r = t \ {y}
        OBVIOUS
      <3>3. Cardinality(r) = n - 1 /\ n # 0
        BY <2>4, <2>7, <3>2, OneTaken
      <3>4. n - 1 \in Nat /\ ~(n <= n - 1)
        BY <2>3, <3>3
      <3>5. n - 1 \notin bad
        BY <2>2, <3>4
      <3>6. f[r] = g[r]
        BY <3>3, <3>4, <3>5 DEF bad
      <3>7. w[y] = v[y]
        OBVIOUS
      <3> QED
        BY <2>4, <2>5, <2>7, <3>1, <3>2, <3>6, <3>7 DEF SumStep
    <2> QED
      BY <2>6, <2>7
  <1>2. Cardinality(T) \in Nat
    BY FS_Subset, FS_CardinalityType
  <1> QED
    BY <1>1, <1>2

(* What an item weighs, and the weight of some of them as such a sum.      *)
ItemWeight(items, i) == ItemDefs[items[i].def].weight * items[i].stack
Weights(items) == [i \in DOMAIN items |-> ItemWeight(items, i)]

LEMMA WeightSum ==
  ASSUME NEW items, NEW T \in SUBSET DOMAIN items, IsFiniteSet(T)
  PROVE  \E f : Adds(f, Weights(items), T) /\ Weight(items, T) = f[T]
  <1> DEFINE Weighs(g) ==
               g = [s \in SUBSET T |->
                      IF s = {} THEN 0
                      ELSE ItemWeight(items, First1(s)) + g[s \ {First1(s)}]]
  <1>1. PICK f : Sums(f, Weights(items), SUBSET T)
    BY SumExists
  <1>2. ASSUME NEW s \in SUBSET T, s # {}
        PROVE  Weights(items)[First1(s)] = ItemWeight(items, First1(s))
    <2>1. First1(s) \in DOMAIN items
      BY <1>2, OneTaken
    <2> QED
      BY <2>1 DEF Weights
  <1>3. Weighs(f)
    BY <1>1, <1>2 DEF Sums, SumStep
  <1>4. Weight(items, T) = (CHOOSE g : Weighs(g))[T]
    BY DEF Weight, MapThenSumSet, MapThenFoldSet, First1, ItemWeight
  <1>5. PICK h : h = CHOOSE g : Weighs(g)
    OBVIOUS
  <1>6. Weighs(h)
    <2> HIDE DEF Weighs
    <2> QED
      BY <1>3, <1>5
  <1>7. Adds(h, Weights(items), T)
    BY <1>2, <1>6 DEF Adds, SumStep
  <1> HIDE DEF Weighs
  <1> QED
    BY <1>4, <1>5, <1>7

LEMMA WeightTakes ==
  ASSUME NEW items, NEW T \in SUBSET DOMAIN items, IsFiniteSet(T),
         \A x \in T : ItemWeight(items, x) \in Nat
  PROVE  /\ Weight(items, T) \in Nat
         /\ \A x \in T : Weight(items, T) = ItemWeight(items, x) + Weight(items, T \ {x})
  <1>1. PICK f : Adds(f, Weights(items), T) /\ Weight(items, T) = f[T]
    BY WeightSum
  <1>2. \A x \in T : Weights(items)[x] = ItemWeight(items, x)
    BY DEF Weights
  <1>3. \A x \in T : Weights(items)[x] \in Nat
    BY <1>2
  <1>4. T \in SUBSET T
    OBVIOUS
  <1>5. f[T] \in Nat /\ \A x \in T : f[T] = Weights(items)[x] + f[T \ {x}]
    BY <1>1, <1>3, <1>4, SumTakes
  <1>6. ASSUME NEW x \in T PROVE Weight(items, T) = ItemWeight(items, x) + Weight(items, T \ {x})
    <2>1. PICK r \in SUBSET T : r = T \ {x}
      OBVIOUS
    <2>2. IsFiniteSet(r) /\ r \in SUBSET DOMAIN items
      BY FS_Subset
    <2>3. PICK g : Adds(g, Weights(items), r) /\ Weight(items, r) = g[r]
      BY <2>2, WeightSum
    <2>4. r \in SUBSET r
      OBVIOUS
    <2>5. f[r] = g[r]
      BY <1>1, <2>1, <2>2, <2>3, <2>4, SumSame
    <2> QED
      BY <1>1, <1>2, <1>5, <2>1, <2>3, <2>5
  <1> QED
    BY <1>1, <1>5, <1>6

LEMMA WeightSame ==
  ASSUME NEW items, NEW others, NEW T, T \in SUBSET DOMAIN items, T \in SUBSET DOMAIN others,
         IsFiniteSet(T), \A x \in T : ItemWeight(items, x) = ItemWeight(others, x)
  PROVE  Weight(items, T) = Weight(others, T)
  <1>1. PICK f : Adds(f, Weights(items), T) /\ Weight(items, T) = f[T]
    BY WeightSum
  <1>2. PICK g : Adds(g, Weights(others), T) /\ Weight(others, T) = g[T]
    BY WeightSum
  <1>3. \A x \in T : Weights(items)[x] = Weights(others)[x]
    BY DEF Weights
  <1>4. T \in SUBSET T
    OBVIOUS
  <1> QED
    BY <1>1, <1>2, <1>3, <1>4, SumSame

(* What the characters of a scene plan take up, summed in the same way.    *)
Sizes(entries, n) == [j \in 1..n |-> Size(entries[j].inventory)]
SizeSum(entries, n) == MapThenSumSet(LAMBDA j : Size(entries[j].inventory), 1..n)

LEMMA SizesSum ==
  ASSUME NEW entries, NEW n \in Nat
  PROVE  \E f : Adds(f, Sizes(entries, n), 1..n) /\ SizeSum(entries, n) = f[1..n]
  <1> DEFINE Weighs(g) ==
               g = [s \in SUBSET (1..n) |->
                      IF s = {} THEN 0
                      ELSE Size(entries[First1(s)].inventory) + g[s \ {First1(s)}]]
  <1>0. IsFiniteSet(1..n)
    BY FS_Interval
  <1>1. PICK f : Sums(f, Sizes(entries, n), SUBSET (1..n))
    BY <1>0, SumExists
  <1>2. ASSUME NEW s \in SUBSET (1..n), s # {}
        PROVE  Sizes(entries, n)[First1(s)] = Size(entries[First1(s)].inventory)
    <2>1. First1(s) \in 1..n
      BY <1>0, <1>2, OneTaken
    <2> QED
      BY <2>1 DEF Sizes
  <1>3. Weighs(f)
    BY <1>1, <1>2 DEF Sums, SumStep
  <1>4. SizeSum(entries, n) = (CHOOSE g : Weighs(g))[1..n]
    BY DEF SizeSum, MapThenSumSet, MapThenFoldSet, First1
  <1>5. PICK h : h = CHOOSE g : Weighs(g)
    OBVIOUS
  <1>6. Weighs(h)
    <2> HIDE DEF Weighs
    <2> QED
      BY <1>3, <1>5
  <1>7. Adds(h, Sizes(entries, n), 1..n)
    BY <1>2, <1>6 DEF Adds, SumStep
  <1> HIDE DEF Weighs
  <1> QED
    BY <1>4, <1>5, <1>7

LEMMA SizesTake ==
  ASSUME NEW entries, NEW n \in Nat, \A j \in 1..n : Size(entries[j].inventory) \in Nat
  PROVE  /\ SizeSum(entries, n) \in Nat
         /\ n = 0 => SizeSum(entries, n) = 0
         /\ n # 0 => SizeSum(entries, n)
                       = SizeSum(entries, n - 1) + Size(entries[n].inventory)
  <1>0. IsFiniteSet(1..n) /\ 1..n \in SUBSET (1..n)
    BY FS_Interval
  <1>1. PICK f : Adds(f, Sizes(entries, n), 1..n) /\ SizeSum(entries, n) = f[1..n]
    BY SizesSum
  <1>2. \A x \in 1..n : Sizes(entries, n)[x] = Size(entries[x].inventory)
    BY DEF Sizes
  <1>3. \A x \in 1..n : Sizes(entries, n)[x] \in Nat
    BY <1>2
  <1>4. f[1..n] \in Nat /\ \A x \in 1..n : f[1..n] = Sizes(entries, n)[x] + f[(1..n) \ {x}]
    <2>1. PICK T : T = 1..n
      OBVIOUS
    <2>2. PICK w : w = Sizes(entries, n)
      OBVIOUS
    <2>3. IsFiniteSet(T) /\ T \in SUBSET T /\ Adds(f, w, T) /\ \A x \in T : w[x] \in Nat
      BY <1>0, <1>1, <1>3, <2>1, <2>2
    <2>4. f[T] \in Nat /\ \A x \in T : f[T] = w[x] + f[T \ {x}]
      BY <2>3, SumTakes
    <2> QED
      BY <2>1, <2>2, <2>4
  <1>5. CASE n = 0
    <2>1. 1..n = {}
      BY <1>5
    <2>2. f[1..n] = SumStep(Sizes(entries, n), f, 1..n)
      BY <1>0, <1>1 DEF Adds
    <2> QED
      BY <1>1, <1>4, <1>5, <2>1, <2>2 DEF SumStep
  <1>6. CASE n # 0
    <2>1. PICK m \in Nat : m = n - 1
      BY <1>6
    <2>2. n \in 1..n /\ (1..n) \ {n} = 1..m /\ 1..m \in SUBSET (1..n) /\ 1..m \in SUBSET (1..m)
      BY <1>6, <2>1
    <2>3. PICK g : Adds(g, Sizes(entries, m), 1..m) /\ SizeSum(entries, m) = g[1..m]
      BY SizesSum
    <2>4. \A x \in 1..m : Sizes(entries, n)[x] = Sizes(entries, m)[x]
      BY <2>1 DEF Sizes
    <2>5. IsFiniteSet(1..m)
      BY FS_Interval
    <2>6. f[1..m] = g[1..m]
      BY <1>0, <1>1, <2>2, <2>3, <2>4, <2>5, SumSame
    <2>7. SizeSum(entries, n) = Size(entries[n].inventory) + SizeSum(entries, m)
      BY <1>1, <1>2, <1>4, <2>2, <2>3, <2>6
    <2>8. SizeSum(entries, m) \in Nat
      <3>1. \A x \in 1..m : Sizes(entries, m)[x] \in Nat
        BY <1>3, <2>2, <2>4
      <3>2. g[1..m] \in Nat
        BY <2>2, <2>3, <2>5, <3>1, SumTakes
      <3> QED
        BY <2>3, <3>2
    <2>9. Size(entries[n].inventory) \in Nat
      BY <2>2
    <2> QED
      BY <1>1, <1>4, <1>6, <2>1, <2>7, <2>8, <2>9
  <1> QED
    BY <1>5, <1>6

(***************************************************************************)
(* Steps from one element to others until nothing is added, of which the   *)
(* walk up the containers of an item and the walk through the places of a  *)
(* scene are two: r gives the elements next to one.  As many steps as      *)
(* there are elements that can be arrived at are enough.                   *)
(***************************************************************************)
Onward(r, T) == UNION {r[x] : x \in T}
Steps(u, r, a, N) ==
  u[0] = {a} /\ \A n \in 1..N : u[n] = u[n - 1] \cup Onward(r, u[n - 1])
Closed(r, T) == \A x \in T : r[x] \subseteq T
Grown(r, T, n) == Closed(r, T) \/ Cardinality(Onward(r, T)) > n

LEMMA Grows ==
  ASSUME NEW X, NEW r, NEW S \in SUBSET X, \A x \in X : r[x] \in SUBSET S,
         IsFiniteSet(S), NEW n \in Nat, NEW T \in SUBSET X, Grown(r, T, n)
  PROVE  T \cup Onward(r, T) \in SUBSET X /\ Grown(r, T \cup Onward(r, T), n + 1)
  <1>1. PICK K : K = Onward(r, T)
    OBVIOUS
  <1>2. K \in SUBSET S
    BY <1>1 DEF Onward
  <1>3. PICK U \in SUBSET X : U = T \cup K
    BY <1>2
  <1>4. PICK L : L = Onward(r, U)
    OBVIOUS
  <1>5. L \in SUBSET S /\ K \in SUBSET L
    BY <1>1, <1>3, <1>4 DEF Onward
  <1>6. CASE Closed(r, T)
    <2>1. U = T
      BY <1>1, <1>3, <1>6 DEF Onward, Closed
    <2> QED
      BY <1>1, <1>3, <1>6, <2>1 DEF Grown
  <1>7. CASE ~Closed(r, T) /\ ~Closed(r, U)
    <2>1. PICK y \in U : ~(r[y] \subseteq U)
      BY <1>7 DEF Closed
    <2>2. PICK z \in r[y] : z \notin U
      BY <2>1
    <2>3. z \in L /\ z \notin K
      BY <1>3, <1>4, <2>1, <2>2 DEF Onward
    <2>4. IsFiniteSet(L) /\ IsFiniteSet(K)
      BY <1>2, <1>5, FS_Subset
    <2>5. IsFiniteSet(L \ {z}) /\ Cardinality(L \ {z}) = Cardinality(L) - 1
      BY <2>3, <2>4, FS_RemoveElement
    <2>6. K \in SUBSET (L \ {z})
      BY <1>5, <2>3
    <2>7. Cardinality(K) <= Cardinality(L \ {z})
      BY <2>5, <2>6, FS_Subset
    <2>8. Cardinality(K) \in Nat /\ Cardinality(L) \in Nat
      BY <2>4, FS_CardinalityType
    <2>9. Cardinality(K) > n
      BY <1>1, <1>7 DEF Grown
    <2>10. Cardinality(L) > n + 1
      BY <2>5, <2>7, <2>8, <2>9
    <2> QED
      BY <1>1, <1>3, <1>4, <2>10 DEF Grown
  <1>8. CASE Closed(r, U)
    BY <1>1, <1>3, <1>8 DEF Grown
  <1> QED
    BY <1>6, <1>7, <1>8

LEMMA StepsGrow ==
  ASSUME NEW X, NEW r, NEW S \in SUBSET X, \A x \in X : r[x] \in SUBSET S,
         IsFiniteSet(S), NEW a \in X, NEW N \in Nat, NEW u, Steps(u, r, a, N),
         NEW C, a \in C, Closed(r, C)
  PROVE  u[N] \in SUBSET X /\ a \in u[N] /\ u[N] \subseteq C /\ Grown(r, u[N], N)
  <1> DEFINE Good(n) == /\ u[n] \in SUBSET X /\ a \in u[n] /\ u[n] \subseteq C
                        /\ Grown(r, u[n], n)
             bad == {n \in 0..N : ~Good(n)}
  <1>1. Good(0)
    <2>1. u[0] = {a}
      BY DEF Steps
    <2>2. PICK T \in SUBSET X : T = {a} /\ a \in T /\ T \subseteq C
      OBVIOUS
    <2>3. Grown(r, T, 0)
      <3>1. CASE Closed(r, T)
        BY <3>1 DEF Grown
      <3>2. CASE ~Closed(r, T)
        <4>1. PICK z : z \in Onward(r, T)
          BY <3>2 DEF Closed, Onward
        <4>2. Onward(r, T) \in SUBSET S
          BY DEF Onward
        <4>3. IsFiniteSet(Onward(r, T))
          BY <4>2, FS_Subset
        <4>4. Cardinality(Onward(r, T)) \in Nat /\ Cardinality(Onward(r, T)) # 0
          BY <4>1, <4>3, FS_CardinalityType, FS_EmptySet
        <4> QED
          BY <4>4 DEF Grown
      <3> QED
        BY <3>1, <3>2
    <2> QED
      BY <2>1, <2>2, <2>3
  <1>2. ASSUME NEW n \in 1..N, Good(n - 1) PROVE Good(n)
    <2>1. PICK m \in Nat : m = n - 1 /\ n = m + 1
      OBVIOUS
    <2>2. u[n] = u[m] \cup Onward(r, u[m])
      BY <2>1 DEF Steps
    <2>3. PICK T \in SUBSET X : T = u[m] /\ a \in T /\ T \subseteq C /\ Grown(r, T, m)
      BY <1>2, <2>1
    <2>4. T \cup Onward(r, T) \in SUBSET X /\ Grown(r, T \cup Onward(r, T), m + 1)
      BY <2>3, Grows
    <2>5. a \in T \cup Onward(r, T) /\ T \cup Onward(r, T) \subseteq C
      BY <2>3 DEF Onward, Closed
    <2> QED
      BY <2>1, <2>2, <2>3, <2>4, <2>5
  <1>3. bad = {}
    <2> SUFFICES ASSUME bad # {} PROVE FALSE
      OBVIOUS
    <2>1. bad \in SUBSET Nat
      <3> HIDE DEF Good
      <3>1. bad \subseteq 0..N
        BY Zenon
      <3> QED
        BY <3>1
    <2> HIDE DEF bad
    <2>2. PICK n \in bad : \A k \in bad : n <= k
      BY <2>1, LeastNumber
    <2>3. n \in 0..N /\ n \in Nat /\ ~Good(n)
      <3> HIDE DEF Good
      <3> QED
        BY DEF bad
    <2> HIDE DEF Good
    <2>4. n # 0
      BY <1>1, <2>3
    <2>5. n \in 1..N /\ n - 1 \in 0..N /\ ~(n <= n - 1)
      BY <2>3, <2>4
    <2>6. Good(n - 1)
      BY <2>2, <2>5 DEF bad
    <2> QED
      BY <1>2, <2>3, <2>5, <2>6
  <1>4. N \in 0..N
    OBVIOUS
  <1>5. Good(N)
    <2> HIDE DEF Good
    <2> QED
      BY <1>3, <1>4
  <1> QED
    BY <1>5

LEMMA StepsClose ==
  ASSUME NEW X, NEW r, NEW S \in SUBSET X, \A x \in X : r[x] \in SUBSET S,
         IsFiniteSet(S), NEW a \in X, NEW u, Steps(u, r, a, Cardinality(S)),
         NEW H, H = u[Cardinality(S)]
  PROVE  /\ H \in SUBSET X /\ a \in H /\ Closed(r, H)
         /\ \A C : a \in C /\ Closed(r, C) => H \subseteq C
  <1>1. PICK N \in Nat : N = Cardinality(S)
    BY FS_CardinalityType
  <1>2. ASSUME NEW C, a \in C, Closed(r, C)
        PROVE  u[N] \in SUBSET X /\ a \in u[N] /\ u[N] \subseteq C /\ Grown(r, u[N], N)
    <2>1. Steps(u, r, a, N)
      BY <1>1
    <2> QED
      BY <1>2, <2>1, StepsGrow
  <1>3. a \in X /\ Closed(r, X)
    BY DEF Closed
  <1>4. u[N] \in SUBSET X /\ a \in u[N] /\ Grown(r, u[N], N)
    BY <1>2, <1>3
  <1>5. Closed(r, u[N])
    <2>1. PICK K : K = Onward(r, u[N])
      OBVIOUS
    <2>2. K \in SUBSET S
      BY <1>4, <2>1 DEF Onward
    <2>3. IsFiniteSet(K) /\ Cardinality(K) <= N
      BY <1>1, <2>2, FS_Subset
    <2>4. Cardinality(K) \in Nat
      BY <2>3, FS_CardinalityType
    <2>5. ~(Cardinality(K) > N)
      BY <1>1, <2>3, <2>4
    <2> QED
      BY <1>4, <2>1, <2>5 DEF Grown
  <1>6. \A C : a \in C /\ Closed(r, C) => u[N] \subseteq C
    BY <1>2
  <1> QED
    BY <1>1, <1>4, <1>5, <1>6

(* The walk of Holders, and what a consistent set of items is.             *)
Up(u, items, i, N) ==
  u = [k \in 0..N |-> IF k = 0 THEN {i} ELSE u[k - 1] \cup {items[j].in : j \in u[k - 1] \ {None}}]

LEMMA UpExists ==
  ASSUME NEW items, NEW i, NEW N \in Nat
  PROVE  \E u : Up(u, items, i, N)
  <1> DEFINE bad == {n \in 0..N : ~ \E u : Up(u, items, i, n)}
  <1>1. bad = {}
    <2> SUFFICES ASSUME bad # {} PROVE FALSE
      OBVIOUS
    <2>1. bad \in SUBSET Nat
      <3>1. bad \subseteq 0..N
        BY Zenon
      <3> QED
        BY <3>1
    <2> HIDE DEF bad
    <2>2. PICK n \in bad : \A k \in bad : n <= k
      BY <2>1, LeastNumber
    <2>3. n \in 0..N /\ n \in Nat
      BY DEF bad
    <2>4. CASE n = 0
      <3>1. Up([k \in 0..0 |-> {i}], items, i, 0)
        BY DEF Up
      <3> QED
        BY <2>4, <3>1 DEF bad
    <2>5. CASE n # 0
      <3>1. PICK m \in Nat : m = n - 1 /\ m \in 0..N /\ ~(n <= m)
        BY <2>3, <2>5
      <3>2. PICK u : Up(u, items, i, m)
        BY <2>2, <3>1 DEF bad
      <3>3. PICK v : v = [k \in 0..n |-> IF k = 0 THEN {i} ELSE u[k - 1] \cup {items[j].in : j \in u[k - 1] \ {None}}]
        OBVIOUS
      <3>4. ASSUME NEW k \in 0..m PROVE k \in 0..n /\ v[k] = u[k]
        <4>1. k \in 0..n
          BY <2>3, <3>1
        <4>2. u[k] = IF k = 0 THEN {i} ELSE u[k - 1] \cup {items[j].in : j \in u[k - 1] \ {None}}
          BY <3>2 DEF Up
        <4> QED
          BY <3>3, <4>1, <4>2
      <3>5. ASSUME NEW k \in 0..n
            PROVE  v[k] = IF k = 0 THEN {i} ELSE v[k - 1] \cup {items[j].in : j \in v[k - 1] \ {None}}
        <4>1. CASE k = 0
          BY <3>3, <4>1
        <4>2. CASE k # 0
          <5>1. k - 1 \in 0..m
            BY <2>3, <3>1, <4>2
          <5>2. v[k - 1] = u[k - 1]
            BY <3>4, <5>1
          <5>3. v[k] = u[k - 1] \cup {items[j].in : j \in u[k - 1] \ {None}}
            BY <3>3, <4>2
          <5> QED
            BY <4>2, <5>2, <5>3
        <4> QED
          BY <4>1, <4>2
      <3>6. Up(v, items, i, n)
        BY <3>3, <3>5 DEF Up
      <3> QED
        BY <3>6 DEF bad
    <2> QED
      BY <2>4, <2>5
  <1>2. N \in 0..N
    OBVIOUS
  <1> HIDE DEF bad
  <1> QED
    BY <1>1, <1>2 DEF bad

Containers(items) == {c \in DOMAIN items : IsContainer(items[c])}
Sound(items) ==
  /\ IsFiniteSet(DOMAIN items) /\ None \notin DOMAIN items
  /\ \A i \in DOMAIN items : items[i].in # None => items[i].in \in Containers(items)

(* A set of items that holds, with an item, also what the item is in.      *)
Upward(items, C) ==
  /\ C \in SUBSET DOMAIN items
  /\ \A j \in C : items[j].in # None => items[j].in \in C

LEMMA HoldersLeast ==
  ASSUME NEW items, Sound(items), NEW i \in DOMAIN items
  PROVE  /\ i \in Holders(items, i) /\ Upward(items, Holders(items, i))
         /\ \A C : Upward(items, C) /\ i \in C => Holders(items, i) \subseteq C
  <1>1. PICK S : S = Containers(items)
    OBVIOUS
  <1>2. S \in SUBSET DOMAIN items /\ IsFiniteSet(S)
    BY <1>1, FS_Subset DEF Containers, Sound
  <1>3. PICK N \in Nat : N = Cardinality(S)
    BY <1>2, FS_CardinalityType
  <1>4. PICK u : u = CHOOSE x : Up(x, items, i, N)
    OBVIOUS
  <1>5. Up(u, items, i, N)
    BY <1>4, UpExists
  <1>6. Holders(items, i) = u[N] \ {None}
    <2>1. Holders(items, i) = (CHOOSE x : Up(x, items, i, Cardinality(S)))[Cardinality(S)] \ {None}
      BY <1>1 DEF Holders, Up, Containers
    <2> QED
      BY <1>3, <1>4, <2>1
  <1>7. PICK r : r = [j \in (UNION {u[n] : n \in 0..N}) \cup DOMAIN items |-> {items[j].in} \ {None}]
    OBVIOUS
  <1>8. PICK v : v = [n \in 0..N |-> u[n] \ {None}]
    OBVIOUS
  <1>9. Steps(v, r, i, N)
    <2>1. v[0] = {i}
      <3>1. i # None
        BY DEF Sound
      <3>2. u[0] = {i}
        BY <1>5 DEF Up
      <3> QED
        BY <1>8, <3>1, <3>2
    <2>2. ASSUME NEW n \in 1..N PROVE v[n] = v[n - 1] \cup Onward(r, v[n - 1])
      <3>1. n \in 0..N /\ n - 1 \in 0..N /\ n # 0
        OBVIOUS
      <3>2. u[n] = u[n - 1] \cup {items[j].in : j \in u[n - 1] \ {None}}
        BY <1>5, <3>1 DEF Up
      <3>3. PICK h : h = v[n - 1] /\ h = u[n - 1] \ {None} /\ v[n] = u[n] \ {None}
        BY <1>8, <3>1
      <3>4. \A j \in h : j \in UNION {u[k] : k \in 0..N}
        BY <3>1, <3>3
      <3>5. \A j \in h : r[j] = {items[j].in} \ {None}
        BY <1>7, <3>4
      <3>6. Onward(r, h) = {items[j].in : j \in h} \ {None}
        BY <3>5 DEF Onward
      <3> QED
        BY <3>2, <3>3, <3>6
    <2> QED
      BY <2>1, <2>2 DEF Steps
  <1>10. \A j \in DOMAIN items : r[j] = {items[j].in} \ {None}
    BY <1>7
  <1>11. \A j \in DOMAIN items : r[j] \in SUBSET S
    BY <1>1, <1>10 DEF Sound
  <1>12. v[N] = u[N] \ {None}
    BY <1>8
  <1>13. PICK H : H = Holders(items, i) /\ H = v[N]
    BY <1>6, <1>12
  <1>14. /\ H \in SUBSET DOMAIN items /\ i \in H /\ Closed(r, H)
         /\ \A C : i \in C /\ Closed(r, C) => H \subseteq C
    <2>1. PICK X : X = DOMAIN items
      OBVIOUS
    <2>2. S \in SUBSET X /\ i \in X /\ \A j \in X : r[j] \in SUBSET S
      BY <1>2, <1>11, <2>1
    <2>3. /\ H \in SUBSET X /\ i \in H /\ Closed(r, H)
          /\ \A C : i \in C /\ Closed(r, C) => H \subseteq C
      BY <1>2, <1>3, <1>9, <1>13, <2>2, StepsClose
    <2> QED
      BY <2>1, <2>3
  <1>15. \A C \in SUBSET DOMAIN items : Closed(r, C) <=> Upward(items, C)
    BY <1>10 DEF Closed, Upward
  <1>16. \A C : Upward(items, C) => C \in SUBSET DOMAIN items
    BY DEF Upward
  <1> QED
    BY <1>13, <1>14, <1>15, <1>16

(* The walk of Walk, in the same way.                                      *)
Along(u, places, p, N) ==
  u = [k \in 0..N |-> IF k = 0 THEN {p} ELSE u[k - 1] \cup UNION {places[q].edges : q \in u[k - 1]}]

LEMMA AlongExists ==
  ASSUME NEW places, NEW p, NEW N \in Nat
  PROVE  \E u : Along(u, places, p, N)
  <1> DEFINE bad == {n \in 0..N : ~ \E u : Along(u, places, p, n)}
  <1>1. bad = {}
    <2> SUFFICES ASSUME bad # {} PROVE FALSE
      OBVIOUS
    <2>1. bad \in SUBSET Nat
      <3>1. bad \subseteq 0..N
        BY Zenon
      <3> QED
        BY <3>1
    <2> HIDE DEF bad
    <2>2. PICK n \in bad : \A k \in bad : n <= k
      BY <2>1, LeastNumber
    <2>3. n \in 0..N /\ n \in Nat
      BY DEF bad
    <2>4. CASE n = 0
      <3>1. Along([k \in 0..0 |-> {p}], places, p, 0)
        BY DEF Along
      <3> QED
        BY <2>4, <3>1 DEF bad
    <2>5. CASE n # 0
      <3>1. PICK m \in Nat : m = n - 1 /\ m \in 0..N /\ ~(n <= m)
        BY <2>3, <2>5
      <3>2. PICK u : Along(u, places, p, m)
        BY <2>2, <3>1 DEF bad
      <3>3. PICK v : v = [k \in 0..n |-> IF k = 0 THEN {p} ELSE u[k - 1] \cup UNION {places[q].edges : q \in u[k - 1]}]
        OBVIOUS
      <3>4. ASSUME NEW k \in 0..m PROVE k \in 0..n /\ v[k] = u[k]
        <4>1. k \in 0..n
          BY <2>3, <3>1
        <4>2. u[k] = IF k = 0 THEN {p} ELSE u[k - 1] \cup UNION {places[q].edges : q \in u[k - 1]}
          BY <3>2 DEF Along
        <4> QED
          BY <3>3, <4>1, <4>2
      <3>5. ASSUME NEW k \in 0..n
            PROVE  v[k] = IF k = 0 THEN {p} ELSE v[k - 1] \cup UNION {places[q].edges : q \in v[k - 1]}
        <4>1. CASE k = 0
          BY <3>3, <4>1
        <4>2. CASE k # 0
          <5>1. k - 1 \in 0..m
            BY <2>3, <3>1, <4>2
          <5>2. v[k - 1] = u[k - 1]
            BY <3>4, <5>1
          <5>3. v[k] = u[k - 1] \cup UNION {places[q].edges : q \in u[k - 1]}
            BY <3>3, <4>2
          <5> QED
            BY <4>2, <5>2, <5>3
        <4> QED
          BY <4>1, <4>2
      <3>6. Along(v, places, p, n)
        BY <3>3, <3>5 DEF Along
      <3> QED
        BY <3>6 DEF bad
    <2> QED
      BY <2>4, <2>5
  <1>2. N \in 0..N
    OBVIOUS
  <1> HIDE DEF bad
  <1> QED
    BY <1>1, <1>2 DEF bad

Neighbours(places) == [q \in DOMAIN places |-> places[q].edges]

LEMMA WalkLeast ==
  ASSUME IsFiniteSet(DOMAIN place), NEW p \in DOMAIN place,
         \A q \in DOMAIN place : place[q].edges \in SUBSET DOMAIN place
  PROVE  /\ p \in Walk(p) /\ Walk(p) \in SUBSET DOMAIN place
         /\ \A q \in Walk(p) : place[q].edges \subseteq Walk(p)
         /\ \A C \in SUBSET DOMAIN place :
              p \in C /\ (\A q \in C : place[q].edges \subseteq C) => Walk(p) \subseteq C
  <1>1. PICK S : S = DOMAIN place
    OBVIOUS
  <1>3. PICK N \in Nat : N = Cardinality(S)
    BY <1>1, FS_CardinalityType
  <1>4. PICK u : u = CHOOSE x : Along(x, place, p, N)
    OBVIOUS
  <1>5. Along(u, place, p, N)
    BY <1>4, AlongExists
  <1>6. Walk(p) = u[N]
    <2>1. Walk(p) = (CHOOSE x : Along(x, place, p, Cardinality(S)))[Cardinality(S)]
      BY <1>1 DEF Walk, Along
    <2> QED
      BY <1>3, <1>4, <2>1
  <1>7. PICK r : r = [q \in (UNION {u[n] : n \in 0..N}) \cup DOMAIN place |-> place[q].edges]
    OBVIOUS
  <1>9. Steps(u, r, p, N)
    <2>1. u[0] = {p}
      BY <1>5 DEF Along
    <2>2. ASSUME NEW n \in 1..N PROVE u[n] = u[n - 1] \cup Onward(r, u[n - 1])
      <3>1. n \in 0..N /\ n - 1 \in 0..N /\ n # 0
        OBVIOUS
      <3>2. u[n] = u[n - 1] \cup UNION {place[q].edges : q \in u[n - 1]}
        BY <1>5, <3>1 DEF Along
      <3>3. PICK h : h = u[n - 1]
        OBVIOUS
      <3>4. \A q \in h : q \in UNION {u[k] : k \in 0..N}
        BY <3>1, <3>3
      <3>5. \A q \in h : r[q] = place[q].edges
        BY <1>7, <3>4
      <3>6. Onward(r, h) = UNION {place[q].edges : q \in h}
        BY <3>5 DEF Onward
      <3> QED
        BY <3>2, <3>3, <3>6
    <2> QED
      BY <2>1, <2>2 DEF Steps
  <1>10. \A q \in DOMAIN place : r[q] = place[q].edges
    BY <1>7
  <1>11. \A q \in S : r[q] \in SUBSET S
    BY <1>1, <1>10
  <1>13. PICK H : H = Walk(p) /\ H = u[N]
    BY <1>6
  <1>14. /\ H \in SUBSET S /\ p \in H /\ Closed(r, H)
         /\ \A C : p \in C /\ Closed(r, C) => H \subseteq C
    <2>1. S \in SUBSET S /\ IsFiniteSet(S) /\ p \in S
      BY <1>1
    <2> QED
      BY <1>3, <1>9, <1>11, <1>13, <2>1, StepsClose
  <1>15. \A C \in SUBSET S : Closed(r, C) <=> \A q \in C : place[q].edges \subseteq C
    BY <1>1, <1>10 DEF Closed
  <1> QED
    BY <1>1, <1>13, <1>14, <1>15

(***************************************************************************)
(* The trees of the items: each owner has one item that is in nothing, its *)
(* inventory root, and an item is only in items of its own owner.          *)
(***************************************************************************)
Rooted(items, chars) ==
  \A i \in DOMAIN items :
    /\ items[i].owner \in DOMAIN chars
    /\ items[i].in = None <=> i = chars[items[i].owner].root
    /\ items[i].in # None => items[items[i].in].owner = items[i].owner

LEMMA HoldersOwner ==
  ASSUME NEW items, Sound(items), NEW chars, Rooted(items, chars), NEW i \in DOMAIN items
  PROVE  \A j \in Holders(items, i) : j \in DOMAIN items /\ items[j].owner = items[i].owner
  <1>1. PICK C : C = {j \in DOMAIN items : items[j].owner = items[i].owner}
    OBVIOUS
  <1>2. Upward(items, C)
    BY <1>1 DEF Upward, Rooted, Sound, Containers
  <1>3. Holders(items, i) \subseteq C
    BY <1>1, <1>2, HoldersLeast
  <1> QED
    BY <1>1, <1>3

LEMMA RootHolds ==
  ASSUME NEW items, Sound(items), NEW chars, Rooted(items, chars), NoCycle(items),
         NEW i \in DOMAIN items
  PROVE  chars[items[i].owner].root \in Holders(items, i)
  <1> SUFFICES ASSUME chars[items[i].owner].root \notin Holders(items, i) PROVE FALSE
    OBVIOUS
  <1>1. PICK H : H = Holders(items, i)
    OBVIOUS
  <1>2. i \in H /\ Upward(items, H)
    BY <1>1, HoldersLeast
  <1>3. ASSUME NEW j \in H PROVE items[j].in \in H /\ items[j].in # None /\ j \in DOMAIN items
    <2>1. j \in DOMAIN items /\ items[j].owner = items[i].owner
      BY <1>1, HoldersOwner
    <2>2. j # chars[items[j].owner].root
      BY <1>1, <2>1
    <2>3. items[j].in # None
      BY <2>1, <2>2 DEF Rooted
    <2> QED
      BY <1>2, <2>1, <2>3 DEF Upward
  <1>4. \A j \in H : IsFiniteSet(Holders(items, j)) /\ Cardinality(Holders(items, j)) \in Nat
    <2> SUFFICES ASSUME NEW j \in H
                 PROVE  IsFiniteSet(Holders(items, j)) /\ Cardinality(Holders(items, j)) \in Nat
      OBVIOUS
    <2>1. Holders(items, j) \in SUBSET DOMAIN items
      BY <1>3, HoldersLeast DEF Upward
    <2>2. IsFiniteSet(DOMAIN items)
      BY DEF Sound
    <2>3. IsFiniteSet(Holders(items, j))
      BY <2>1, <2>2, FS_Subset
    <2> QED
      BY <2>3, FS_CardinalityType
  <1>5. PICK sizes : sizes = {Cardinality(Holders(items, j)) : j \in H}
    OBVIOUS
  <1>6. sizes \in SUBSET Nat /\ sizes # {}
    BY <1>2, <1>4, <1>5
  <1>7. PICK n \in sizes : \A m \in sizes : n <= m
    BY <1>6, LeastNumber
  <1>8. PICK j \in H : Cardinality(Holders(items, j)) = n
    BY <1>5
  <1>9. PICK k \in H : k = items[j].in /\ k # None
    BY <1>3
  <1>10. Holders(items, k) \subseteq Holders(items, j)
    <2>1. j \in Holders(items, j) /\ Upward(items, Holders(items, j))
      BY <1>3, HoldersLeast
    <2>2. k \in Holders(items, j)
      BY <1>9, <2>1 DEF Upward
    <2> QED
      BY <1>3, <2>1, <2>2, HoldersLeast
  <1>11. j \in Holders(items, j) /\ j \notin Holders(items, k)
    <2>1. j \in DOMAIN items
      BY <1>3
    <2> QED
      BY <1>9, <2>1, HoldersLeast DEF NoCycle
  <1>12. PICK T : T = Holders(items, j) \ {j}
    OBVIOUS
  <1>13. IsFiniteSet(T) /\ Cardinality(T) = n - 1
    BY <1>4, <1>8, <1>11, <1>12, FS_RemoveElement
  <1>14. Cardinality(Holders(items, k)) <= n - 1
    <2>1. Holders(items, k) \in SUBSET T
      BY <1>10, <1>11, <1>12
    <2> QED
      BY <1>13, <2>1, FS_Subset
  <1>15. Cardinality(Holders(items, k)) \in sizes
    BY <1>5
  <1>16. PICK m : m = Cardinality(Holders(items, k))
    OBVIOUS
  <1>17. n \in Nat /\ m \in Nat /\ n <= m /\ m <= n - 1
    BY <1>6, <1>7, <1>14, <1>15, <1>16
  <1> QED
    BY <1>17

(* What the owner of c has, c apart: all of it is in c, or in a bag there. *)
Belongings(items, c) == {j \in DOMAIN items \ {c} : items[j].owner = items[c].owner}
Load(items, c) == Weight(items, Belongings(items, c))

LEMMA RootCarries ==
  ASSUME NEW items, Sound(items), NEW chars, Rooted(items, chars), NoCycle(items),
         NEW c \in DOMAIN items, items[c].in = None
  PROVE  container_weight(items, c) = Load(items, c)
  <1>1. c = chars[items[c].owner].root
    BY DEF Rooted
  <1>2. ASSUME NEW j \in DOMAIN items
        PROVE  c \in Holders(items, j) <=> items[j].owner = items[c].owner
    <2>1. c \in Holders(items, j) => items[j].owner = items[c].owner
      BY HoldersOwner
    <2>2. chars[items[j].owner].root \in Holders(items, j)
      BY RootHolds
    <2> QED
      BY <1>1, <2>1, <2>2
  <1>3. {j \in DOMAIN items \ {c} : c \in Holders(items, j)} = Belongings(items, c)
    BY <1>2 DEF Belongings
  <1> QED
    BY <1>3 DEF container_weight, Load

(* What an item is: a record, of a definition, of so many pieces.          *)
IsItem(it) ==
  /\ it = [def |-> it.def, stack |-> it.stack, in |-> it.in, at |-> it.at,
           owner |-> it.owner, slot |-> it.slot]
  /\ it.def \in DOMAIN ItemDefs /\ it.stack \in Nat
AreItems(items) ==
  /\ items = [i \in DOMAIN items |-> items[i]]
  /\ \A i \in DOMAIN items : IsItem(items[i])

LEMMA ItemWeighs ==
  ASSUME NEW items, AreItems(items), NEW i \in DOMAIN items
  PROVE  ItemWeight(items, i) \in Nat
  <1>1. IsItem(items[i])
    BY DEF AreItems
  <1>2. ItemDefs[items[i].def].weight \in Nat /\ items[i].stack \in Nat
    BY <1>1, GameWorldAssumption DEF IsItem
  <1> QED
    BY <1>2 DEF ItemWeight

LEMMA LoadNat ==
  ASSUME NEW items, Sound(items), AreItems(items), NEW c \in DOMAIN items
  PROVE  /\ Belongings(items, c) \in SUBSET DOMAIN items /\ IsFiniteSet(Belongings(items, c))
         /\ Load(items, c) \in Nat
  <1>1. Belongings(items, c) \in SUBSET DOMAIN items
    BY DEF Belongings
  <1>2. IsFiniteSet(Belongings(items, c))
    BY <1>1, FS_Subset DEF Sound
  <1>3. \A x \in Belongings(items, c) : ItemWeight(items, x) \in Nat
    BY <1>1, ItemWeighs
  <1> QED
    BY <1>1, <1>2, <1>3, WeightTakes DEF Load

(* Loads depend on what there is and whose it is, not on where it is.      *)
LEMMA LoadSame ==
  ASSUME NEW items, IsFiniteSet(DOMAIN items), NEW others, DOMAIN items = DOMAIN others,
         \A i \in DOMAIN items :
           /\ items[i].owner = others[i].owner /\ items[i].def = others[i].def
           /\ items[i].stack = others[i].stack,
         NEW c \in DOMAIN items
  PROVE  Load(items, c) = Load(others, c)
  <1>1. PICK T : T = Belongings(items, c)
    OBVIOUS
  <1>2. T = Belongings(others, c)
    BY <1>1 DEF Belongings
  <1>3. T \in SUBSET DOMAIN items /\ T \in SUBSET DOMAIN others
    BY <1>1 DEF Belongings
  <1>4. IsFiniteSet(T)
    BY <1>3, FS_Subset
  <1>5. \A x \in T : ItemWeight(items, x) = ItemWeight(others, x)
    BY <1>3 DEF ItemWeight
  <1>6. Weight(items, T) = Weight(others, T)
    BY <1>3, <1>4, <1>5, WeightSame
  <1> QED
    BY <1>1, <1>2, <1>6 DEF Load

(* Items as they are made, and as they stay: records, in one another, in   *)
(* trees below the roots of their owners.                                  *)
Placed(items, chars) ==
  /\ IsFiniteSet(DOMAIN items) /\ None \notin DOMAIN items
  /\ AreItems(items) /\ Rooted(items, chars)
  /\ \A i \in DOMAIN items : IF items[i].in = None THEN IsContainer(items[i])
                                                   ELSE items[i].in \in DOMAIN items

(* Nobody carries too much.                                                *)
Carried(items) ==
  \A c \in DOMAIN items :
    items[c].in = None => Load(items, c) <= ItemDefs[items[c].def].maxWeight

LEMMA CandidatesFit ==
  ASSUME NEW items, NEW chars, Placed(items, chars), validate_candidate_inventory(items)
  PROVE  Carried(items)
  <1>1. Sound(items) /\ NoCycle(items) /\ Rooted(items, chars)
    BY DEF Placed, validate_candidate_inventory, Sound, Containers
  <1>2. ASSUME NEW c \in DOMAIN items, items[c].in = None
        PROVE  Load(items, c) <= ItemDefs[items[c].def].maxWeight
    <2>1. IsContainer(items[c])
      BY <1>2 DEF Placed
    <2>2. container_weight(items, c) <= ItemDefs[items[c].def].maxWeight
      BY <2>1 DEF validate_candidate_inventory
    <2>3. container_weight(items, c) = Load(items, c)
      BY <1>1, <1>2, RootCarries
    <2> QED
      BY <2>2, <2>3
  <1> QED
    BY <1>2 DEF Carried

(* What h holds is what f and g hold.                                      *)
Joins(h, f, g) ==
  /\ DOMAIN h = DOMAIN f \cup DOMAIN g /\ h = [x \in DOMAIN h |-> h[x]]
  /\ \A x \in DOMAIN f : h[x] = f[x]
  /\ \A x \in DOMAIN g : h[x] = g[x]

LEMMA Merged ==
  ASSUME NEW f, NEW g, (DOMAIN f) \cap (DOMAIN g) = {}
  PROVE  Joins(Merge(f, g), f, g)
  BY DEF Merge, Joins

LEMMA JoinPlaced ==
  ASSUME NEW items, NEW chars, Placed(items, chars), NEW others, NEW more, Placed(others, more),
         (DOMAIN items) \cap (DOMAIN others) = {}, (DOMAIN chars) \cap (DOMAIN more) = {}
  PROVE  Placed(Merge(items, others), Merge(chars, more))
  <1>1. PICK all : all = Merge(items, others)
    OBVIOUS
  <1>2. PICK everyone : everyone = Merge(chars, more)
    OBVIOUS
  <1>3. /\ DOMAIN all = DOMAIN items \cup DOMAIN others /\ all = [i \in DOMAIN all |-> all[i]]
        /\ \A i \in DOMAIN items : all[i] = items[i]
        /\ \A i \in DOMAIN others : all[i] = others[i]
    <2>1. Joins(all, items, others)
      BY <1>1, Merged, Zenon
    <2> QED
      BY <2>1 DEF Joins
  <1>4. /\ DOMAIN everyone = DOMAIN chars \cup DOMAIN more
        /\ \A c \in DOMAIN chars : everyone[c] = chars[c]
        /\ \A c \in DOMAIN more : everyone[c] = more[c]
    <2>1. Joins(everyone, chars, more)
      BY <1>2, Merged, Zenon
    <2> QED
      BY <2>1 DEF Joins
  <1>5. IsFiniteSet(DOMAIN all) /\ None \notin DOMAIN all
    <2>1. IsFiniteSet(DOMAIN items) /\ IsFiniteSet(DOMAIN others)
      BY DEF Placed
    <2>2. IsFiniteSet(DOMAIN items \cup DOMAIN others)
      BY <2>1, FS_Union
    <2> QED
      BY <1>3, <2>2 DEF Placed
  <1>6. AreItems(all)
    BY <1>3 DEF Placed, AreItems
  <1>7. ASSUME NEW i \in DOMAIN all
        PROVE  /\ all[i].owner \in DOMAIN everyone
               /\ all[i].in = None <=> i = everyone[all[i].owner].root
               /\ all[i].in # None => all[all[i].in].owner = all[i].owner
               /\ IF all[i].in = None THEN IsContainer(all[i]) ELSE all[i].in \in DOMAIN all
    <2>1. CASE i \in DOMAIN items
      <3>1. all[i] = items[i] /\ items[i].owner \in DOMAIN chars
        BY <1>3, <2>1 DEF Placed, Rooted
      <3>2. everyone[items[i].owner] = chars[items[i].owner] /\ items[i].owner \in DOMAIN everyone
        BY <1>4, <3>1
      <3>3. items[i].in = None <=> i = chars[items[i].owner].root
        BY <2>1 DEF Placed, Rooted
      <3>4. CASE items[i].in = None
        BY <2>1, <3>1, <3>2, <3>3, <3>4 DEF Placed
      <3>5. CASE items[i].in # None
        <4>1. items[i].in \in DOMAIN items /\ items[items[i].in].owner = items[i].owner
          BY <2>1, <3>5 DEF Placed, Rooted
        <4> QED
          BY <1>3, <3>1, <3>2, <3>3, <3>5, <4>1
      <3> QED
        BY <3>4, <3>5
    <2>2. CASE i \in DOMAIN others
      <3>1. all[i] = others[i] /\ others[i].owner \in DOMAIN more
        BY <1>3, <2>2 DEF Placed, Rooted
      <3>2. everyone[others[i].owner] = more[others[i].owner] /\ others[i].owner \in DOMAIN everyone
        BY <1>4, <3>1
      <3>3. others[i].in = None <=> i = more[others[i].owner].root
        BY <2>2 DEF Placed, Rooted
      <3>4. CASE others[i].in = None
        BY <2>2, <3>1, <3>2, <3>3, <3>4 DEF Placed
      <3>5. CASE others[i].in # None
        <4>1. others[i].in \in DOMAIN others /\ others[others[i].in].owner = others[i].owner
          BY <2>2, <3>5 DEF Placed, Rooted
        <4> QED
          BY <1>3, <3>1, <3>2, <3>3, <3>5, <4>1
      <3> QED
        BY <3>4, <3>5
    <2> QED
      BY <1>3, <2>1, <2>2
  <1>8. Rooted(all, everyone)
    BY <1>7 DEF Rooted
  <1> QED
    BY <1>1, <1>2, <1>5, <1>6, <1>7, <1>8 DEF Placed

(* Items of other owners are no part of a load.                            *)
LEMMA LoadApart ==
  ASSUME NEW items, NEW all, IsFiniteSet(DOMAIN items), DOMAIN items \subseteq DOMAIN all,
         \A i \in DOMAIN items : all[i] = items[i],
         NEW c \in DOMAIN items,
         \A i \in DOMAIN all \ DOMAIN items : all[i].owner # items[c].owner
  PROVE  Load(all, c) = Load(items, c)
  <1>1. PICK T : T = Belongings(items, c)
    OBVIOUS
  <1>2. T = Belongings(all, c)
    BY <1>1 DEF Belongings
  <1>3. T \in SUBSET DOMAIN items /\ T \in SUBSET DOMAIN all
    BY <1>1 DEF Belongings
  <1>4. IsFiniteSet(T)
    BY <1>3, FS_Subset
  <1>5. \A x \in T : ItemWeight(items, x) = ItemWeight(all, x)
    BY <1>3 DEF ItemWeight
  <1>6. Weight(items, T) = Weight(all, T)
    BY <1>3, <1>4, <1>5, WeightSame
  <1> QED
    BY <1>1, <1>2, <1>6 DEF Load

LEMMA JoinCarried ==
  ASSUME NEW items, NEW chars, Placed(items, chars), NEW others, NEW more, Placed(others, more),
         (DOMAIN items) \cap (DOMAIN others) = {}, (DOMAIN chars) \cap (DOMAIN more) = {},
         Carried(items), Carried(others)
  PROVE  Carried(Merge(items, others))
  <1>1. PICK all : all = Merge(items, others)
    OBVIOUS
  <1>3. /\ DOMAIN all = DOMAIN items \cup DOMAIN others
        /\ \A i \in DOMAIN items : all[i] = items[i]
        /\ \A i \in DOMAIN others : all[i] = others[i]
    <2>1. Joins(all, items, others)
      BY <1>1, Merged, Zenon
    <2> QED
      BY <2>1 DEF Joins
  <1>4. /\ \A i \in DOMAIN items : items[i].owner \in DOMAIN chars
        /\ \A i \in DOMAIN others : others[i].owner \in DOMAIN more
    BY DEF Placed, Rooted
  <1>5. IsFiniteSet(DOMAIN items) /\ IsFiniteSet(DOMAIN others)
    BY DEF Placed
  <1>6. ASSUME NEW c \in DOMAIN all, all[c].in = None
        PROVE  Load(all, c) <= ItemDefs[all[c].def].maxWeight
    <2>1. CASE c \in DOMAIN items
      <3>1. \A i \in DOMAIN all \ DOMAIN items : all[i].owner # items[c].owner
        BY <1>3, <1>4, <2>1
      <3>2. Load(all, c) = Load(items, c)
        BY <1>3, <1>5, <2>1, <3>1, LoadApart
      <3> QED
        BY <1>3, <1>6, <2>1, <3>2 DEF Carried
    <2>2. CASE c \in DOMAIN others
      <3>1. \A i \in DOMAIN all \ DOMAIN others : all[i].owner # others[c].owner
        BY <1>3, <1>4, <2>2
      <3>2. Load(all, c) = Load(others, c)
        BY <1>3, <1>5, <2>2, <3>1, LoadApart
      <3> QED
        BY <1>3, <1>6, <2>2, <3>2 DEF Carried
    <2> QED
      BY <1>3, <2>1, <2>2
  <1> QED
    BY <1>1, <1>6 DEF Carried

(* The items of one inventory.                                             *)
LEMMA InventoryPlaced ==
  ASSUME NEW inventory, IsInventory(inventory), NEW id \in Nat, NEW location,
         NEW chars, DOMAIN chars = {id}, chars[id].root = id + 1,
         NEW items, items = InventoryItems(inventory, id, location)
  PROVE  Placed(items, chars) /\ DOMAIN items = (id + 1)..(id + 1 + Len(inventory))
  <1>1. PICK n \in Nat : n = Len(inventory)
    BY DEF IsInventory
  <1>2. DOMAIN items = (id + 1)..(id + 1 + n) /\ items = [i \in DOMAIN items |-> items[i]]
    BY <1>1 DEF InventoryItems
  <1>3. IsFiniteSet(DOMAIN items) /\ None \notin DOMAIN items
    <2>1. id + 1 \in Int /\ id + 1 + n \in Int
      BY <1>1
    <2>2. IsFiniteSet((id + 1)..(id + 1 + n))
      BY <2>1, FS_Interval
    <2> QED
      BY <1>2, <2>2 DEF None
  <1>4. items[id + 1] = [def |-> RootDef, stack |-> 1, in |-> None, at |-> location,
                         owner |-> id, slot |-> NoSlot]
        /\ id + 1 \in DOMAIN items
    <2>1. id + 1 \in (id + 1)..(id + 1 + Len(inventory))
      BY <1>1
    <2> QED
      BY <2>1 DEF InventoryItems
  <1>5. ASSUME NEW i \in DOMAIN items, i # id + 1
        PROVE  \E k \in 1..n :
                 /\ k = i - id - 1
                 /\ items[i] = [def |-> inventory[k].def, stack |-> inventory[k].quantity,
                                in |-> id + 1 + inventory[k].parent, at |-> None,
                                owner |-> id, slot |-> NoSlot]
    <2>1. PICK k \in 1..n : k = i - id - 1
      BY <1>2, <1>5
    <2>2. items[i] = item_from_definition(inventory[k].def, inventory[k].quantity,
                                          id + 1 + inventory[k].parent, id)
      BY <1>1, <1>2, <1>5, <2>1 DEF InventoryItems
    <2> QED
      BY <2>1, <2>2 DEF item_from_definition
  <1>6. ASSUME NEW i \in DOMAIN items
        PROVE  /\ IsItem(items[i]) /\ items[i].owner = id
               /\ items[i].in = None <=> i = id + 1
               /\ IF items[i].in = None THEN IsContainer(items[i]) ELSE items[i].in \in DOMAIN items
    <2>1. CASE i = id + 1
      BY <1>4, <2>1, GameWorldAssumption DEF IsItem, IsContainer
    <2>2. CASE i # id + 1
      <3>1. PICK k \in 1..n :
              items[i] = [def |-> inventory[k].def, stack |-> inventory[k].quantity,
                          in |-> id + 1 + inventory[k].parent, at |-> None,
                          owner |-> id, slot |-> NoSlot]
        BY <1>5, <2>2
      <3>2. /\ inventory[k].def \in DOMAIN ItemDefs /\ inventory[k].quantity \in Nat
            /\ inventory[k].parent \in 0..n
        BY <1>1, <3>1 DEF IsInventory
      <3>3. PICK p \in 0..n : p = inventory[k].parent
        BY <3>2
      <3>4. items[i].in = id + 1 + p
        BY <3>1, <3>3
      <3>5. items[i].in # None /\ items[i].in \in DOMAIN items
        BY <1>2, <3>3, <3>4 DEF None
      <3>6. IsItem(items[i]) /\ items[i].owner = id
        BY <3>1, <3>2 DEF IsItem
      <3> QED
        BY <2>2, <3>5, <3>6
    <2> QED
      BY <2>1, <2>2
  <1>7. AreItems(items)
    BY <1>2, <1>6 DEF AreItems
  <1>8. Rooted(items, chars)
    BY <1>6 DEF Rooted
  <1> QED
    BY <1>1, <1>2, <1>3, <1>6, <1>7, <1>8 DEF Placed

(***************************************************************************)
(* The characters of a scene plan are numbered one after the other, each   *)
(* followed by what it carries.                                            *)
(***************************************************************************)
AreEntries(entries) ==
  /\ Len(entries) \in Nat /\ DOMAIN entries = 1..Len(entries)
  /\ \A k \in 1..Len(entries) : IsInventory(entries[k].inventory)

Numbers(plan, entries, id) ==
  [k \in 1..(Len(entries) + 1) |-> CharacterId(plan, entries, id, k)]

LEMMA SizeNat ==
  ASSUME NEW inventory, IsInventory(inventory)
  PROVE  Size(inventory) \in Nat /\ Size(inventory) = 2 + Len(inventory) /\ Len(inventory) \in Nat
  BY DEF IsInventory, Size

Numbered(plan, entries, id, c) ==
  /\ \A k \in 1..Len(entries) : CharacterId(plan, entries, id, k) = c[k]
  /\ \A k \in 1..(Len(entries) + 1) : c[k] \in Nat /\ c[k] >= id + 1 + Len(plan.edges)
  /\ \A k \in 1..Len(entries) : c[k + 1] = c[k] + Size(entries[k].inventory)
  /\ PlanSize(plan, entries) = c[Len(entries) + 1] - id

LEMMA Numbering ==
  ASSUME NEW plan, Len(plan.edges) \in Nat, NEW entries, AreEntries(entries), NEW id \in Nat,
         NEW c, c = Numbers(plan, entries, id)
  PROVE  Numbered(plan, entries, id, c)
  <1>0. PICK M \in Nat : M = Len(entries)
    BY DEF AreEntries
  <1>1. PICK L \in Nat : L = Len(plan.edges)
    OBVIOUS
  <1>2. \A k \in 1..M : Size(entries[k].inventory) \in Nat
    BY <1>0, SizeNat DEF AreEntries
  <1>3. \A k \in 1..(M + 1) : c[k] = CharacterId(plan, entries, id, k)
    BY <1>0 DEF Numbers
  <1>4. ASSUME NEW k \in 1..(M + 1)
        PROVE  /\ k - 1 \in 0..M /\ c[k] = id + 1 + L + SizeSum(entries, k - 1)
               /\ SizeSum(entries, k - 1) \in Nat
    <2>1. PICK m \in Nat : m = k - 1 /\ m \in 0..M
      OBVIOUS
    <2>2. \A j \in 1..m : Size(entries[j].inventory) \in Nat
      BY <1>2, <2>1
    <2>3. SizeSum(entries, m) \in Nat
      BY <2>2, SizesTake
    <2>4. CharacterId(plan, entries, id, k) = id + 1 + L + SizeSum(entries, k - 1)
      BY <1>1 DEF CharacterId, SizeSum
    <2> QED
      BY <1>3, <2>1, <2>3, <2>4
  <1>5. \A k \in 1..(M + 1) : c[k] \in Nat /\ c[k] >= id + 1 + L
    BY <1>4
  <1>6. ASSUME NEW k \in 1..M PROVE c[k + 1] = c[k] + Size(entries[k].inventory)
    <2>1. k \in 1..(M + 1) /\ k + 1 \in 1..(M + 1) /\ (k + 1) - 1 = k /\ k \in Nat /\ k # 0
      OBVIOUS
    <2>2. \A j \in 1..k : Size(entries[j].inventory) \in Nat
      BY <1>2
    <2>3. SizeSum(entries, k) = SizeSum(entries, k - 1) + Size(entries[k].inventory)
      BY <2>1, <2>2, SizesTake
    <2>4. c[k] = id + 1 + L + SizeSum(entries, k - 1) /\ SizeSum(entries, k - 1) \in Nat
      BY <1>4, <2>1
    <2>5. c[k + 1] = id + 1 + L + SizeSum(entries, k)
      BY <1>4, <2>1
    <2>6. Size(entries[k].inventory) \in Nat
      BY <1>2
    <2> QED
      BY <2>3, <2>4, <2>5, <2>6
  <1>7. PlanSize(plan, entries) = c[M + 1] - id
    <2>1. M + 1 \in 1..(M + 1) /\ (M + 1) - 1 = M
      OBVIOUS
    <2>2. c[M + 1] = id + 1 + L + SizeSum(entries, M) /\ SizeSum(entries, M) \in Nat
      BY <1>4, <2>1
    <2>3. PlanSize(plan, entries) = 1 + L + SizeSum(entries, M)
      BY <1>0, <1>1 DEF PlanSize, SizeSum, AreEntries
    <2> QED
      BY <2>2, <2>3
  <1>8. \A k \in 1..M : CharacterId(plan, entries, id, k) = c[k]
    BY <1>3
  <1> QED
    BY <1>0, <1>1, <1>5, <1>6, <1>7, <1>8 DEF Numbered

LEMMA NumbersGrow ==
  ASSUME NEW M \in Nat, NEW c, \A k \in 1..(M + 1) : c[k] \in Nat,
         NEW s, \A k \in 1..M : s[k] \in Nat /\ c[k + 1] = c[k] + s[k]
  PROVE  \A k \in 1..(M + 1) : \A j \in 1..(k - 1) : c[j] + s[j] <= c[k]
  <1> DEFINE bad == {k \in 1..(M + 1) : \E j \in 1..(k - 1) : ~(c[j] + s[j] <= c[k])}
  <1>1. bad = {}
    <2> SUFFICES ASSUME bad # {} PROVE FALSE
      OBVIOUS
    <2>1. bad \in SUBSET Nat
      <3>1. bad \subseteq 1..(M + 1)
        BY Zenon
      <3> QED
        BY <3>1
    <2> HIDE DEF bad
    <2>2. PICK k \in bad : \A m \in bad : k <= m
      BY <2>1, LeastNumber
    <2>3. k \in 1..(M + 1) /\ k \in Nat
      BY DEF bad
    <2>4. PICK j \in 1..(k - 1) : ~(c[j] + s[j] <= c[k])
      BY DEF bad
    <2>5. PICK m \in 1..M : m = k - 1 /\ k = m + 1 /\ ~(k <= m) /\ m \in 1..(M + 1)
      BY <2>3, <2>4
    <2>6. c[k] = c[m] + s[m] /\ c[m] \in Nat /\ s[m] \in Nat
      BY <2>5
    <2>7. CASE j = m
      BY <2>4, <2>6, <2>7
    <2>8. CASE j # m
      <3>1. j \in 1..(m - 1) /\ j \in 1..M /\ j \in 1..(M + 1)
        BY <2>3, <2>4, <2>5, <2>8
      <3>2. m \notin bad
        BY <2>2, <2>5
      <3>3. c[j] + s[j] <= c[m]
        BY <2>5, <3>1, <3>2 DEF bad
      <3>4. c[j] \in Nat /\ s[j] \in Nat
        BY <3>1
      <3> QED
        BY <2>4, <2>6, <3>3, <3>4
    <2> QED
      BY <2>7, <2>8
  <1> QED
    BY <1>1

(* The items of the k-th character, and the numbers they take.             *)
Part(entries, c, id, k) == InventoryItems(entries[k].inventory, c[k], id + entries[k].place)
Slots(entries, c, k) == (c[k] + 1)..(c[k] + 1 + Len(entries[k].inventory))

(* Characters apart from one another, and from the numbers below id and    *)
(* above the plan's.                                                       *)
Spread(entries, c, id, last) ==
  \A k \in 1..Len(entries) :
    /\ c[k] \in Nat /\ c[k] > id /\ c[k] <= last
    /\ Slots(entries, c, k) \subseteq (id + 1)..last
    /\ \A j \in 1..Len(entries) :
         j # k => c[j] # c[k] /\ Slots(entries, c, j) \cap Slots(entries, c, k) = {}

LEMMA NumbersSpread ==
  ASSUME NEW plan, Len(plan.edges) \in Nat, NEW entries, AreEntries(entries), NEW id \in Nat,
         NEW c, c = Numbers(plan, entries, id)
  PROVE  /\ PlanSize(plan, entries) \in Nat \ {0}
         /\ Spread(entries, c, id, id + PlanSize(plan, entries) - 1)
  <1>1. PICK M \in Nat : M = Len(entries)
    BY DEF AreEntries
  <1>2. PICK s : s = [k \in 1..M |-> Size(entries[k].inventory)]
    OBVIOUS
  <1>3. PICK size : size = PlanSize(plan, entries)
    OBVIOUS
  <1>4. /\ \A k \in 1..(M + 1) : c[k] \in Nat /\ c[k] >= id + 1 + Len(plan.edges)
        /\ \A k \in 1..M : c[k + 1] = c[k] + Size(entries[k].inventory)
        /\ size = c[M + 1] - id
    <2>1. Numbered(plan, entries, id, c)
      BY Numbering
    <2> QED
      BY <1>1, <1>3, <2>1 DEF Numbered
  <1>5. \A k \in 1..M : /\ s[k] = 2 + Len(entries[k].inventory) /\ s[k] \in Nat
                        /\ Len(entries[k].inventory) \in Nat
    BY <1>1, <1>2, SizeNat DEF AreEntries
  <1>6. ASSUME NEW k \in 1..(M + 1) PROVE c[k] \in Nat /\ c[k] > id
    <2>1. PICK L \in Nat : L = Len(plan.edges)
      OBVIOUS
    <2>2. PICK x \in Nat : x = c[k] /\ x >= id + 1 + L
      BY <1>4, <2>1
    <2> QED
      BY <2>2
  <1>7. \A k \in 1..M : s[k] \in Nat /\ c[k + 1] = c[k] + s[k]
    BY <1>2, <1>4, <1>5
  <1>8. \A k \in 1..(M + 1) : \A j \in 1..(k - 1) : c[j] + s[j] <= c[k]
    BY <1>6, <1>7, NumbersGrow
  <1>9. M + 1 \in 1..(M + 1)
    OBVIOUS
  <1>10. size \in Nat \ {0}
    BY <1>4, <1>6, <1>9
  <1>11. ASSUME NEW k \in 1..M
         PROVE  /\ c[k] \in Nat /\ c[k] > id /\ c[k] <= id + size - 1
                /\ Slots(entries, c, k) \subseteq (id + 1)..(id + size - 1)
    <2>1. PICK n \in Nat : n = Len(entries[k].inventory) /\ s[k] = 2 + n
      BY <1>5
    <2>2. c[k] + s[k] <= c[M + 1]
      BY <1>8, <1>9
    <2>3. c[k] \in Nat /\ c[k] > id /\ c[M + 1] \in Nat /\ c[M + 1] = id + size
      BY <1>4, <1>6, <1>9, <1>10
    <2>4. c[k] + 1 + n <= id + size - 1
      BY <1>10, <2>1, <2>2, <2>3
    <2>5. PICK x \in Nat, y \in Int : x = c[k] /\ y = id + size - 1
      BY <1>10, <2>3
    <2>6. Slots(entries, c, k) = (x + 1)..(x + 1 + n)
      BY <2>1, <2>5 DEF Slots
    <2>7. (x + 1)..(x + 1 + n) \subseteq (id + 1)..y
      BY <2>3, <2>4, <2>5
    <2>8. Slots(entries, c, k) \subseteq (id + 1)..(id + size - 1)
      BY <2>5, <2>6, <2>7, Zenon
    <2>9. c[k] <= id + size - 1
      <3>1. x + 1 + n <= y
        BY <2>4, <2>5
      <3>2. x <= y
        BY <2>1, <2>5, <3>1
      <3> QED
        BY <2>5, <3>2
    <2> QED
      BY <2>3, <2>8, <2>9, Zenon
  <1>12. ASSUME NEW k \in 1..M, NEW j \in 1..M, j < k
         PROVE  c[j] # c[k] /\ Slots(entries, c, j) \cap Slots(entries, c, k) = {}
    <2>1. PICK n \in Nat : n = Len(entries[j].inventory) /\ s[j] = 2 + n
      BY <1>5
    <2>2. c[j] + s[j] <= c[k]
      BY <1>8, <1>12
    <2>3. c[j] \in Nat /\ c[k] \in Nat
      BY <1>6
    <2>4. ASSUME NEW i \in Slots(entries, c, j), i \in Slots(entries, c, k) PROVE FALSE
      <3>1. i \in (c[j] + 1)..(c[j] + 1 + n) /\ i >= c[k] + 1
        BY <2>1, <2>3, <2>4 DEF Slots
      <3> QED
        BY <2>1, <2>2, <2>3, <3>1
    <2> QED
      BY <2>1, <2>2, <2>3, <2>4
  <1>13. ASSUME NEW k \in 1..M, NEW j \in 1..M, j # k
         PROVE  c[j] # c[k] /\ Slots(entries, c, j) \cap Slots(entries, c, k) = {}
    <2>1. j < k \/ k < j
      BY <1>13
    <2>2. CASE j < k
      BY <1>12, <2>2
    <2>3. CASE k < j
      <3>1. c[k] # c[j] /\ Slots(entries, c, k) \cap Slots(entries, c, j) = {}
        BY <1>12, <2>3
      <3> QED
        BY <3>1
    <2> QED
      BY <2>1, <2>2, <2>3
  <1> QED
    BY <1>1, <1>3, <1>10, <1>11, <1>13 DEF Spread

Parts(entries, c, id, items, chars) ==
  /\ DOMAIN items = UNION {Slots(entries, c, k) : k \in 1..Len(entries)}
  /\ items = [i \in DOMAIN items |-> items[i]]
  /\ \A k \in 1..Len(entries) : \A i \in Slots(entries, c, k) :
       items[i] = Part(entries, c, id, k)[i]
  /\ DOMAIN chars = {c[k] : k \in 1..Len(entries)}
  /\ chars = [x \in DOMAIN chars |-> chars[x]]
  /\ \A k \in 1..Len(entries) :
       chars[c[k]] = NewCharacter(c[k], entries[k].controller,
                       IF entries[k].persistent THEN Persistent ELSE id,
                       id + entries[k].place)

LEMMA MaterializedParts ==
  ASSUME NEW plan, Len(plan.edges) \in Nat, NEW entries, AreEntries(entries), NEW id \in Nat,
         NEW c, c = Numbers(plan, entries, id), NEW last, Spread(entries, c, id, last),
         NEW items, items = MaterializedItems(plan, entries, id),
         NEW chars, chars = MaterializedCharacters(plan, entries, id)
  PROVE  Parts(entries, c, id, items, chars)
  <1>1. PICK M \in Nat : M = Len(entries) /\ DOMAIN entries = 1..M
    BY DEF AreEntries
  <1>2. \A k \in 1..M : CharacterId(plan, entries, id, k) = c[k]
    <2>1. Numbered(plan, entries, id, c)
      BY Numbering
    <2> QED
      BY <1>1, <2>1 DEF Numbered
  <1>3. \A k \in 1..M : DOMAIN Part(entries, c, id, k) = Slots(entries, c, k)
    BY DEF Part, InventoryItems, Slots
  <1>4. ASSUME NEW k \in 1..M
        PROVE  InventoryItems(entries[k].inventory, CharacterId(plan, entries, id, k),
                              id + entries[k].place) = Part(entries, c, id, k)
    BY <1>2 DEF Part
  <1>5. PICK ids : ids = UNION {DOMAIN InventoryItems(entries[k].inventory,
                                  CharacterId(plan, entries, id, k), id + entries[k].place) :
                                k \in DOMAIN entries}
    OBVIOUS
  <1>6. ids = UNION {Slots(entries, c, k) : k \in 1..M}
    BY <1>1, <1>3, <1>4, <1>5
  <1>7. DOMAIN items = ids /\ items = [i \in DOMAIN items |-> items[i]]
    <2>1. items = [i \in UNION {DOMAIN InventoryItems(entries[k].inventory,
                                    CharacterId(plan, entries, id, k), id + entries[k].place) :
                                  k \in DOMAIN entries} |->
                     InventoryItems(entries[CHOOSE k \in DOMAIN entries :
                                      i \in DOMAIN InventoryItems(entries[k].inventory,
                                        CharacterId(plan, entries, id, k),
                                        id + entries[k].place)].inventory,
                       CharacterId(plan, entries, id,
                         CHOOSE k \in DOMAIN entries :
                           i \in DOMAIN InventoryItems(entries[k].inventory,
                             CharacterId(plan, entries, id, k), id + entries[k].place)),
                       id + entries[CHOOSE k \in DOMAIN entries :
                              i \in DOMAIN InventoryItems(entries[k].inventory,
                                CharacterId(plan, entries, id, k),
                                id + entries[k].place)].place)[i]]
      BY Zenon DEF MaterializedItems
    <2> QED
      BY <1>5, <2>1, Zenon
  <1>8. ASSUME NEW k \in 1..M, NEW i \in Slots(entries, c, k)
        PROVE  items[i] = Part(entries, c, id, k)[i]
    <2> DEFINE Has(m) == i \in DOMAIN InventoryItems(entries[m].inventory,
                                   CharacterId(plan, entries, id, m), id + entries[m].place)
    <2>1. PICK j : j = CHOOSE m \in DOMAIN entries : Has(m)
      OBVIOUS
    <2>2. \A m \in 1..M : Has(m) <=> i \in Slots(entries, c, m)
      BY <1>3, <1>4
    <2>3. k \in DOMAIN entries /\ Has(k)
      BY <1>1, <2>2
    <2>4. j \in DOMAIN entries /\ Has(j)
      <3> HIDE DEF Has
      <3> QED
        BY <2>1, <2>3
    <2>5. j = k
      <3>1. j \in 1..M /\ i \in Slots(entries, c, j)
        BY <1>1, <2>2, <2>4
      <3> QED
        BY <1>1, <3>1 DEF Spread
    <2>6. i \in ids
      BY <1>6
    <2>7. items[i] = InventoryItems(entries[j].inventory, CharacterId(plan, entries, id, j),
                                    id + entries[j].place)[i]
      BY <1>5, <2>1, <2>6 DEF MaterializedItems
    <2> QED
      BY <1>4, <2>5, <2>7
  <1>9. {CharacterId(plan, entries, id, k) : k \in DOMAIN entries} = {c[k] : k \in 1..M}
    BY <1>1, <1>2
  <1>10. DOMAIN chars = {c[k] : k \in 1..M} /\ chars = [x \in DOMAIN chars |-> chars[x]]
    <2>1. PICK who : who = {CharacterId(plan, entries, id, k) : k \in DOMAIN entries}
      OBVIOUS
    <2>2. DOMAIN chars = who /\ chars = [x \in DOMAIN chars |-> chars[x]]
      BY <2>1 DEF MaterializedCharacters
    <2> QED
      BY <1>9, <2>1, <2>2
  <1>11. ASSUME NEW k \in 1..M
         PROVE  chars[c[k]] = NewCharacter(c[k], entries[k].controller,
                                IF entries[k].persistent THEN Persistent ELSE id,
                                id + entries[k].place)
    <2> DEFINE Has(m) == CharacterId(plan, entries, id, m) = c[k]
    <2>1. PICK j : j = CHOOSE m \in DOMAIN entries : Has(m)
      OBVIOUS
    <2>2. \A m \in 1..M : Has(m) <=> c[m] = c[k]
      BY <1>2
    <2>3. k \in DOMAIN entries /\ Has(k)
      BY <1>1, <2>2
    <2>4. j \in DOMAIN entries /\ Has(j)
      <3> HIDE DEF Has
      <3> QED
        BY <2>1, <2>3
    <2>5. j = k
      <3>1. j \in 1..M /\ c[j] = c[k]
        BY <1>1, <2>2, <2>4
      <3> QED
        BY <1>1, <3>1 DEF Spread
    <2>6. c[k] \in {CharacterId(plan, entries, id, m) : m \in DOMAIN entries}
      BY <1>9
    <2>7. chars[c[k]] = NewCharacter(c[k], entries[j].controller,
                          IF entries[j].persistent THEN Persistent ELSE id,
                          id + entries[j].place)
      BY <2>1, <2>6 DEF MaterializedCharacters
    <2> QED
      BY <2>5, <2>7
  <1> QED
    BY <1>1, <1>6, <1>7, <1>8, <1>10, <1>11 DEF Parts

IsCharacter(ch) ==
  ch = [controller |-> ch.controller, lifetime |-> ch.lifetime,
        location |-> ch.location, root |-> ch.root]
AreCharacters(chars) ==
  /\ chars = [c \in DOMAIN chars |-> chars[c]]
  /\ \A c \in DOMAIN chars : IsCharacter(chars[c])

LEMMA NewIsCharacter ==
  ASSUME NEW id, NEW controller, NEW lifetime, NEW location
  PROVE  /\ IsCharacter(NewCharacter(id, controller, lifetime, location))
         /\ NewCharacter(id, controller, lifetime, location).root = id + 1
         /\ NewCharacter(id, controller, lifetime, location).location = location
  BY DEF IsCharacter, NewCharacter

LEMMA MaterializedPlaced ==
  ASSUME NEW plan, Len(plan.edges) \in Nat, NEW entries, AreEntries(entries), NEW id \in Nat,
         NEW last, last = id + PlanSize(plan, entries) - 1,
         NEW items, items = MaterializedItems(plan, entries, id),
         NEW chars, chars = MaterializedCharacters(plan, entries, id)
  PROVE  /\ PlanSize(plan, entries) \in Nat \ {0}
         /\ DOMAIN items \subseteq (id + 1)..last /\ DOMAIN chars \subseteq (id + 1)..last
         /\ Placed(items, chars) /\ AreCharacters(chars)
  <1>1. PICK M \in Nat : M = Len(entries)
    BY DEF AreEntries
  <1>2. PICK c : c = Numbers(plan, entries, id)
    OBVIOUS
  <1>3. PlanSize(plan, entries) \in Nat \ {0} /\ Spread(entries, c, id, last)
    BY <1>2, NumbersSpread
  <1>4. /\ DOMAIN items = UNION {Slots(entries, c, k) : k \in 1..M}
        /\ items = [i \in DOMAIN items |-> items[i]]
        /\ \A k \in 1..M : \A i \in Slots(entries, c, k) : items[i] = Part(entries, c, id, k)[i]
        /\ DOMAIN chars = {c[k] : k \in 1..M} /\ chars = [x \in DOMAIN chars |-> chars[x]]
        /\ \A k \in 1..M : chars[c[k]] = NewCharacter(c[k], entries[k].controller,
                              IF entries[k].persistent THEN Persistent ELSE id,
                              id + entries[k].place)
    <2>1. Parts(entries, c, id, items, chars)
      BY <1>2, <1>3, MaterializedParts
    <2> QED
      BY <1>1, <2>1 DEF Parts
  <1>5. last \in Int
    BY <1>3
  <1>6. DOMAIN items \subseteq (id + 1)..last
    BY <1>1, <1>3, <1>4 DEF Spread
  <1>7. DOMAIN chars \subseteq (id + 1)..last
    BY <1>1, <1>3, <1>4, <1>5 DEF Spread
  <1>8. IsFiniteSet(DOMAIN items) /\ None \notin DOMAIN items
    <2>1. IsFiniteSet((id + 1)..last)
      BY <1>5, FS_Interval
    <2> QED
      BY <1>5, <1>6, <2>1, FS_Subset DEF None
  <1>9. AreCharacters(chars)
    <2>1. ASSUME NEW k \in 1..M PROVE IsCharacter(chars[c[k]])
      BY <1>4, NewIsCharacter
    <2> QED
      BY <1>4, <2>1 DEF AreCharacters
  <1>10. ASSUME NEW k \in 1..M
         PROVE  \E own, one :
                  /\ Placed(own, one) /\ DOMAIN own = Slots(entries, c, k)
                  /\ \A i \in DOMAIN own : i \in DOMAIN items /\ items[i] = own[i]
                  /\ DOMAIN one = {c[k]} /\ one[c[k]] = chars[c[k]] /\ c[k] \in DOMAIN chars
    <2>1. PICK own : own = Part(entries, c, id, k)
      OBVIOUS
    <2>2. PICK one : one = [x \in {c[k]} |-> chars[x]]
      OBVIOUS
    <2>3. DOMAIN one = {c[k]} /\ one[c[k]] = chars[c[k]] /\ c[k] \in DOMAIN chars
      BY <1>4, <2>2
    <2>4. one[c[k]].root = c[k] + 1
      BY <1>4, <2>3, NewIsCharacter
    <2>5. c[k] \in Nat /\ IsInventory(entries[k].inventory)
      BY <1>1, <1>3 DEF Spread, AreEntries
    <2>6. /\ Placed(own, one)
          /\ DOMAIN own = (c[k] + 1)..(c[k] + 1 + Len(entries[k].inventory))
      <3>1. own = InventoryItems(entries[k].inventory, c[k], id + entries[k].place)
        BY <2>1 DEF Part
      <3>2. PICK inventory, x, location :
              /\ inventory = entries[k].inventory /\ x = c[k] /\ location = id + entries[k].place
        OBVIOUS
      <3>3. /\ IsInventory(inventory) /\ x \in Nat /\ own = InventoryItems(inventory, x, location)
            /\ DOMAIN one = {x} /\ one[x].root = x + 1
        BY <2>3, <2>4, <2>5, <3>1, <3>2
      <3>4. Placed(own, one) /\ DOMAIN own = (x + 1)..(x + 1 + Len(inventory))
        BY <3>3, InventoryPlaced
      <3> QED
        BY <3>2, <3>4
    <2>7. DOMAIN own = Slots(entries, c, k)
      BY <2>6 DEF Slots
    <2>8. \A i \in DOMAIN own : i \in DOMAIN items /\ items[i] = own[i]
      BY <1>4, <2>1, <2>7
    <2> QED
      BY <2>3, <2>6, <2>7, <2>8
  <1>11. ASSUME NEW i \in DOMAIN items
         PROVE  /\ IsItem(items[i]) /\ items[i].owner \in DOMAIN chars
                /\ items[i].in = None <=> i = chars[items[i].owner].root
                /\ items[i].in # None => items[items[i].in].owner = items[i].owner
                /\ IF items[i].in = None THEN IsContainer(items[i]) ELSE items[i].in \in DOMAIN items
    <2>1. PICK k \in 1..M : i \in Slots(entries, c, k)
      BY <1>4
    <2>2. PICK own, one :
            /\ Placed(own, one) /\ i \in DOMAIN own
            /\ \A j \in DOMAIN own : j \in DOMAIN items /\ items[j] = own[j]
            /\ DOMAIN one = {c[k]} /\ one[c[k]] = chars[c[k]] /\ c[k] \in DOMAIN chars
      BY <1>10, <2>1
    <2>3. items[i] = own[i] /\ own[i].owner = c[k]
      BY <2>2 DEF Placed, Rooted
    <2>4. own[i].in = None <=> i = chars[c[k]].root
      BY <2>2, <2>3 DEF Placed, Rooted
    <2>5. IsItem(own[i])
      BY <2>2 DEF Placed, AreItems
    <2>6. CASE own[i].in = None
      <3>1. IsContainer(own[i])
        BY <2>2, <2>6 DEF Placed
      <3> QED
        BY <2>2, <2>3, <2>4, <2>5, <2>6, <3>1
    <2>7. CASE own[i].in # None
      <3>1. own[i].in \in DOMAIN own /\ own[own[i].in].owner = c[k]
        BY <2>2, <2>3, <2>7 DEF Placed, Rooted
      <3>2. items[own[i].in] = own[own[i].in] /\ own[i].in \in DOMAIN items
        BY <2>2, <3>1
      <3> QED
        BY <2>2, <2>3, <2>4, <2>5, <2>7, <3>1, <3>2
    <2> QED
      BY <2>6, <2>7
  <1>12. AreItems(items)
    BY <1>4, <1>11 DEF AreItems
  <1>13. Rooted(items, chars)
    BY <1>11 DEF Rooted
  <1>14. Placed(items, chars)
    BY <1>8, <1>11, <1>12, <1>13 DEF Placed
  <1> QED
    BY <1>3, <1>6, <1>7, <1>9, <1>14

(* The characters of a plan without its player.                            *)
NpcLoop(u, plan, N) ==
  u = [k \in 0..N |->
         IF k = 0 THEN << >>
         ELSE IF IsPlayer(plan.characters[k]) THEN u[k - 1]
         ELSE Append(u[k - 1], plan.characters[k])]

LEMMA NpcLoopExists ==
  ASSUME NEW plan, NEW N \in Nat
  PROVE  \E u : NpcLoop(u, plan, N)
  <1> DEFINE bad == {n \in 0..N : ~ \E u : NpcLoop(u, plan, n)}
  <1>1. bad = {}
    <2> SUFFICES ASSUME bad # {} PROVE FALSE
      OBVIOUS
    <2>1. bad \in SUBSET Nat
      <3>1. bad \subseteq 0..N
        BY Zenon
      <3> QED
        BY <3>1
    <2> HIDE DEF bad
    <2>2. PICK n \in bad : \A k \in bad : n <= k
      BY <2>1, LeastNumber
    <2>3. n \in 0..N /\ n \in Nat
      BY DEF bad
    <2>4. CASE n = 0
      <3>1. NpcLoop([k \in 0..0 |-> << >>], plan, 0)
        BY DEF NpcLoop
      <3> QED
        BY <2>4, <3>1 DEF bad
    <2>5. CASE n # 0
      <3>1. PICK m \in Nat : m = n - 1 /\ m \in 0..N /\ ~(n <= m)
        BY <2>3, <2>5
      <3>2. PICK u : NpcLoop(u, plan, m)
        BY <2>2, <3>1 DEF bad
      <3>3. PICK v : v = [k \in 0..n |-> IF k = 0 THEN << >> ELSE (IF IsPlayer(plan.characters[k]) THEN u[k - 1] ELSE Append(u[k - 1], plan.characters[k]))]
        OBVIOUS
      <3>4. ASSUME NEW k \in 0..m PROVE k \in 0..n /\ v[k] = u[k]
        <4>1. k \in 0..n
          BY <2>3, <3>1
        <4>2. u[k] = IF k = 0 THEN << >> ELSE (IF IsPlayer(plan.characters[k]) THEN u[k - 1] ELSE Append(u[k - 1], plan.characters[k]))
          BY <3>2 DEF NpcLoop
        <4> QED
          BY <3>3, <4>1, <4>2
      <3>5. ASSUME NEW k \in 0..n
            PROVE  v[k] = IF k = 0 THEN << >> ELSE (IF IsPlayer(plan.characters[k]) THEN v[k - 1] ELSE Append(v[k - 1], plan.characters[k]))
        <4>1. CASE k = 0
          BY <3>3, <4>1
        <4>2. CASE k # 0
          <5>1. k - 1 \in 0..m
            BY <2>3, <3>1, <4>2
          <5>2. v[k - 1] = u[k - 1]
            BY <3>4, <5>1
          <5>3. v[k] = (IF IsPlayer(plan.characters[k]) THEN u[k - 1] ELSE Append(u[k - 1], plan.characters[k]))
            BY <3>3, <4>2
          <5> QED
            BY <4>2, <5>2, <5>3
        <4> QED
          BY <4>1, <4>2
      <3>6. NpcLoop(v, plan, n)
        BY <3>3, <3>5 DEF NpcLoop
      <3> QED
        BY <3>6 DEF bad
    <2> QED
      BY <2>4, <2>5
  <1>2. N \in 0..N
    OBVIOUS
  <1> HIDE DEF bad
  <1> QED
    BY <1>1, <1>2 DEF bad

LEMMA NpcsAreEntries ==
  ASSUME NEW d \in DOMAIN Plans
  PROVE  AreEntries(Plans[d].characters) /\ AreEntries(NpcEntries(Plans[d]))
  <1>1. PICK plan : plan = Plans[d]
    OBVIOUS
  <1>2. PICK S : S = Range(plan.characters)
    OBVIOUS
  <1>3. plan.characters \in Seq(S) /\ \A e \in S : IsInventory(e.inventory)
    BY <1>1, <1>2, GameWorldAssumption
  <1>4. ASSUME NEW s \in Seq(S) PROVE AreEntries(s)
    <2>1. Len(s) \in Nat /\ DOMAIN s = 1..Len(s) /\ \A k \in 1..Len(s) : s[k] \in S
      BY LenProperties, ElementOfSeq
    <2> QED
      BY <1>3, <2>1 DEF AreEntries
  <1>5. PICK N \in Nat : N = Len(plan.characters) /\ \A k \in 1..N : plan.characters[k] \in S
    BY <1>3, LenProperties, ElementOfSeq
  <1>6. PICK u : u = CHOOSE x : NpcLoop(x, plan, N)
    OBVIOUS
  <1>7. NpcLoop(u, plan, N)
    BY <1>6, NpcLoopExists
  <1>8. NpcEntries(plan) = u[N]
    <2>1. NpcEntries(plan) = (CHOOSE x : NpcLoop(x, plan, Len(plan.characters)))[Len(plan.characters)]
      BY DEF NpcEntries, NpcLoop
    <2> QED
      BY <1>5, <1>6, <2>1
  <1> DEFINE bad == {k \in 0..N : u[k] \notin Seq(S)}
  <1>9. bad = {}
    <2> SUFFICES ASSUME bad # {} PROVE FALSE
      OBVIOUS
    <2>1. bad \in SUBSET Nat
      OBVIOUS
    <2> HIDE DEF bad
    <2>2. PICK k \in bad : \A m \in bad : k <= m
      BY <2>1, LeastNumber
    <2>3. k \in 0..N /\ k \in Nat /\ u[k] \notin Seq(S)
      BY DEF bad
    <2>4. u[k] = IF k = 0 THEN << >>
                 ELSE IF IsPlayer(plan.characters[k]) THEN u[k - 1]
                 ELSE Append(u[k - 1], plan.characters[k])
      BY <1>7, <2>3 DEF NpcLoop
    <2>5. k # 0
      BY <2>3, <2>4
    <2>6. k - 1 \in 0..N /\ ~(k <= k - 1) /\ k \in 1..N
      BY <2>3, <2>5
    <2>7. u[k - 1] \in Seq(S)
      BY <2>2, <2>6 DEF bad
    <2>8. Append(u[k - 1], plan.characters[k]) \in Seq(S)
      <3>1. plan.characters[k] \in S
        BY <1>5, <2>6
      <3> QED
        BY <2>7, <3>1, AppendProperties
    <2> QED
      BY <2>3, <2>4, <2>5, <2>7, <2>8
  <1>10. N \in 0..N
    OBVIOUS
  <1>11. u[N] \in Seq(S)
    BY <1>9, <1>10
  <1> QED
    BY <1>1, <1>3, <1>4, <1>8, <1>11

(* What a step may do to the items and the characters and leave them       *)
(* placed: records of the same characters with the same roots,             *)
LEMMA SameRoots ==
  ASSUME NEW items, NEW chars, Placed(items, chars), NEW others, DOMAIN others = DOMAIN chars,
         \A c \in DOMAIN chars : others[c].root = chars[c].root
  PROVE  Placed(items, others)
  BY DEF Placed, Rooted

(* items of the same owners and definitions that go from where they are to *)
(* an item of the same owner,                                              *)
Rearranged(items, others) ==
  /\ others = [i \in DOMAIN items |-> others[i]]
  /\ \A i \in DOMAIN items :
       /\ IsItem(others[i])
       /\ others[i].owner = items[i].owner /\ others[i].def = items[i].def
       /\ others[i].in # items[i].in =>
            /\ items[i].in # None /\ others[i].in # None /\ others[i].in \in DOMAIN items
            /\ items[others[i].in].owner = items[i].owner

LEMMA RearrangedPlaced ==
  ASSUME NEW items, NEW chars, Placed(items, chars), NEW others, Rearranged(items, others)
  PROVE  Placed(others, chars)
  <1>1. DOMAIN others = DOMAIN items /\ others = [i \in DOMAIN others |-> others[i]]
    BY DEF Rearranged
  <1>2. AreItems(others)
    BY <1>1 DEF Rearranged, AreItems
  <1>3. ASSUME NEW i \in DOMAIN items
        PROVE  /\ others[i].owner \in DOMAIN chars
               /\ others[i].in = None <=> i = chars[others[i].owner].root
               /\ others[i].in # None => others[others[i].in].owner = others[i].owner
               /\ IF others[i].in = None THEN IsContainer(others[i]) ELSE others[i].in \in DOMAIN others
    <2>1. others[i].owner = items[i].owner /\ others[i].def = items[i].def
      BY DEF Rearranged
    <2>2. items[i].owner \in DOMAIN chars /\ (items[i].in = None <=> i = chars[items[i].owner].root)
      BY DEF Placed, Rooted
    <2>3. CASE others[i].in = items[i].in
      <3>1. CASE items[i].in = None
        BY <2>1, <2>2, <2>3, <3>1 DEF Placed, IsContainer
      <3>2. CASE items[i].in # None
        <4>1. items[i].in \in DOMAIN items /\ items[items[i].in].owner = items[i].owner
          BY <3>2 DEF Placed, Rooted
        <4>2. others[items[i].in].owner = items[items[i].in].owner
          BY <4>1 DEF Rearranged
        <4> QED
          BY <1>1, <2>1, <2>2, <2>3, <3>2, <4>1, <4>2
      <3> QED
        BY <3>1, <3>2
    <2>4. CASE others[i].in # items[i].in
      <3>1. /\ items[i].in # None /\ others[i].in # None /\ others[i].in \in DOMAIN items
            /\ items[others[i].in].owner = items[i].owner
        BY <2>4 DEF Rearranged
      <3>2. others[others[i].in].owner = items[others[i].in].owner
        BY <3>1 DEF Rearranged
      <3> QED
        BY <1>1, <2>1, <2>2, <3>1, <3>2
    <2> QED
      BY <2>3, <2>4
  <1>4. Rooted(others, chars)
    BY <1>1, <1>3 DEF Rooted
  <1> QED
    BY <1>1, <1>2, <1>3, <1>4 DEF Placed

LEMMA RearrangedCarried ==
  ASSUME NEW items, NEW chars, Placed(items, chars), NEW others, Rearranged(items, others),
         \A i \in DOMAIN items : others[i].stack = items[i].stack, Carried(items)
  PROVE  Carried(others)
  <1>1. DOMAIN others = DOMAIN items
    BY DEF Rearranged
  <1>2. ASSUME NEW c \in DOMAIN others, others[c].in = None
        PROVE  Load(others, c) <= ItemDefs[others[c].def].maxWeight
    <2>1. c \in DOMAIN items /\ items[c].in = None /\ items[c].def = others[c].def
      BY <1>1, <1>2 DEF Rearranged
    <2>2. Load(items, c) = Load(others, c)
      <3>1. IsFiniteSet(DOMAIN items)
        BY DEF Placed
      <3>2. \A i \in DOMAIN items :
              /\ items[i].owner = others[i].owner /\ items[i].def = others[i].def
              /\ items[i].stack = others[i].stack
        BY DEF Rearranged
      <3> QED
        BY <1>1, <2>1, <3>1, <3>2, LoadSame
    <2>3. Load(items, c) <= ItemDefs[items[c].def].maxWeight
      BY <2>1 DEF Carried
    <2> QED
      BY <2>1, <2>2, <2>3
  <1> QED
    BY <1>2 DEF Carried

(* and one item more, in an item of its owner.                             *)
Fresh(items, chars, n, it) ==
  /\ n \notin DOMAIN items /\ n # None /\ IsItem(it)
  /\ it.owner \in DOMAIN chars /\ chars[it.owner].root # n
  /\ it.in # None /\ it.in \in DOMAIN items /\ items[it.in].owner = it.owner

With(all, items, n, it) ==
  /\ DOMAIN all = DOMAIN items \cup {n} /\ all = [i \in DOMAIN all |-> all[i]]
  /\ all[n] = it /\ \A i \in DOMAIN items : all[i] = items[i]

LEMMA OneMore ==
  ASSUME NEW items, NEW n, n \notin DOMAIN items, NEW it
  PROVE  With(Merge(items, One(n, it)), items, n, it)
  BY DEF Merge, One, With

LEMMA FreshPlaced ==
  ASSUME NEW items, NEW chars, Placed(items, chars), NEW n, NEW it, Fresh(items, chars, n, it),
         NEW all, all = Merge(items, One(n, it))
  PROVE  Placed(all, chars)
  <1>1. /\ DOMAIN all = DOMAIN items \cup {n} /\ all = [i \in DOMAIN all |-> all[i]]
        /\ all[n] = it /\ \A i \in DOMAIN items : all[i] = items[i]
    <2>1. n \notin DOMAIN items
      BY DEF Fresh
    <2>2. With(all, items, n, it)
      BY <2>1, OneMore, Zenon
    <2> QED
      BY <2>2 DEF With
  <1>2. IsFiniteSet(DOMAIN all) /\ None \notin DOMAIN all
    <2>1. IsFiniteSet(DOMAIN items \cup {n})
      BY FS_AddElement DEF Placed
    <2> QED
      BY <1>1, <2>1 DEF Placed, Fresh
  <1>3. AreItems(all)
    BY <1>1 DEF AreItems, Placed, Fresh
  <1>4. ASSUME NEW i \in DOMAIN all
        PROVE  /\ all[i].owner \in DOMAIN chars
               /\ all[i].in = None <=> i = chars[all[i].owner].root
               /\ all[i].in # None => all[all[i].in].owner = all[i].owner
               /\ IF all[i].in = None THEN IsContainer(all[i]) ELSE all[i].in \in DOMAIN all
    <2>1. CASE i \in DOMAIN items
      <3>1. all[i] = items[i] /\ items[i].owner \in DOMAIN chars
            /\ (items[i].in = None <=> i = chars[items[i].owner].root)
        BY <1>1, <2>1 DEF Placed, Rooted
      <3>2. CASE items[i].in = None
        BY <2>1, <3>1, <3>2 DEF Placed
      <3>3. CASE items[i].in # None
        <4>1. items[i].in \in DOMAIN items /\ items[items[i].in].owner = items[i].owner
          BY <2>1, <3>3 DEF Placed, Rooted
        <4> QED
          BY <1>1, <3>1, <3>3, <4>1
      <3> QED
        BY <3>2, <3>3
    <2>2. CASE i = n
      BY <1>1, <2>2 DEF Fresh
    <2> QED
      BY <1>1, <2>1, <2>2
  <1>5. Rooted(all, chars)
    BY <1>4 DEF Rooted
  <1> QED
    BY <1>2, <1>3, <1>4, <1>5 DEF Placed

(* The load with an item more of the same owner.                           *)
LEMMA FreshLoad ==
  ASSUME NEW items, NEW chars, Placed(items, chars), NEW n, NEW it, Fresh(items, chars, n, it),
         NEW all, all = Merge(items, One(n, it)), NEW c \in DOMAIN items
  PROVE  /\ Load(items, c) \in Nat
         /\ items[c].owner # it.owner => Load(all, c) = Load(items, c)
         /\ items[c].owner = it.owner
              => Load(all, c) = ItemDefs[it.def].weight * it.stack + Load(items, c)
  <1>1. /\ DOMAIN all = DOMAIN items \cup {n} /\ all[n] = it
        /\ \A i \in DOMAIN items : all[i] = items[i]
    <2>1. n \notin DOMAIN items
      BY DEF Fresh
    <2>2. With(all, items, n, it)
      BY <2>1, OneMore, Zenon
    <2> QED
      BY <2>2 DEF With
  <1>2. n \notin DOMAIN items /\ IsFiniteSet(DOMAIN items)
    BY DEF Fresh, Placed
  <1>3. PICK T : T = Belongings(items, c)
    OBVIOUS
  <1>4. T \in SUBSET DOMAIN items /\ IsFiniteSet(T)
    BY <1>2, <1>3, FS_Subset DEF Belongings
  <1>5. Load(items, c) \in Nat
    <2>1. \A x \in T : ItemWeight(items, x) \in Nat
      BY <1>4, ItemWeighs DEF Placed
    <2>2. Weight(items, T) \in Nat
      BY <1>4, <2>1, WeightTakes
    <2> QED
      BY <1>3, <2>2 DEF Load
  <1>6. ASSUME items[c].owner # it.owner PROVE Load(all, c) = Load(items, c)
    <2>1. \A i \in DOMAIN all \ DOMAIN items : all[i].owner # items[c].owner
      BY <1>1, <1>6
    <2>2. DOMAIN items \subseteq DOMAIN all
      BY <1>1
    <2> QED
      BY <1>1, <1>2, <2>1, <2>2, LoadApart
  <1>7. ASSUME items[c].owner = it.owner
        PROVE  Load(all, c) = ItemDefs[it.def].weight * it.stack + Load(items, c)
    <2>1. PICK U : U = Belongings(all, c)
      OBVIOUS
    <2>2. U = T \cup {n} /\ n \in U /\ U \ {n} = T /\ U \in SUBSET DOMAIN all
      BY <1>1, <1>2, <1>3, <1>7, <2>1 DEF Belongings
    <2>3. IsFiniteSet(U)
      BY <1>4, <2>2, FS_AddElement
    <2>4. AreItems(all)
      BY FreshPlaced DEF Placed
    <2>5. \A x \in U : ItemWeight(all, x) \in Nat
      BY <2>2, <2>4, ItemWeighs
    <2>6. Weight(all, U) = ItemWeight(all, n) + Weight(all, T)
      BY <2>2, <2>3, <2>5, WeightTakes
    <2>7. ItemWeight(all, n) = ItemDefs[it.def].weight * it.stack
      BY <1>1 DEF ItemWeight
    <2>8. Weight(all, T) = Weight(items, T)
      <3>1. \A x \in T : ItemWeight(items, x) = ItemWeight(all, x)
        BY <1>1, <1>4 DEF ItemWeight
      <3>2. T \in SUBSET DOMAIN all
        BY <1>1, <1>4
      <3> QED
        BY <1>4, <3>1, <3>2, WeightSame
    <2> QED
      BY <1>3, <2>1, <2>6, <2>7, <2>8 DEF Load
  <1> QED
    BY <1>5, <1>6, <1>7

(***************************************************************************)
(* The invariant.  Objects are numbered up to objects; what validate asks  *)
(* holds; items are placed, and nobody carries too much.                   *)
(***************************************************************************)
ObjectsNumbered ==
  /\ objects \in Nat
  /\ DOMAIN scene \subseteq 1..objects /\ DOMAIN place \subseteq 1..objects
  /\ DOMAIN char \subseteq 1..objects /\ DOMAIN item \subseteq 1..objects
ItemsInv ==
  /\ ObjectsNumbered /\ AreCharacters(char) /\ validate
  /\ Placed(item, char) /\ Carried(item)

LEMMA ItemFacts ==
  ASSUME ItemsInv
  PROVE  /\ Sound(item) /\ NoCycle(item) /\ Rooted(item, char)
         /\ First \in Nat /\ First # None /\ First \notin DOMAIN item /\ First \notin DOMAIN char
         /\ First \notin DOMAIN place /\ First \notin DOMAIN scene
         /\ \A a \in DOMAIN char :
              /\ a # None /\ IsCharacter(char[a])
              /\ char[a].root \in DOMAIN item /\ item[char[a].root].in = None
              /\ item[char[a].root].owner = a /\ IsContainer(item[char[a].root])
              /\ container_weight(item, char[a].root) = Load(item, char[a].root)
              /\ Load(item, char[a].root) <= ItemDefs[item[char[a].root].def].maxWeight
  <1>1. Sound(item) /\ NoCycle(item) /\ Rooted(item, char)
    BY DEF ItemsInv, Placed, validate, ValidItems, Sound, Containers
  <1>2. First \in Nat /\ First # None /\ First \notin 1..objects
    BY DEF ItemsInv, ObjectsNumbered, First, None
  <1>3. ASSUME NEW a \in DOMAIN char
        PROVE  /\ a # None /\ IsCharacter(char[a])
               /\ char[a].root \in DOMAIN item /\ item[char[a].root].in = None
               /\ item[char[a].root].owner = a /\ IsContainer(item[char[a].root])
               /\ container_weight(item, char[a].root) = Load(item, char[a].root)
               /\ Load(item, char[a].root) <= ItemDefs[item[char[a].root].def].maxWeight
    <2>1. a # None /\ IsCharacter(char[a])
      BY DEF ItemsInv, ObjectsNumbered, AreCharacters, None
    <2>2. PICK c : c = char[a].root
      OBVIOUS
    <2>3. c \in DOMAIN item /\ item[c].owner = a /\ IsContainer(item[c])
      BY <2>2 DEF ItemsInv, validate, ValidCharacters
    <2>4. item[c].in = None
      BY <1>1, <2>2, <2>3 DEF Rooted
    <2>5. container_weight(item, c) = Load(item, c)
      BY <1>1, <2>3, <2>4, RootCarries
    <2>6. Load(item, c) <= ItemDefs[item[c].def].maxWeight
      BY <2>3, <2>4 DEF ItemsInv, Carried
    <2> QED
      BY <2>1, <2>2, <2>3, <2>4, <2>5, <2>6
  <1> QED
    BY <1>1, <1>2, <1>3 DEF ItemsInv, ObjectsNumbered

LEMMA ItemsGiveTree ==
  ASSUME ItemsInv
  PROVE  InventoryTree /\ CarriedWithinCapacity
  <1>1. ASSUME NEW i \in DOMAIN item
        PROVE  /\ char[item[i].owner].root \in Holders(item, i)
               /\ i = char[item[i].owner].root => item[i].in = None
    <2>1. char[item[i].owner].root \in Holders(item, i)
      BY ItemFacts, RootHolds
    <2>2. i = char[item[i].owner].root => item[i].in = None
      BY ItemFacts DEF Rooted
    <2> QED
      BY <2>1, <2>2
  <1>2. ASSUME NEW c \in DOMAIN char
        PROVE  container_weight(item, char[c].root) <= ItemDefs[item[char[c].root].def].maxWeight
    BY ItemFacts
  <1> QED
    BY <1>1, <1>2 DEF InventoryTree, CarriedWithinCapacity

(* What a step needs to keep the invariant, when it creates n objects.     *)
LEMMA DomainsKept ==
  ASSUME ItemsInv, NEW n \in Nat, objects' = objects + n,
         DOMAIN scene' \subseteq DOMAIN scene \cup (First..(objects + n)),
         DOMAIN place' \subseteq DOMAIN place \cup (First..(objects + n)),
         DOMAIN char' \subseteq DOMAIN char \cup (First..(objects + n)),
         DOMAIN item' \subseteq DOMAIN item \cup (First..(objects + n))
  PROVE  ObjectsNumbered'
  <1>1. objects \in Nat /\ 1..objects \subseteq 1..(objects + n)
        /\ First..(objects + n) \subseteq 1..(objects + n)
    BY DEF ItemsInv, ObjectsNumbered, First
  <1> QED
    BY <1>1 DEF ItemsInv, ObjectsNumbered

LEMMA DomainsSame ==
  ASSUME ItemsInv, objects' = objects,
         DOMAIN scene' = DOMAIN scene, DOMAIN place' = DOMAIN place,
         DOMAIN char' = DOMAIN char, DOMAIN item' = DOMAIN item
  PROVE  ObjectsNumbered'
  BY DEF ItemsInv, ObjectsNumbered

LEMMA ItemsInvFrame ==
  ASSUME ItemsInv, UNCHANGED gameVars
  PROVE  ItemsInv'
  <1>1. ObjectsNumbered'
    BY DEF ItemsInv, ObjectsNumbered, gameVars
  <1>2. validate'
    BY DEF ItemsInv, validate, ValidScenes, ValidPlaces, ValidCharacters, ValidItems, gameVars
  <1>3. char' = char /\ item' = item
    BY DEF gameVars
  <1> QED
    BY <1>1, <1>2, <1>3 DEF ItemsInv

(* A field of a character other than its root.                             *)
Changed(chars, a, x, others) ==
  \/ others = [chars EXCEPT ![a].location = x]
  \/ others = [chars EXCEPT ![a].lifetime = x]

LEMMA CharacterChanged ==
  ASSUME NEW chars, AreCharacters(chars), NEW a \in DOMAIN chars, NEW x,
         NEW others, Changed(chars, a, x, others)
  PROVE  /\ AreCharacters(others) /\ DOMAIN others = DOMAIN chars
         /\ \A c \in DOMAIN chars : others[c].root = chars[c].root
  <1>1. DOMAIN others = DOMAIN chars /\ others = [c \in DOMAIN others |-> others[c]]
    BY DEF Changed
  <1>2. ASSUME NEW c \in DOMAIN chars
        PROVE  IsCharacter(others[c]) /\ others[c].root = chars[c].root
    <2>1. PICK ch : ch = chars[c] /\ IsCharacter(ch)
      BY DEF AreCharacters
    <2>2. \/ others[c] = ch \/ others[c] = [ch EXCEPT !.location = x]
          \/ others[c] = [ch EXCEPT !.lifetime = x]
      BY <2>1 DEF Changed
    <2>3. PICK p, q, r, s : ch = [controller |-> p, lifetime |-> q, location |-> r, root |-> s]
      BY <2>1 DEF IsCharacter
    <2> QED
      BY <2>1, <2>2, <2>3 DEF IsCharacter
  <1> QED
    BY <1>1, <1>2 DEF AreCharacters

LEMMA CharactersStep ==
  ASSUME ItemsInv, validate', NEW a \in DOMAIN char, NEW x,
         Changed(char, a, x, char'),
         UNCHANGED <<scene, place, item, objects>>
  PROVE  ItemsInv'
  <1>1. AreCharacters(char)
    BY DEF ItemsInv
  <1>2. /\ AreCharacters(char') /\ DOMAIN char' = DOMAIN char
        /\ \A c \in DOMAIN char : char'[c].root = char[c].root
    BY <1>1, CharacterChanged
  <1>3. ObjectsNumbered'
    BY <1>2, DomainsSame
  <1>4. Placed(item, char)
    BY DEF ItemsInv
  <1>5. Placed(item, char')
    BY <1>2, <1>4, SameRoots
  <1> QED
    BY <1>2, <1>3, <1>5 DEF ItemsInv

LEMMA MoveItems ==
  ASSUME ItemsInv, validate', NEW a \in DOMAIN char, NEW p, move_character(a, p)
  PROVE  ItemsInv'
  BY CharactersStep DEF move_character, Changed

LEMMA PromoteItems ==
  ASSUME ItemsInv, validate', NEW a \in DOMAIN char, promote_character(a)
  PROVE  ItemsInv'
  BY CharactersStep DEF promote_character, Changed

LEMMA TransitionItems ==
  ASSUME ItemsInv, validate', NEW a \in DOMAIN char, NEW s, Enter(a, s, scene, char),
         UNCHANGED <<scene, place, item, objects>>
  PROVE  ItemsInv'
  BY CharactersStep DEF Enter, Changed

(* Rearranging the items.                                                  *)
LEMMA RearrangeStep ==
  ASSUME ItemsInv, validate', Rearranged(item, item'),
         \A i \in DOMAIN item : item'[i].stack = item[i].stack,
         UNCHANGED <<scene, place, char, objects>>
  PROVE  ItemsInv'
  <1>1. Placed(item, char) /\ Carried(item)
    BY DEF ItemsInv
  <1>2. Placed(item', char)
    BY <1>1, RearrangedPlaced
  <1>3. Carried(item')
    BY <1>1, RearrangedCarried
  <1>4. DOMAIN item' = DOMAIN item
    BY DEF Rearranged
  <1>5. ObjectsNumbered'
    BY <1>4, DomainsSame
  <1> QED
    BY <1>2, <1>3, <1>5 DEF ItemsInv

Moved(it, c) == [it EXCEPT !.in = c, !.at = None]

LEMMA ItemMoved ==
  ASSUME NEW it, IsItem(it), NEW c, NEW other,
         other = Moved(it, c)
  PROVE  /\ IsItem(other) /\ other.in = c /\ other.owner = it.owner
         /\ other.def = it.def /\ other.stack = it.stack
  <1>1. PICK d, n, h, p, o, e :
          /\ it = [def |-> d, stack |-> n, in |-> h, at |-> p, owner |-> o, slot |-> e]
          /\ d \in DOMAIN ItemDefs /\ n \in Nat
    BY DEF IsItem
  <1> QED
    BY <1>1 DEF IsItem, Moved

LEMMA ItemEquipped ==
  ASSUME NEW it, IsItem(it), NEW s, NEW other,
         other = [it EXCEPT !.slot = s]
  PROVE  /\ IsItem(other) /\ other.in = it.in /\ other.owner = it.owner
         /\ other.def = it.def /\ other.stack = it.stack
  <1>1. PICK d, n, h, p, o, e :
          /\ it = [def |-> d, stack |-> n, in |-> h, at |-> p, owner |-> o, slot |-> e]
          /\ d \in DOMAIN ItemDefs /\ n \in Nat
    BY DEF IsItem
  <1> QED
    BY <1>1 DEF IsItem

LEMMA ItemRestacked ==
  ASSUME NEW it, IsItem(it), NEW q \in Nat, NEW other,
         other = [it EXCEPT !.stack = q]
  PROVE  /\ IsItem(other) /\ other.in = it.in /\ other.owner = it.owner
         /\ other.def = it.def /\ other.stack = q
  <1>1. PICK d, n, h, p, o, e :
          /\ it = [def |-> d, stack |-> n, in |-> h, at |-> p, owner |-> o, slot |-> e]
          /\ d \in DOMAIN ItemDefs /\ n \in Nat
    BY DEF IsItem
  <1> QED
    BY <1>1 DEF IsItem

LEMMA TransferItems ==
  ASSUME ItemsInv, validate', NEW a \in DOMAIN char, NEW i \in DOMAIN item,
         NEW c \in DOMAIN item, transfer_item(a, i, c)
  PROVE  ItemsInv'
  <1>1. /\ item[i].owner = a /\ item[c].owner \in {None, a} /\ i \notin Holders(item, c)
        /\ item' = [item EXCEPT ![i].in = c, ![i].at = None]
    BY DEF transfer_item, MayTransfer
  <1>2. AreItems(item)
    BY DEF ItemsInv, Placed
  <1>3. Sound(item) /\ NoCycle(item) /\ Rooted(item, char)
    BY ItemFacts
  <1>4. item[c].owner = a
    <2>1. item[c].owner \in DOMAIN char
      BY <1>3 DEF Rooted
    <2>2. item[c].owner # None
      BY <2>1, ItemFacts
    <2> QED
      BY <1>1, <2>2
  <1>5. item[i].in # None
    <2>1. char[item[c].owner].root \in Holders(item, c)
      BY <1>3, RootHolds
    <2>2. i # char[a].root
      BY <1>1, <1>4, <2>1
    <2> QED
      BY <1>1, <1>3, <2>2 DEF Rooted
  <1>6. c # None
    BY <1>3 DEF Sound
  <1>7. IsItem(item[i])
    BY <1>2 DEF AreItems
  <1>8. PICK it : it = item'[i]
    OBVIOUS
  <1>9. PICK old : old = item[i] /\ it = Moved(old, c)
    BY <1>1, <1>8 DEF Moved
  <1>10. /\ IsItem(it) /\ it.in = c /\ it.owner = item[i].owner
         /\ it.def = item[i].def /\ it.stack = item[i].stack
    <2>1. IsItem(old)
      BY <1>7, <1>9
    <2> QED
      BY <1>9, <2>1, ItemMoved
  <1>11. \A j \in DOMAIN item \ {i} : item'[j] = item[j] /\ IsItem(item[j])
    BY <1>1, <1>2 DEF AreItems
  <1>12. item' = [j \in DOMAIN item |-> item'[j]]
    BY <1>1, <1>2 DEF AreItems
  <1>13. Rearranged(item, item')
    <2>1. ASSUME NEW j \in DOMAIN item
          PROVE  /\ IsItem(item'[j])
                 /\ item'[j].owner = item[j].owner /\ item'[j].def = item[j].def
                 /\ item'[j].in # item[j].in =>
                      /\ item[j].in # None /\ item'[j].in # None /\ item'[j].in \in DOMAIN item
                      /\ item[item'[j].in].owner = item[j].owner
      <3>1. CASE j = i
        BY <1>1, <1>4, <1>5, <1>6, <1>8, <1>10, <3>1
      <3>2. CASE j # i
        BY <1>11, <3>2
      <3> QED
        BY <3>1, <3>2
    <2> QED
      BY <1>12, <2>1 DEF Rearranged
  <1>14. \A j \in DOMAIN item : item'[j].stack = item[j].stack
    BY <1>8, <1>10, <1>11
  <1> QED
    BY <1>13, <1>14, RearrangeStep DEF transfer_item

LEMMA EquipItems ==
  ASSUME ItemsInv, validate', NEW a \in DOMAIN char, NEW i \in DOMAIN item,
         NEW s, equip_item(a, i, s)
  PROVE  ItemsInv'
  <1>1. item' = [item EXCEPT ![i].slot = s]
    BY DEF equip_item
  <1>2. AreItems(item)
    BY DEF ItemsInv, Placed
  <1>7. IsItem(item[i])
    BY <1>2 DEF AreItems
  <1>8. PICK it : it = item'[i]
    OBVIOUS
  <1>9. it = [item[i] EXCEPT !.slot = s]
    BY <1>1, <1>8
  <1>10. /\ IsItem(it) /\ it.in = item[i].in /\ it.owner = item[i].owner
         /\ it.def = item[i].def /\ it.stack = item[i].stack
    BY <1>7, <1>9, ItemEquipped
  <1>11. \A j \in DOMAIN item \ {i} : item'[j] = item[j] /\ IsItem(item[j])
    BY <1>1, <1>2 DEF AreItems
  <1>12. item' = [j \in DOMAIN item |-> item'[j]]
    BY <1>1, <1>2 DEF AreItems
  <1>13. Rearranged(item, item')
    BY <1>8, <1>10, <1>11, <1>12 DEF Rearranged
  <1>14. \A j \in DOMAIN item : item'[j].stack = item[j].stack
    BY <1>8, <1>10, <1>11
  <1> QED
    BY <1>13, <1>14, RearrangeStep DEF equip_item

LEMMA CreateSceneItems ==
  ASSUME ItemsInv, validate', NEW a \in DOMAIN char, create_scene(a)
  PROVE  ItemsInv'
  <1>1. objects \in Nat
    BY DEF ItemsInv, ObjectsNumbered
  <1>2. ObjectsNumbered'
    <2>1. objects' = objects + 2 /\ 2 \in Nat /\ char' = char /\ item' = item
      BY DEF create_scene, Create
    <2>2. DOMAIN scene' = DOMAIN scene \cup {First}
      BY DEF create_scene, Merge, One
    <2>3. DOMAIN place' = DOMAIN place \cup {First + 1}
      BY DEF create_scene, Merge, One
    <2>4. First \in First..(objects + 2) /\ First + 1 \in First..(objects + 2)
      BY <1>1 DEF First
    <2> QED
      BY <2>1, <2>2, <2>3, <2>4, DomainsKept
  <1> QED
    BY <1>2 DEF ItemsInv, create_scene

LEMMA CreatePlaceItems ==
  ASSUME ItemsInv, validate', NEW a \in DOMAIN char, create_place(a)
  PROVE  ItemsInv'
  <1>1. objects \in Nat
    BY DEF ItemsInv, ObjectsNumbered
  <1>2. ObjectsNumbered'
    <2>1. objects' = objects + 1 /\ 1 \in Nat /\ char' = char /\ item' = item /\ scene' = scene
      BY DEF create_place, Create
    <2>3. DOMAIN place' = DOMAIN place \cup {First}
      BY DEF create_place, Merge, One
    <2>4. First \in First..(objects + 1)
      BY <1>1 DEF First
    <2> QED
      BY <2>1, <2>3, <2>4, DomainsKept
  <1> QED
    BY <1>2 DEF ItemsInv, create_place

(* A fresh item of a character.                                            *)
LEMMA OneItemNumbered ==
  ASSUME ItemsInv, Create(1), DOMAIN item' = DOMAIN item \cup {First},
         UNCHANGED <<scene, place, char>>
  PROVE  ObjectsNumbered'
  <1>1. objects \in Nat
    BY DEF ItemsInv, ObjectsNumbered
  <1>2. objects' = objects + 1 /\ 1 \in Nat
    BY DEF Create
  <1>3. First \in First..(objects + 1)
    BY <1>1 DEF First
  <1> QED
    BY <1>2, <1>3, DomainsKept

LEMMA GrantItems ==
  ASSUME ItemsInv, validate', NEW a \in DOMAIN char, NEW g \in Grants,
         apply_grant_item(a, g[1], g[2])
  PROVE  ItemsInv'
  <1>1. PICK def, quantity : def = g[1] /\ quantity = g[2]
    OBVIOUS
  <1>2. def \in DOMAIN ItemDefs /\ quantity \in Nat
    BY <1>1, GameWorldAssumption
  <1>3. PICK root : root = char[a].root
    OBVIOUS
  <1>4. PICK it : it = item_from_definition(def, quantity, root, a)
    OBVIOUS
  <1>5. item' = Merge(item, One(First, it)) /\ Create(1) /\ GrantFits(a, def, quantity)
        /\ UNCHANGED <<scene, place, char>>
    BY <1>1, <1>3, <1>4 DEF apply_grant_item
  <1>6. /\ root \in DOMAIN item /\ item[root].in = None /\ item[root].owner = a
        /\ container_weight(item, root) = Load(item, root)
        /\ First \notin DOMAIN item /\ First # None /\ root # None
    BY <1>3, ItemFacts DEF Sound
  <1>7. IsItem(it) /\ it.owner = a /\ it.in = root /\ it.def = def /\ it.stack = quantity
    BY <1>2, <1>4 DEF IsItem, item_from_definition
  <1>8. Fresh(item, char, First, it)
    BY <1>3, <1>6, <1>7 DEF Fresh
  <1>9. Placed(item, char) /\ Carried(item)
    BY DEF ItemsInv
  <1>10. Placed(item', char)
    BY <1>5, <1>8, <1>9, FreshPlaced
  <1>11. With(item', item, First, it)
    BY <1>5, <1>6, OneMore, Zenon
  <1>12. DOMAIN item' = DOMAIN item \cup {First} /\ item'[First] = it
         /\ \A i \in DOMAIN item : item'[i] = item[i]
    BY <1>11 DEF With
  <1>13. ObjectsNumbered'
    BY <1>5, <1>12, OneItemNumbered
  <1>14. ASSUME NEW c \in DOMAIN item', item'[c].in = None
         PROVE  Load(item', c) <= ItemDefs[item'[c].def].maxWeight
    <2>1. c \in DOMAIN item /\ item'[c] = item[c]
      BY <1>6, <1>7, <1>12, <1>14
    <2>2. /\ item[c].owner # a => Load(item', c) = Load(item, c)
          /\ item[c].owner = a
               => Load(item', c) = ItemDefs[def].weight * quantity + Load(item, c)
      BY <1>5, <1>7, <1>8, <1>9, <2>1, FreshLoad
    <2>3. CASE item[c].owner # a
      BY <1>9, <1>14, <2>1, <2>2, <2>3 DEF Carried
    <2>4. CASE item[c].owner = a
      <3>1. c = root
        BY <1>3, <1>14, <2>1, <2>4, ItemFacts DEF Rooted
      <3>2. Load(item, root) + ItemDefs[def].weight * quantity <= ItemDefs[item[root].def].maxWeight
        BY <1>3, <1>5, <1>6 DEF GrantFits
      <3>3. Load(item, root) \in Nat
        BY <1>5, <1>8, <1>9, <2>1, <3>1, FreshLoad
      <3>4. PICK w \in Nat : w = ItemDefs[def].weight
        BY <1>2, GameWorldAssumption
      <3>5. PICK n \in Nat : n = w * quantity
        BY <1>2
      <3> QED
        BY <2>1, <2>2, <2>4, <3>1, <3>2, <3>3, <3>4, <3>5
    <2> QED
      BY <2>3, <2>4
  <1>15. Carried(item')
    BY <1>14 DEF Carried
  <1> QED
    BY <1>5, <1>10, <1>13, <1>15 DEF ItemsInv

(* A stack with some of it taken away.                                     *)
LEMMA LoadLess ==
  ASSUME NEW items, NEW others, IsFiniteSet(DOMAIN items), AreItems(items), AreItems(others),
         DOMAIN others = DOMAIN items, NEW i \in DOMAIN items, NEW q \in Nat, q < items[i].stack,
         \A j \in DOMAIN items \ {i} : others[j] = items[j],
         others[i].owner = items[i].owner, others[i].def = items[i].def,
         others[i].stack = items[i].stack - q,
         NEW c \in DOMAIN items, c # i
  PROVE  /\ Load(others, c) \in Nat
         /\ items[c].owner # items[i].owner => Load(others, c) = Load(items, c)
         /\ items[c].owner = items[i].owner
              => ItemDefs[items[i].def].weight * q + Load(others, c) = Load(items, c)
  <1>1. PICK T : T = Belongings(items, c)
    OBVIOUS
  <1>2. T = Belongings(others, c)
    BY <1>1 DEF Belongings
  <1>3. T \in SUBSET DOMAIN items /\ T \in SUBSET DOMAIN others /\ IsFiniteSet(T)
    BY <1>1, FS_Subset DEF Belongings
  <1>4. (\A x \in T : ItemWeight(items, x) \in Nat) /\ (\A x \in T : ItemWeight(others, x) \in Nat)
    BY <1>3, ItemWeighs
  <1>5. /\ Weight(others, T) \in Nat
        /\ \A x \in T : Weight(others, T) = ItemWeight(others, x) + Weight(others, T \ {x})
    BY <1>3, <1>4, WeightTakes
  <1>6. \A x \in T : Weight(items, T) = ItemWeight(items, x) + Weight(items, T \ {x})
    BY <1>3, <1>4, WeightTakes
  <1>7. PICK U : U = T \ {i}
    OBVIOUS
  <1>8. U \in SUBSET DOMAIN items /\ U \in SUBSET DOMAIN others /\ IsFiniteSet(U)
    BY <1>3, <1>7, FS_Subset
  <1>9. \A x \in U : ItemWeight(items, x) = ItemWeight(others, x)
    BY <1>7, <1>8 DEF ItemWeight
  <1>10. Weight(items, U) = Weight(others, U)
    BY <1>8, <1>9, WeightSame
  <1>11. ASSUME items[c].owner # items[i].owner PROVE Load(others, c) = Load(items, c)
    <2>1. U = T
      BY <1>1, <1>7, <1>11 DEF Belongings
    <2> QED
      BY <1>1, <1>2, <1>10, <2>1 DEF Load
  <1>12. ASSUME items[c].owner = items[i].owner
         PROVE  ItemDefs[items[i].def].weight * q + Load(others, c) = Load(items, c)
    <2>1. i \in T
      BY <1>1, <1>12 DEF Belongings
    <2>2. PICK w \in Nat : w = ItemDefs[items[i].def].weight
      <3>1. IsItem(items[i])
        BY DEF AreItems
      <3> QED
        BY <3>1, GameWorldAssumption DEF IsItem
    <2>3. PICK s \in Nat : s = items[i].stack
      BY DEF AreItems, IsItem
    <2>4. PICK r \in Nat : r = s - q
      BY <2>3
    <2>5. ItemWeight(others, i) = w * r /\ ItemWeight(items, i) = w * s
      BY <2>2, <2>3, <2>4 DEF ItemWeight
    <2>6. w * q + w * r = w * s
      <3>1. s = q + r
        BY <2>4
      <3>2. w * (q + r) = w * q + w * r
        OBVIOUS
      <3> QED
        BY <3>1, <3>2
    <2>7. Weight(others, T) = w * r + Weight(others, U) /\ Weight(items, T) = w * s + Weight(items, U)
      BY <1>5, <1>6, <1>7, <2>1, <2>5
    <2>8. Weight(items, U) \in Nat
      <3>1. \A x \in U : ItemWeight(items, x) \in Nat
        BY <1>4, <1>7
      <3> QED
        BY <1>8, <3>1, WeightTakes
    <2>9. PICK x, y, z \in Nat : x = w * q /\ y = w * r /\ z = Weight(items, U)
      <3>1. w * q \in Nat /\ w * r \in Nat
        OBVIOUS
      <3> QED
        BY <2>8, <3>1
    <2>10. Weight(others, T) = y + z /\ Weight(items, T) = (x + y) + z
      BY <1>10, <2>6, <2>7, <2>9
    <2>11. x + Weight(others, T) = Weight(items, T)
      BY <2>9, <2>10
    <2> QED
      BY <1>1, <1>2, <2>2, <2>9, <2>11 DEF Load
  <1> QED
    BY <1>1, <1>2, <1>5, <1>11, <1>12 DEF Load

LEMMA SplitItems ==
  ASSUME ItemsInv, validate', NEW a \in DOMAIN char, NEW i \in DOMAIN item,
         NEW q \in 1..(item[i].stack - 1), split_stack(a, i, q)
  PROVE  ItemsInv'
  <1>1. PICK others : others = [item EXCEPT ![i].stack = @ - q]
    OBVIOUS
  <1>2. PICK it : it = [item[i] EXCEPT !.stack = q]
    OBVIOUS
  <1>3. /\ item' = Merge(others, One(First, it)) /\ Create(1) /\ item[i].owner = a
        /\ ~IsContainer(item[i]) /\ q < item[i].stack /\ UNCHANGED <<scene, place, char>>
    BY <1>1, <1>2 DEF split_stack
  <1>4. Placed(item, char) /\ Carried(item) /\ AreItems(item) /\ IsFiniteSet(DOMAIN item)
    BY DEF ItemsInv, Placed
  <1>5. IsItem(item[i]) /\ item[i].stack \in Nat
    BY <1>4 DEF AreItems, IsItem
  <1>6. q \in Nat /\ item[i].stack - q \in Nat
    BY <1>3, <1>5
  <1>7. /\ IsItem(it) /\ it.in = item[i].in /\ it.owner = a
        /\ it.def = item[i].def /\ it.stack = q
    BY <1>2, <1>3, <1>5, <1>6, ItemRestacked
  <1>8. PICK rest : rest = others[i]
    OBVIOUS
  <1>9. PICK n \in Nat : n = item[i].stack - q
    BY <1>6
  <1>10. rest = [item[i] EXCEPT !.stack = n]
    BY <1>1, <1>8, <1>9
  <1>11. /\ IsItem(rest) /\ rest.in = item[i].in /\ rest.owner = item[i].owner
         /\ rest.def = item[i].def /\ rest.stack = n
    BY <1>5, <1>10, ItemRestacked
  <1>12. /\ DOMAIN others = DOMAIN item /\ others = [j \in DOMAIN item |-> others[j]]
         /\ \A j \in DOMAIN item \ {i} : others[j] = item[j] /\ IsItem(item[j])
    BY <1>1, <1>4 DEF AreItems
  <1>13. Rearranged(item, others)
    BY <1>8, <1>11, <1>12 DEF Rearranged
  <1>14. Placed(others, char)
    BY <1>4, <1>13, RearrangedPlaced
  <1>15. item[i].in # None /\ item[i].in \in DOMAIN item
    BY <1>3, <1>4 DEF Placed
  <1>16. Fresh(others, char, First, it)
    <2>1. First \notin DOMAIN others /\ First # None /\ char[a].root \in DOMAIN item
      BY <1>12, ItemFacts
    <2>2. item[item[i].in].owner = a
      BY <1>3, <1>4, <1>15 DEF Placed, Rooted
    <2>3. others[item[i].in].owner = a
      BY <1>8, <1>11, <1>12, <1>15, <2>2
    <2>4. char[a].root # First
      BY <1>12, <2>1
    <2> QED
      BY <1>7, <1>12, <1>15, <2>1, <2>3, <2>4 DEF Fresh
  <1>17. Placed(item', char)
    BY <1>3, <1>14, <1>16, FreshPlaced
  <1>18. /\ DOMAIN item' = DOMAIN item \cup {First} /\ item'[First] = it
         /\ \A j \in DOMAIN item : item'[j] = others[j]
    <2>1. First \notin DOMAIN others
      BY <1>16 DEF Fresh
    <2>2. With(item', others, First, it)
      BY <1>3, <2>1, OneMore, Zenon
    <2> QED
      BY <1>12, <2>2 DEF With
  <1>19. ObjectsNumbered'
    BY <1>3, <1>18, OneItemNumbered
  <1>20. ASSUME NEW c \in DOMAIN item', item'[c].in = None
         PROVE  Load(item', c) <= ItemDefs[item'[c].def].maxWeight
    <2>1. c \in DOMAIN item /\ c # i /\ item'[c] = item[c] /\ c \in DOMAIN others
      BY <1>7, <1>8, <1>11, <1>12, <1>15, <1>18, <1>20
    <2>2. /\ item[c].owner # a => Load(item', c) = Load(others, c)
          /\ item[c].owner = a
               => Load(item', c) = ItemDefs[item[i].def].weight * q + Load(others, c)
      <3>1. others[c].owner = item[c].owner
        BY <1>12, <2>1
      <3> QED
        BY <1>3, <1>7, <1>14, <1>16, <2>1, <3>1, FreshLoad
    <2>3. /\ item[c].owner # a => Load(others, c) = Load(item, c)
          /\ item[c].owner = a
               => ItemDefs[item[i].def].weight * q + Load(others, c) = Load(item, c)
      <3>1. AreItems(others)
        BY <1>14 DEF Placed
      <3>2. /\ \A j \in DOMAIN item \ {i} : others[j] = item[j]
            /\ others[i].owner = item[i].owner /\ others[i].def = item[i].def
            /\ others[i].stack = item[i].stack - q
        BY <1>8, <1>9, <1>11, <1>12
      <3> QED
        BY <1>3, <1>4, <1>6, <1>12, <2>1, <3>1, <3>2, LoadLess
    <2>4. Load(item', c) = Load(item, c)
      BY <2>2, <2>3
    <2> QED
      BY <1>4, <1>20, <2>1, <2>4 DEF Carried
  <1>21. Carried(item')
    BY <1>20 DEF Carried
  <1> QED
    BY <1>3, <1>17, <1>19, <1>21 DEF ItemsInv

(* The places of a plan come first among its objects.                      *)
LEMMA PlanRoom ==
  ASSUME NEW plan, Len(plan.edges) \in Nat, NEW entries, AreEntries(entries), NEW id \in Nat
  PROVE  id + Len(plan.edges) <= id + PlanSize(plan, entries) - 1
  <1>1. PICK M \in Nat : M = Len(entries)
    BY DEF AreEntries
  <1>2. PICK c : c = Numbers(plan, entries, id)
    OBVIOUS
  <1>3. Numbered(plan, entries, id, c)
    BY <1>2, Numbering
  <1>4. M + 1 \in 1..(M + 1)
    OBVIOUS
  <1>5. PICK L \in Nat : L = Len(plan.edges)
    OBVIOUS
  <1>6. PICK z \in Nat : z = c[M + 1] /\ z >= id + 1 + L
    BY <1>1, <1>3, <1>4, <1>5 DEF Numbered
  <1>7. PICK size \in Int : size = PlanSize(plan, entries) /\ size = z - id
    BY <1>1, <1>3, <1>6 DEF Numbered
  <1>8. id + L <= id + size - 1
    BY <1>6, <1>7
  <1> QED
    BY <1>5, <1>7, <1>8

LEMMA SpawnItems ==
  ASSUME ItemsInv, validate', NEW a \in DOMAIN char, NEW spec, IsInventory(spec.inventory),
         NEW p, NEW persistent, spawn_character(a, spec, p, persistent)
  PROVE  ItemsInv'
  <1>1. PICK lifetime : lifetime = IF persistent THEN Persistent ELSE place[p].scene
    OBVIOUS
  <1>2. PICK items : items = InventoryItems(spec.inventory, First, p)
    OBVIOUS
  <1>3. PICK new : new = NewCharacter(First, "agent", lifetime, p)
    OBVIOUS
  <1>4. PICK one : one = One(First, new)
    OBVIOUS
  <1>5. /\ validate_candidate_inventory(items) /\ Create(Size(spec.inventory))
        /\ char' = Merge(char, one) /\ item' = Merge(item, items)
        /\ UNCHANGED <<scene, place>>
    BY <1>1, <1>2, <1>3, <1>4 DEF spawn_character
  <1>6. PICK n \in Nat : n = Len(spec.inventory) /\ Size(spec.inventory) = 2 + n
    BY SizeNat
  <1>7. objects \in Nat /\ First = objects + 1 /\ First \in Nat
    BY DEF ItemsInv, ObjectsNumbered, First
  <1>8. /\ DOMAIN one = {First} /\ one = [x \in DOMAIN one |-> one[x]]
        /\ one[First] = new /\ IsCharacter(new) /\ new.root = First + 1
    BY <1>3, <1>4, NewIsCharacter DEF One
  <1>9. Placed(items, one) /\ DOMAIN items = (First + 1)..(First + 1 + n)
    <2>1. DOMAIN one = {First} /\ one[First].root = First + 1 /\ First \in Nat
      BY <1>7, <1>8
    <2>2. PICK carried, id : carried = spec.inventory /\ id = First
      OBVIOUS
    <2>3. IsInventory(carried) /\ items = InventoryItems(carried, id, p)
      BY <1>2, <2>2
    <2>4. id \in Nat /\ DOMAIN one = {id} /\ one[id].root = id + 1
      BY <2>1, <2>2
    <2>5. Placed(items, one) /\ DOMAIN items = (id + 1)..(id + 1 + Len(carried))
      BY <2>3, <2>4, InventoryPlaced
    <2> QED
      BY <1>6, <2>2, <2>5
  <1>10. Carried(items)
    BY <1>5, <1>9, CandidatesFit
  <1>11. Placed(item, char) /\ Carried(item) /\ AreCharacters(char)
    BY DEF ItemsInv
  <1>12. (DOMAIN item) \cap (DOMAIN items) = {} /\ (DOMAIN char) \cap (DOMAIN one) = {}
    <2>1. DOMAIN item \subseteq 1..objects
      BY DEF ItemsInv, ObjectsNumbered
    <2>2. First \notin DOMAIN char
      BY ItemFacts
    <2> QED
      BY <1>7, <1>8, <1>9, <2>1, <2>2
  <1>13. Placed(item', char')
    BY <1>5, <1>9, <1>11, <1>12, JoinPlaced
  <1>14. Carried(item')
    BY <1>5, <1>9, <1>10, <1>11, <1>12, JoinCarried
  <1>15. Joins(char', char, one) /\ Joins(item', item, items)
    BY <1>5, <1>12, Merged, Zenon
  <1>16. AreCharacters(char')
    BY <1>8, <1>11, <1>15 DEF Joins, AreCharacters
  <1>17. ObjectsNumbered'
    <2>1. objects' = objects + (2 + n) /\ 2 + n \in Nat
      BY <1>5, <1>6 DEF Create
    <2>2. DOMAIN one \subseteq First..(objects + (2 + n))
      BY <1>7, <1>8
    <2>3. DOMAIN items \subseteq First..(objects + (2 + n))
      BY <1>7, <1>9
    <2>4. DOMAIN char' = DOMAIN char \cup DOMAIN one /\ DOMAIN item' = DOMAIN item \cup DOMAIN items
      BY <1>15 DEF Joins
    <2>5. DOMAIN scene' = DOMAIN scene /\ DOMAIN place' = DOMAIN place
      BY <1>5
    <2> QED
      BY <2>1, <2>2, <2>3, <2>4, <2>5, DomainsKept
  <1> QED
    BY <1>13, <1>14, <1>16, <1>17 DEF ItemsInv

(* A transition to a scene that is made for it.                            *)
LEMMA NewSceneItems ==
  ASSUME ItemsInv, validate', NEW a \in DOMAIN char, NEW d \in DOMAIN Plans,
         NEW plan, plan = Plans[d], NEW entries, entries = NpcEntries(plan),
         NEW origin, NEW entry,
         scene' = Merge(scene, One(First, [entry |-> entry, origin |-> origin])),
         place' = Merge(place, MaterializedPlaces(plan, First)),
         item' = Merge(item, MaterializedItems(plan, entries, First)),
         validate_candidate_inventory(MaterializedItems(plan, entries, First)),
         Create(PlanSize(plan, entries)), NEW scenes,
         Enter(a, First, scenes, Merge(char, MaterializedCharacters(plan, entries, First)))
  PROVE  ItemsInv'
  <1>1. AreEntries(entries) /\ Len(plan.edges) \in Nat
    BY NpcsAreEntries, GameWorldAssumption
  <1>2. objects \in Nat /\ First = objects + 1 /\ First \in Nat
    BY DEF ItemsInv, ObjectsNumbered, First
  <1>3. PICK items : items = MaterializedItems(plan, entries, First)
    OBVIOUS
  <1>4. PICK chars : chars = MaterializedCharacters(plan, entries, First)
    OBVIOUS
  <1>5. PICK size : size = PlanSize(plan, entries)
    OBVIOUS
  <1>6. PICK last : last = First + size - 1
    OBVIOUS
  <1>7. /\ size \in Nat \ {0}
        /\ DOMAIN items \subseteq (First + 1)..last /\ DOMAIN chars \subseteq (First + 1)..last
        /\ Placed(items, chars) /\ AreCharacters(chars)
    BY <1>1, <1>2, <1>3, <1>4, <1>5, <1>6, MaterializedPlaced
  <1>8. Carried(items)
    BY <1>3, <1>7, CandidatesFit
  <1>9. Placed(item, char) /\ Carried(item) /\ AreCharacters(char)
    BY DEF ItemsInv
  <1>10. (DOMAIN item) \cap (DOMAIN items) = {} /\ (DOMAIN char) \cap (DOMAIN chars) = {}
    <2>1. DOMAIN item \subseteq 1..objects /\ DOMAIN char \subseteq 1..objects
      BY DEF ItemsInv, ObjectsNumbered
    <2>2. last = objects + size /\ last \in Nat
      BY <1>2, <1>6, <1>7
    <2>3. \A n \in (First + 1)..last : n \notin 1..objects
      BY <1>2, <2>2
    <2> QED
      BY <1>7, <2>1, <2>3
  <1>11. PICK everyone : everyone = Merge(char, chars)
    OBVIOUS
  <1>12. Joins(everyone, char, chars) /\ Joins(item', item, items)
    BY <1>3, <1>10, <1>11, Merged, Zenon
  <1>13. Placed(item', everyone)
    BY <1>3, <1>7, <1>9, <1>10, <1>11, JoinPlaced
  <1>14. Carried(item')
    BY <1>3, <1>7, <1>8, <1>9, <1>10, JoinCarried
  <1>15. AreCharacters(everyone) /\ a \in DOMAIN everyone
    BY <1>7, <1>9, <1>12 DEF Joins, AreCharacters
  <1>16. PICK x : Changed(everyone, a, x, char')
    BY <1>4, <1>11 DEF Enter, Changed
  <1>17. /\ AreCharacters(char') /\ DOMAIN char' = DOMAIN everyone
         /\ \A c \in DOMAIN everyone : char'[c].root = everyone[c].root
    BY <1>15, <1>16, CharacterChanged
  <1>18. Placed(item', char')
    BY <1>13, <1>17, SameRoots
  <1>19. ObjectsNumbered'
    <2>1. objects' = objects + size /\ size \in Nat /\ last = objects + size
      BY <1>2, <1>5, <1>6, <1>7 DEF Create
    <2>2. DOMAIN scene' = DOMAIN scene \cup {First}
      BY DEF Merge, One
    <2>3. PICK L \in Nat : L = Len(plan.edges)
      BY <1>1
    <2>4. DOMAIN place' = DOMAIN place \cup ((First + 1)..(First + L))
      BY <2>3 DEF Merge, MaterializedPlaces
    <2>5. First + L <= last
      BY <1>1, <1>2, <1>5, <1>6, <2>3, PlanRoom
    <2>6. DOMAIN char' = DOMAIN char \cup DOMAIN chars /\ DOMAIN item' = DOMAIN item \cup DOMAIN items
      BY <1>12, <1>17 DEF Joins
    <2>7. First \in First..(objects + size)
      BY <1>2, <1>7
    <2>8. (First + 1)..last \subseteq First..(objects + size)
      BY <1>2, <2>1
    <2>9. (First + 1)..(First + L) \subseteq First..(objects + size)
      BY <1>2, <2>1, <2>5
    <2> QED
      BY <1>7, <2>1, <2>2, <2>4, <2>6, <2>7, <2>8, <2>9, DomainsKept
  <1> QED
    BY <1>14, <1>17, <1>18, <1>19 DEF ItemsInv

LEMMA StartItems ==
  ASSUME NEW d \in Start, validate,
         place = MaterializedPlaces(Plans[d], 1), NEW entry, scene = One(1, entry),
         char = MaterializedCharacters(Plans[d], Plans[d].characters, 1),
         item = MaterializedItems(Plans[d], Plans[d].characters, 1),
         validate_candidate_inventory(item), objects = PlanSize(Plans[d], Plans[d].characters)
  PROVE  ItemsInv
  <1>1. PICK plan : plan = Plans[d]
    OBVIOUS
  <1>2. PICK entries : entries = plan.characters
    OBVIOUS
  <1>3. d \in DOMAIN Plans /\ Len(plan.edges) \in Nat /\ AreEntries(entries)
    BY <1>1, <1>2, NpcsAreEntries, GameWorldAssumption
  <1>4. PICK last : last = 1 + PlanSize(plan, entries) - 1
    OBVIOUS
  <1>5. /\ PlanSize(plan, entries) \in Nat \ {0}
        /\ DOMAIN item \subseteq (1 + 1)..last /\ DOMAIN char \subseteq (1 + 1)..last
        /\ Placed(item, char) /\ AreCharacters(char)
    <2>1. item = MaterializedItems(plan, entries, 1) /\ char = MaterializedCharacters(plan, entries, 1)
      BY <1>1, <1>2
    <2>2. 1 \in Nat
      OBVIOUS
    <2> QED
      BY <1>3, <1>4, <2>1, <2>2, MaterializedPlaced
  <1>6. Carried(item)
    BY <1>5, CandidatesFit
  <1>7. ObjectsNumbered
    <2>1. PICK n \in Nat \ {0} : n = PlanSize(plan, entries) /\ n = objects /\ last = n
      BY <1>1, <1>2, <1>4, <1>5
    <2>2. PICK L \in Nat : L = Len(plan.edges)
      BY <1>3
    <2>3. 1 + L <= n
      <3>1. 1 \in Nat
        OBVIOUS
      <3>2. 1 + Len(plan.edges) <= 1 + PlanSize(plan, entries) - 1
        BY <1>3, <3>1, PlanRoom
      <3> QED
        BY <2>1, <2>2, <3>2
    <2>4. DOMAIN place = (1 + 1)..(1 + L)
      BY <1>1, <2>2 DEF MaterializedPlaces
    <2>5. DOMAIN scene = {1}
      BY DEF One
    <2> QED
      BY <1>5, <2>1, <2>3, <2>4, <2>5 DEF ObjectsNumbered
  <1> QED
    BY <1>5, <1>6, <1>7 DEF ItemsInv

LEMMA InitItems ==
  ASSUME GameInit
  PROVE  ItemsInv
  <1>1. PICK d \in Start :
          /\ scene = One(1, [entry |-> 1 + Plans[d].entry, origin |-> d])
          /\ place = MaterializedPlaces(Plans[d], 1)
          /\ char = MaterializedCharacters(Plans[d], Plans[d].characters, 1)
          /\ item = MaterializedItems(Plans[d], Plans[d].characters, 1)
          /\ validate_candidate_inventory(item)
          /\ objects = PlanSize(Plans[d], Plans[d].characters)
          /\ validate
    BY Zenon DEF GameInit
  <1> QED
    BY <1>1, StartItems

LEMMA DefinitionItems ==
  ASSUME ItemsInv, validate', NEW a \in DOMAIN char, NEW d \in DOMAIN Plans,
         transition_by_definition(a, d)
  PROVE  ItemsInv'
  <1>1. CASE /\ Enter(a, CHOOSE s \in InstancesOf(d) : TRUE, scene, char)
             /\ UNCHANGED <<scene, place, item, objects>>
    BY <1>1, TransitionItems
  <1>2. CASE ~(/\ Enter(a, CHOOSE s \in InstancesOf(d) : TRUE, scene, char)
               /\ UNCHANGED <<scene, place, item, objects>>)
    <2>1. PICK plan, entries : plan = Plans[d] /\ entries = NpcEntries(plan)
      OBVIOUS
    <2>2. PICK scenes :
            scenes = Merge(scene, One(First, [entry |-> First + plan.entry, origin |-> d]))
      OBVIOUS
    <2>3. /\ validate_candidate_inventory(MaterializedItems(plan, entries, First))
          /\ Create(PlanSize(plan, entries))
          /\ scene' = Merge(scene, One(First, [entry |-> First + plan.entry, origin |-> d]))
          /\ place' = Merge(place, MaterializedPlaces(plan, First))
          /\ item' = Merge(item, MaterializedItems(plan, entries, First))
          /\ Enter(a, First, scenes, Merge(char, MaterializedCharacters(plan, entries, First)))
      BY <1>2, <2>1, <2>2 DEF transition_by_definition
    <2> QED
      BY <2>1, <2>3, NewSceneItems
  <1> QED
    BY <1>1, <1>2

LEMMA NextItems ==
  ASSUME ItemsInv, GameNext
  PROVE  ItemsInv'
  <1>1. PICK a \in DOMAIN char : CharacterCommand(a) /\ validate'
    BY DEF GameNext
  <1>2. CASE \E p \in DOMAIN place : move_character(a, p)
    BY <1>1, <1>2, MoveItems
  <1>3. CASE \E i, c \in DOMAIN item : transfer_item(a, i, c)
    BY <1>1, <1>3, TransferItems
  <1>4. CASE \E i \in DOMAIN item : \E s \in ItemDefs[item[i].def].slots : equip_item(a, i, s)
    BY <1>1, <1>4, EquipItems
  <1>5. CASE \E i \in DOMAIN item : \E q \in 1..(item[i].stack - 1) : split_stack(a, i, q)
    BY <1>1, <1>5, SplitItems
  <1>6. CASE \E g \in Grants : apply_grant_item(a, g[1], g[2])
    BY <1>1, <1>6, GrantItems
  <1>7. CASE \E spec \in compile_character \cup compile_draft, p \in DOMAIN place,
                persistent \in BOOLEAN : spawn_character(a, spec, p, persistent)
    <2>1. PICK spec \in compile_character \cup compile_draft, p \in DOMAIN place,
               persistent \in BOOLEAN : spawn_character(a, spec, p, persistent)
      BY <1>7
    <2>2. IsInventory(spec.inventory)
      BY GameWorldAssumption DEF compile_character, compile_draft
    <2> QED
      BY <1>1, <2>1, <2>2, SpawnItems
  <1>8. CASE \E target \in DOMAIN char : promote_character(target)
    BY <1>1, <1>8, PromoteItems
  <1>9. CASE create_scene(a)
    BY <1>1, <1>9, CreateSceneItems
  <1>10. CASE create_place(a)
    BY <1>1, <1>10, CreatePlaceItems
  <1>11. CASE \E s \in DOMAIN scene : transition_existing(a, s)
    BY <1>1, <1>11, TransitionItems DEF transition_existing
  <1>12. CASE \E d \in DOMAIN Plans : transition_by_definition(a, d)
    BY <1>1, <1>12, DefinitionItems
  <1> QED
    BY <1>1, <1>2, <1>3, <1>4, <1>5, <1>6, <1>7, <1>8, <1>9, <1>10, <1>11, <1>12
       DEF CharacterCommand

(* Whatever commands GameWorld::execute accepts: every item is, directly   *)
(* or in containers of its owner, in the inventory root of a character,    *)
(* only containers hold items, and no root carries more than its           *)
(* definition allows.  A transfer keeps it by its check of owner and       *)
(* cycle, a spawn by validate_candidate_inventory, a split and a grant by  *)
(* what they copy.                                                         *)
THEOREM ItemsInvariant == GameSpec => []ItemsInv
  <1>1. GameInit => ItemsInv
    BY InitItems
  <1>2. ItemsInv /\ [GameNext]_gameVars => ItemsInv'
    BY NextItems, ItemsInvFrame
  <1> QED
    BY <1>1, <1>2, PTL DEF GameSpec

(* Every item lies in the inventory root of its owner, and no root is put  *)
(* into anything, after any sequence of transfers, splits, grants, spawns  *)
(* and transitions (transfer_item and validate_references).                *)
THEOREM OwnInventories == GameSpec => []InventoryTree
  <1>1. ItemsInv => InventoryTree
    BY ItemsGiveTree
  <1> QED
    BY <1>1, ItemsInvariant, PTL

(* Nobody carries more than their inventory root allows, all bags counted, *)
(* although transfer_item looks at one container and split_stack at none.  *)
THEOREM LoadsBounded == GameSpec => []CarriedWithinCapacity
  <1>1. ItemsInv => CarriedWithinCapacity
    BY ItemsGiveTree
  <1> QED
    BY <1>1, ItemsInvariant, PTL

(***************************************************************************)
(* The walks of the player.  A set of places that can only be left for     *)
(* places of it has, with a place, every place of its scene.               *)
(***************************************************************************)
Enclosed(places, C) == C \in SUBSET DOMAIN places /\ \A p \in C : places[p].edges \subseteq C
Linked(places) ==
  \A C : Enclosed(places, C) =>
    \A p \in C : \A q \in DOMAIN places : places[q].scene = places[p].scene => q \in C
ArePlaces(places) ==
  /\ places = [p \in DOMAIN places |-> places[p]]
  /\ \A p \in DOMAIN places :
       places[p] = [scene |-> places[p].scene, edges |-> places[p].edges]
Inside(places) == \A p \in DOMAIN places : places[p].edges \in SUBSET DOMAIN places

LEMMA ValidInside ==
  ASSUME ItemsInv
  PROVE  Inside(place) /\ IsFiniteSet(DOMAIN place)
  <1>1. objects \in Nat /\ DOMAIN place \subseteq 1..objects
    BY DEF ItemsInv, ObjectsNumbered
  <1>2. IsFiniteSet(1..objects)
    BY <1>1, FS_Interval
  <1>3. IsFiniteSet(DOMAIN place)
    BY <1>1, <1>2, FS_Subset
  <1>4. Inside(place)
    BY DEF ItemsInv, validate, ValidPlaces, Inside
  <1> QED
    BY <1>3, <1>4

LEMMA WalkReaches ==
  ASSUME ItemsInv, Linked(place), NEW p \in DOMAIN place
  PROVE  Walk(p) = {q \in DOMAIN place : place[q].scene = place[p].scene}
  <1>1. PICK W : W = Walk(p)
    OBVIOUS
  <1>2. /\ p \in W /\ W \in SUBSET DOMAIN place
        /\ \A q \in W : place[q].edges \subseteq W
        /\ \A C \in SUBSET DOMAIN place :
             p \in C /\ (\A q \in C : place[q].edges \subseteq C) => W \subseteq C
    BY <1>1, ValidInside, WalkLeast DEF Inside
  <1>3. PICK C : C = {q \in DOMAIN place : place[q].scene = place[p].scene}
    OBVIOUS
  <1>4. \A q \in C : place[q].edges \subseteq C
    BY <1>3 DEF ItemsInv, validate, ValidPlaces
  <1>5. W \subseteq C
    BY <1>2, <1>3, <1>4
  <1>6. C \subseteq W
    BY <1>2, <1>3 DEF Linked, Enclosed
  <1> QED
    BY <1>1, <1>3, <1>5, <1>6

(* Scenes side by side,                                                    *)
LEMMA LinkedApart ==
  ASSUME NEW places, NEW more, Linked(places), Linked(more), Inside(places), Inside(more),
         ArePlaces(places), ArePlaces(more),
         (DOMAIN places) \cap (DOMAIN more) = {},
         \A p \in DOMAIN places : \A q \in DOMAIN more : places[p].scene # more[q].scene,
         NEW all, all = Merge(places, more)
  PROVE  Linked(all) /\ ArePlaces(all)
  <1>1. Joins(all, places, more)
    BY Merged, Zenon
  <1>2. /\ DOMAIN all = DOMAIN places \cup DOMAIN more /\ all = [x \in DOMAIN all |-> all[x]]
        /\ \A p \in DOMAIN places : all[p] = places[p]
        /\ \A p \in DOMAIN more : all[p] = more[p]
    BY <1>1 DEF Joins
  <1>3. ASSUME NEW C, Enclosed(all, C), NEW p \in C, NEW q \in DOMAIN all,
               all[q].scene = all[p].scene
        PROVE  q \in C
    <2>1. p \in DOMAIN all /\ \A x \in C : all[x].edges \subseteq C
      BY <1>3 DEF Enclosed
    <2>2. CASE p \in DOMAIN places
      <3>1. PICK D : D = C \cap DOMAIN places
        OBVIOUS
      <3>2. Enclosed(places, D)
        BY <1>2, <2>1, <3>1 DEF Enclosed, Inside
      <3>3. q \in DOMAIN places
        BY <1>2, <1>3, <2>2
      <3> QED
        BY <1>2, <1>3, <2>2, <3>1, <3>2, <3>3 DEF Linked
    <2>3. CASE p \in DOMAIN more
      <3>1. PICK D : D = C \cap DOMAIN more
        OBVIOUS
      <3>2. Enclosed(more, D)
        BY <1>2, <2>1, <3>1 DEF Enclosed, Inside
      <3>3. q \in DOMAIN more
        BY <1>2, <1>3, <2>3
      <3> QED
        BY <1>2, <1>3, <2>3, <3>1, <3>2, <3>3 DEF Linked
    <2> QED
      BY <1>2, <2>1, <2>2, <2>3
  <1>4. Linked(all)
    BY <1>3 DEF Linked
  <1>5. ArePlaces(all)
    BY <1>2 DEF ArePlaces
  <1> QED
    BY <1>4, <1>5

(* and a scene with a place more, joined to one of it both ways.           *)
PlaceAdded(all, places, here, n) ==
  /\ DOMAIN all = DOMAIN places \cup {n} /\ ArePlaces(all)
  /\ \A p \in DOMAIN places \ {here} : all[p] = places[p]
  /\ all[here].scene = places[here].scene /\ all[here].edges = places[here].edges \cup {n}
  /\ all[n].scene = places[here].scene /\ all[n].edges = {here}
WithPath(places, here, n) == [places EXCEPT ![here].edges = @ \cup {n}]
NewPlace(s, e) == [scene |-> s, edges |-> e]

Joined(changed, places, here, n) ==
  /\ DOMAIN changed = DOMAIN places
  /\ \A p \in DOMAIN places \ {here} : changed[p] = places[p]
  /\ changed[here] = NewPlace(places[here].scene, places[here].edges \cup {n})

LEMMA PathAdded ==
  ASSUME NEW places, ArePlaces(places), NEW here \in DOMAIN places, NEW n,
         NEW changed, changed = WithPath(places, here, n)
  PROVE  Joined(changed, places, here, n)
  <1>1. PICK old : old = places[here]
    OBVIOUS
  <1>2. PICK s, e : old = [scene |-> s, edges |-> e]
    BY <1>1 DEF ArePlaces
  <1>3. DOMAIN changed = DOMAIN places /\ \A p \in DOMAIN places \ {here} : changed[p] = places[p]
    BY DEF WithPath, ArePlaces
  <1>4. changed[here] = [old EXCEPT !.edges = @ \cup {n}]
    BY <1>1 DEF WithPath, ArePlaces
  <1>5. [old EXCEPT !.edges = @ \cup {n}] = [scene |-> old.scene, edges |-> old.edges \cup {n}]
    BY <1>2
  <1> QED
    BY <1>1, <1>3, <1>4, <1>5 DEF NewPlace, Joined

LEMMA IsPlaceAdded ==
  ASSUME NEW places, ArePlaces(places), NEW here \in DOMAIN places, NEW n, n \notin DOMAIN places
  PROVE  PlaceAdded(Merge(WithPath(places, here, n), One(n, NewPlace(places[here].scene, {here}))),
                    places, here, n)
  <1>1. PICK changed : changed = WithPath(places, here, n)
    OBVIOUS
  <1>2. PICK s, e : s = places[here].scene /\ e = places[here].edges
    OBVIOUS
  <1>3. PICK new : new = NewPlace(s, {here})
    OBVIOUS
  <1>4. PICK all : all = Merge(changed, One(n, new))
    OBVIOUS
  <1>5. /\ DOMAIN changed = DOMAIN places
        /\ \A p \in DOMAIN places \ {here} : changed[p] = places[p]
        /\ changed[here] = NewPlace(s, e \cup {n})
    <2>1. Joined(changed, places, here, n)
      BY <1>1, PathAdded, Zenon
    <2> QED
      BY <1>2, <2>1 DEF Joined
  <1>6. With(all, changed, n, new)
    BY <1>4, <1>5, OneMore, Zenon
  <1>7. /\ DOMAIN all = DOMAIN places \cup {n} /\ all = [p \in DOMAIN all |-> all[p]]
        /\ all[n] = NewPlace(s, {here}) /\ all[here] = NewPlace(s, e \cup {n})
        /\ \A p \in DOMAIN places \ {here} : all[p] = places[p]
    BY <1>3, <1>5, <1>6 DEF With
  <1>8. ASSUME NEW x, NEW y
        PROVE  /\ NewPlace(x, y).scene = x /\ NewPlace(x, y).edges = y
               /\ NewPlace(x, y) = [scene |-> NewPlace(x, y).scene, edges |-> NewPlace(x, y).edges]
    BY DEF NewPlace
  <1>9. ArePlaces(all)
    <2>1. ASSUME NEW p \in DOMAIN all
          PROVE  all[p] = [scene |-> all[p].scene, edges |-> all[p].edges]
      <3>1. CASE p = n
        BY <1>7, <1>8, <3>1
      <3>2. CASE p = here
        BY <1>7, <1>8, <3>2
      <3>3. CASE p \in DOMAIN places \ {here}
        BY <1>7, <3>3 DEF ArePlaces
      <3> QED
        BY <1>7, <3>1, <3>2, <3>3
    <2> QED
      BY <1>7, <2>1 DEF ArePlaces
  <1>10. PlaceAdded(all, places, here, n)
    BY <1>2, <1>7, <1>8, <1>9 DEF PlaceAdded
  <1> QED
    BY <1>1, <1>2, <1>3, <1>4, <1>10

LEMMA LinkedMore ==
  ASSUME NEW places, Linked(places), Inside(places),
         NEW here \in DOMAIN places, NEW n, n \notin DOMAIN places,
         NEW all, PlaceAdded(all, places, here, n)
  PROVE  Linked(all)
  <1>1. /\ DOMAIN all = DOMAIN places \cup {n}
        /\ \A p \in DOMAIN places : all[p].scene = places[p].scene /\ places[p].edges \subseteq all[p].edges
        /\ n \in all[here].edges
        /\ all[n].scene = places[here].scene /\ all[n].edges = {here}
    BY DEF PlaceAdded
  <1>2. ASSUME NEW C, Enclosed(all, C), NEW p \in C, NEW q \in DOMAIN all,
               all[q].scene = all[p].scene
        PROVE  q \in C
    <2>1. p \in DOMAIN all /\ C \in SUBSET DOMAIN all /\ \A x \in C : all[x].edges \subseteq C
      BY <1>2 DEF Enclosed
    <2>2. PICK D : D = C \ {n}
      OBVIOUS
    <2>3. Enclosed(places, D)
      <3>1. D \in SUBSET DOMAIN places
        BY <1>1, <2>1, <2>2
      <3>2. ASSUME NEW x \in D PROVE places[x].edges \subseteq D
        <4>1. places[x].edges \subseteq C
          BY <1>1, <2>1, <2>2, <3>1
        <4>2. n \notin places[x].edges
          BY <3>1 DEF Inside
        <4> QED
          BY <2>2, <4>1, <4>2
      <3> QED
        BY <3>1, <3>2 DEF Enclosed
    <2>4. n \in C => here \in D
      BY <1>1, <2>1, <2>2
    <2>5. here \in D => n \in C
      BY <1>1, <2>1, <2>2
    <2>6. PICK x \in D : places[x].scene = all[p].scene
      <3>1. CASE p = n
        BY <1>1, <2>4, <3>1
      <3>2. CASE p # n
        <4>1. p \in D /\ p \in DOMAIN places
          BY <1>1, <2>1, <2>2, <3>2
        <4> QED
          BY <1>1, <4>1
      <3> QED
        BY <3>1, <3>2
    <2>7. CASE q = n
      <3>1. places[here].scene = places[x].scene
        BY <1>1, <1>2, <2>6, <2>7
      <3>2. here \in D
        BY <2>3, <2>6, <3>1 DEF Linked
      <3> QED
        BY <2>5, <2>7, <3>2
    <2>8. CASE q # n
      <3>1. q \in DOMAIN places /\ places[q].scene = places[x].scene
        BY <1>1, <1>2, <2>6, <2>8
      <3>2. q \in D
        BY <2>3, <2>6, <3>1 DEF Linked
      <3> QED
        BY <2>2, <3>2
    <2> QED
      BY <2>7, <2>8
  <1> QED
    BY <1>2 DEF Linked

(* The places of a plan.                                                   *)

IsPlan(plan) ==
  /\ DOMAIN plan.edges = 1..Len(plan.edges) /\ Len(plan.edges) \in Nat
  /\ compile_scene(plan) /\ PlanJoined(plan.edges)
PlacesOf(places, id) ==
  /\ Linked(places) /\ Inside(places) /\ ArePlaces(places)
  /\ \A p \in DOMAIN places : p \in Int /\ p > id /\ places[p].scene = id

LEMMA PlanLinked ==
  ASSUME NEW plan, IsPlan(plan), NEW id \in Nat,
         NEW places, places = MaterializedPlaces(plan, id)
  PROVE  PlacesOf(places, id)
  <1>1. PICK L \in Nat : L = Len(plan.edges)
    BY DEF IsPlan
  <1>2. PICK edges : edges = plan.edges
    OBVIOUS
  <1>3. /\ DOMAIN places = (id + 1)..(id + L)
        /\ places = [p \in DOMAIN places |-> places[p]]
        /\ \A p \in DOMAIN places :
             places[p] = [scene |-> id, edges |-> {id + q : q \in edges[p - id]}]
    BY <1>1, <1>2 DEF MaterializedPlaces
  <1>4. DOMAIN edges = 1..L /\ \A p \in 1..L : edges[p] \subseteq 1..L
    BY <1>1, <1>2 DEF IsPlan, compile_scene
  <1>5. \A p \in 1..L : id + p \in DOMAIN places /\ (id + p) - id = p
    BY <1>3
  <1>6. \A x \in DOMAIN places : x - id \in 1..L /\ id + (x - id) = x
    BY <1>3
  <1>7. Inside(places)
    <2>1. ASSUME NEW x \in DOMAIN places PROVE places[x].edges \in SUBSET DOMAIN places
      <3>1. edges[x - id] \subseteq 1..L
        BY <1>4, <1>6
      <3>2. places[x].edges = {id + q : q \in edges[x - id]}
        BY <1>3
      <3> QED
        BY <1>5, <3>1, <3>2
    <2> QED
      BY <2>1 DEF Inside
  <1>8. ASSUME NEW C, Enclosed(places, C), NEW x \in C, NEW y \in DOMAIN places
        PROVE  y \in C
    <2>1. C \in SUBSET DOMAIN places /\ \A z \in C : places[z].edges \subseteq C
      BY <1>8 DEF Enclosed
    <2>2. PICK D : D = {p \in 1..L : id + p \in C}
      OBVIOUS
    <2>3. D \in SUBSET DOMAIN edges
      BY <1>4, <2>2
    <2>4. ASSUME NEW p \in D, NEW q \in edges[p] PROVE q \in D
      <3>1. p \in 1..L /\ id + p \in C /\ q \in 1..L
        BY <1>4, <2>2
      <3>2. places[id + p].edges = {id + r : r \in edges[p]}
        <4>1. (id + p) - id = p /\ id + p \in DOMAIN places
          BY <1>5, <3>1
        <4>2. places[id + p].edges = {id + r : r \in edges[(id + p) - id]}
          BY <1>3, <4>1
        <4> QED
          BY <4>1, <4>2
      <3>3. id + q \in C
        BY <2>1, <3>1, <3>2
      <3> QED
        BY <2>2, <3>1, <3>3
    <2>5. D # {}
      <3>1. x - id \in 1..L /\ id + (x - id) \in C
        BY <1>6, <2>1
      <3> QED
        BY <2>2, <3>1
    <2>6. D = DOMAIN edges
      <3>1. \A p \in D : edges[p] \subseteq D
        BY <2>4
      <3> QED
        BY <1>2, <2>3, <2>5, <3>1 DEF IsPlan, PlanJoined
    <2>7. y - id \in D
      BY <1>4, <1>6, <2>6
    <2>8. id + (y - id) \in C
      BY <2>2, <2>7
    <2> QED
      BY <1>6, <2>8
  <1>9. Linked(places)
    BY <1>8 DEF Linked
  <1>10. ArePlaces(places)
    BY <1>3 DEF ArePlaces
  <1>11. \A p \in DOMAIN places : p \in Int /\ p > id /\ places[p].scene = id
    BY <1>3
  <1> QED
    BY <1>7, <1>9, <1>10, <1>11 DEF PlacesOf

(***************************************************************************)
(* The player is in the active scene, and scenes are linked.               *)
(***************************************************************************)
InActive == place[char[player].location].scene = active
WalkInv == ItemsInv /\ Linked(place) /\ ArePlaces(place) /\ InActive

LEMMA WalkKept ==
  ASSUME ItemsInv', UNCHANGED <<place, active, player>>, WalkInv,
         place[char'[player].location].scene = place[char[player].location].scene
  PROVE  WalkInv'
  <1>1. InActive'
    BY DEF WalkInv, InActive
  <1> QED
    BY <1>1 DEF WalkInv

LEMMA StandsWhereItEnters ==
  ASSUME NEW chars, AreCharacters(chars), NEW a \in DOMAIN chars, NEW t, NEW scenes,
         Enter(a, t, scenes, chars)
  PROVE  active' = t /\ char'[a].location = scenes[t].entry
  <1>1. PICK ch : ch = chars[a] /\ IsCharacter(ch)
    BY DEF AreCharacters
  <1>2. PICK p, q, r, s : ch = [controller |-> p, lifetime |-> q, location |-> r, root |-> s]
    BY <1>1 DEF IsCharacter
  <1>3. PICK x : x = scenes[t].entry
    OBVIOUS
  <1>4. active' = t /\ char' = [chars EXCEPT ![a].location = x]
    BY <1>3 DEF Enter
  <1>5. char'[a] = [ch EXCEPT !.location = x]
    BY <1>1, <1>4
  <1>6. char'[a].location = x
    BY <1>2, <1>5
  <1> QED
    BY <1>3, <1>4, <1>6

LEMMA OtherFieldsKept ==
  ASSUME NEW chars, AreCharacters(chars), NEW a \in DOMAIN chars, NEW x, NEW others,
         others = [chars EXCEPT ![a].lifetime = x], NEW c \in DOMAIN chars
  PROVE  others[c].location = chars[c].location
  <1>1. PICK ch : ch = chars[c] /\ IsCharacter(ch)
    BY DEF AreCharacters
  <1>2. PICK p, q, r, s : ch = [controller |-> p, lifetime |-> q, location |-> r, root |-> s]
    BY <1>1 DEF IsCharacter
  <1>3. others[c] = ch \/ others[c] = [ch EXCEPT !.lifetime = x]
    BY <1>1
  <1> QED
    BY <1>1, <1>2, <1>3

LEMMA LocationMoved ==
  ASSUME NEW chars, AreCharacters(chars), NEW a \in DOMAIN chars, NEW x, NEW others,
         others = [chars EXCEPT ![a].location = x], NEW c \in DOMAIN chars
  PROVE  others[c].location = IF c = a THEN x ELSE chars[c].location
  <1>1. PICK ch : ch = chars[c] /\ IsCharacter(ch)
    BY DEF AreCharacters
  <1>2. PICK p, q, r, s : ch = [controller |-> p, lifetime |-> q, location |-> r, root |-> s]
    BY <1>1 DEF IsCharacter
  <1>3. CASE c = a
    <2>1. others[c] = [ch EXCEPT !.location = x]
      BY <1>1, <1>3
    <2> QED
      BY <1>2, <1>3, <2>1
  <1>4. CASE c # a
    BY <1>4
  <1> QED
    BY <1>3, <1>4

LEMMA PlayerFacts ==
  ASSUME ItemsInv
  PROVE  /\ player \in DOMAIN char /\ AreCharacters(char) /\ First \notin DOMAIN char
         /\ char[player].location \in DOMAIN place
         /\ Inside(place) /\ IsFiniteSet(DOMAIN place)
         /\ objects \in Nat /\ First = objects + 1 /\ DOMAIN place \subseteq 1..objects
         /\ DOMAIN scene \subseteq 1..objects
         /\ \A p \in DOMAIN place : place[p].scene \in DOMAIN scene
         /\ \A s \in DOMAIN scene : place[scene[s].entry].scene = s
  <1>1. player \in DOMAIN char /\ char[player].location \in DOMAIN place
    BY DEF ItemsInv, validate, ValidCharacters
  <1>2. \A p \in DOMAIN place : place[p].scene \in DOMAIN scene
    BY DEF ItemsInv, validate, ValidPlaces
  <1>3. \A s \in DOMAIN scene : place[scene[s].entry].scene = s
    BY DEF ItemsInv, validate, ValidScenes
  <1>4. First \notin DOMAIN char
    BY ItemFacts
  <1> QED
    BY <1>1, <1>2, <1>3, <1>4, ValidInside DEF ItemsInv, ObjectsNumbered, First

LEMMA MoveWalk ==
  ASSUME WalkInv, ItemsInv', NEW a \in DOMAIN char, NEW p, move_character(a, p)
  PROVE  WalkInv'
  <1>1. player \in DOMAIN char /\ AreCharacters(char)
    BY PlayerFacts DEF WalkInv
  <1>2. /\ char' = [char EXCEPT ![a].location = p]
        /\ place[char[a].location].scene = place[p].scene
        /\ UNCHANGED <<place, active, player>>
    BY DEF move_character
  <1>3. char'[player].location = IF player = a THEN p ELSE char[player].location
    BY <1>1, <1>2, LocationMoved
  <1>4. place[char'[player].location].scene = place[char[player].location].scene
    BY <1>2, <1>3
  <1> QED
    BY <1>2, <1>4, WalkKept

LEMMA PromoteWalk ==
  ASSUME WalkInv, ItemsInv', NEW a \in DOMAIN char, promote_character(a)
  PROVE  WalkInv'
  <1>1. player \in DOMAIN char /\ AreCharacters(char)
    BY PlayerFacts DEF WalkInv
  <1>2. char' = [char EXCEPT ![a].lifetime = Persistent] /\ UNCHANGED <<place, active, player>>
    BY DEF promote_character
  <1>3. char'[player].location = char[player].location
    BY <1>1, <1>2, OtherFieldsKept
  <1> QED
    BY <1>2, <1>3, WalkKept

LEMMA SpawnWalk ==
  ASSUME WalkInv, ItemsInv', NEW a \in DOMAIN char, NEW spec, NEW p, NEW persistent,
         spawn_character(a, spec, p, persistent)
  PROVE  WalkInv'
  <1>1. player \in DOMAIN char /\ First \notin DOMAIN char
    BY PlayerFacts DEF WalkInv
  <1>2. PICK new : char' = Merge(char, One(First, new))
    BY DEF spawn_character
  <1>3. UNCHANGED <<place, active, player>>
    BY DEF spawn_character
  <1>4. char'[player] = char[player]
    BY <1>1, <1>2 DEF Merge, One
  <1> QED
    BY <1>3, <1>4, WalkKept

LEMMA EnterWalk ==
  ASSUME WalkInv, ItemsInv', NEW a \in DOMAIN char, a = player, NEW s \in DOMAIN scene,
         Enter(a, s, scene, char), UNCHANGED <<scene, place, player>>
  PROVE  WalkInv'
  <1>1. AreCharacters(char) /\ place[scene[s].entry].scene = s
    BY PlayerFacts DEF WalkInv
  <1>2. active' = s /\ char'[a].location = scene[s].entry
    BY <1>1, StandsWhereItEnters
  <1>3. InActive'
    BY <1>1, <1>2 DEF InActive
  <1> QED
    BY <1>3 DEF WalkInv

LEMMA PlacesJoinedOn ==
  ASSUME WalkInv, NEW more, place' = Merge(place, more), NEW lo \in Nat, lo = First,
         Linked(more), Inside(more), ArePlaces(more),
         \A p \in DOMAIN more : more[p].scene = lo /\ p \in Int /\ p > lo
  PROVE  /\ Linked(place') /\ ArePlaces(place')
         /\ \A p \in DOMAIN place : place'[p] = place[p]
  <1>1. /\ Inside(place) /\ DOMAIN place \subseteq 1..objects /\ objects \in Nat
        /\ First = objects + 1 /\ DOMAIN scene \subseteq 1..objects
        /\ \A p \in DOMAIN place : place[p].scene \in DOMAIN scene
    BY PlayerFacts DEF WalkInv
  <1>2. (DOMAIN place) \cap (DOMAIN more) = {}
    BY <1>1
  <1>3. \A p \in DOMAIN place : \A q \in DOMAIN more : place[p].scene # more[q].scene
    <2>1. lo \notin 1..objects
      BY <1>1
    <2> QED
      BY <1>1, <2>1
  <1>4. Linked(place) /\ ArePlaces(place)
    BY DEF WalkInv
  <1>5. Linked(place') /\ ArePlaces(place')
    BY <1>1, <1>2, <1>3, <1>4, LinkedApart
  <1>6. Joins(place', place, more)
    BY <1>2, Merged, Zenon
  <1> QED
    BY <1>5, <1>6 DEF Joins

LEMMA CreateSceneWalk ==
  ASSUME WalkInv, ItemsInv', NEW a \in DOMAIN char, create_scene(a)
  PROVE  WalkInv'
  <1>1. PICK lo : lo = First
    OBVIOUS
  <1>2. lo \in Nat
    BY <1>1, PlayerFacts DEF WalkInv
  <1>3. PICK new : new = [scene |-> lo, edges |-> {}]
    OBVIOUS
  <1>4. new.scene = lo /\ new.edges = {} /\ new = [scene |-> new.scene, edges |-> new.edges]
    BY <1>3
  <1>5. PICK more : more = One(lo + 1, new)
    OBVIOUS
  <1>6. DOMAIN more = {lo + 1} /\ more[lo + 1] = new /\ more = [p \in DOMAIN more |-> more[p]]
    BY <1>5 DEF One
  <1>7. /\ place' = Merge(place, more) /\ UNCHANGED <<char, active, player>>
    BY <1>1, <1>3, <1>5 DEF create_scene
  <1>8. Inside(more) /\ ArePlaces(more) /\ Linked(more)
    <2>1. Inside(more)
      BY <1>4, <1>6 DEF Inside
    <2>2. ArePlaces(more)
      BY <1>4, <1>6 DEF ArePlaces
    <2>3. Linked(more)
      BY <1>6 DEF Linked, Enclosed
    <2> QED
      BY <2>1, <2>2, <2>3
  <1>9. \A p \in DOMAIN more : more[p].scene = lo /\ p \in Int /\ p > lo
    BY <1>2, <1>4, <1>6
  <1>10. /\ Linked(place') /\ ArePlaces(place')
         /\ \A p \in DOMAIN place : place'[p] = place[p]
    BY <1>1, <1>2, <1>7, <1>8, <1>9, PlacesJoinedOn
  <1>11. char[player].location \in DOMAIN place
    BY PlayerFacts DEF WalkInv
  <1>12. InActive'
    BY <1>7, <1>10, <1>11 DEF InActive, WalkInv
  <1> QED
    BY <1>10, <1>12 DEF WalkInv

LEMMA CreatePlaceWalk ==
  ASSUME WalkInv, ItemsInv', NEW a \in DOMAIN char, create_place(a)
  PROVE  WalkInv'
  <1>1. PICK here : here = char[a].location
    OBVIOUS
  <1>2. here \in DOMAIN place /\ First \notin DOMAIN place /\ a = player /\ Inside(place)
    BY <1>1, PlayerFacts, ItemFacts DEF WalkInv, create_place
  <1>3. /\ place[here].scene = active /\ UNCHANGED <<char, active, player>>
        /\ place' = Merge([place EXCEPT ![here].edges = @ \cup {First}],
                          One(First, [scene |-> active, edges |-> {here}]))
    BY <1>1 DEF create_place
  <1>4. place' = Merge(WithPath(place, here, First), One(First, NewPlace(place[here].scene, {here})))
    BY <1>3, Zenon DEF WithPath, NewPlace
  <1>5. ArePlaces(place) /\ Linked(place)
    BY DEF WalkInv
  <1>6. PlaceAdded(place', place, here, First)
    BY <1>2, <1>4, <1>5, IsPlaceAdded, Zenon
  <1>7. Linked(place')
    BY <1>2, <1>5, <1>6, LinkedMore
  <1>8. ArePlaces(place') /\ place'[here].scene = place[here].scene
    BY <1>6 DEF PlaceAdded
  <1>9. InActive'
    BY <1>1, <1>2, <1>3, <1>8 DEF InActive
  <1> QED
    BY <1>7, <1>8, <1>9 DEF WalkInv

(* A transition to a scene that is made for it.                            *)
LEMMA NewSceneWalk ==
  ASSUME PlansJoined, WalkInv, ItemsInv', NEW a \in DOMAIN char, a = player,
         NEW d \in DOMAIN Plans, compile_scene(Plans[d]),
         NEW scenes, NEW chars, scene' = scenes,
         First \in DOMAIN scenes,
         place' = Merge(place, MaterializedPlaces(Plans[d], First)),
         AreCharacters(chars), a \in DOMAIN chars,
         Enter(a, First, scenes, chars), UNCHANGED player
  PROVE  WalkInv'
  <1>1. PICK lo : lo = First
    OBVIOUS
  <1>2. lo \in Nat
    BY <1>1, PlayerFacts DEF WalkInv
  <1>3. PICK plan : plan = Plans[d]
    OBVIOUS
  <1>4. IsPlan(plan)
    BY <1>3, GameWorldAssumption DEF PlansJoined, IsPlan
  <1>5. PICK more : more = MaterializedPlaces(plan, lo)
    OBVIOUS
  <1>6. PlacesOf(more, lo)
    BY <1>2, <1>4, <1>5, PlanLinked
  <1>7. /\ Linked(more) /\ Inside(more) /\ ArePlaces(more)
        /\ \A p \in DOMAIN more : more[p].scene = lo /\ p \in Int /\ p > lo
    BY <1>6 DEF PlacesOf
  <1>8. place' = Merge(place, more)
    BY <1>1, <1>3, <1>5
  <1>9. Linked(place') /\ ArePlaces(place')
    BY <1>1, <1>2, <1>7, <1>8, PlacesJoinedOn
  <1>10. active' = First /\ char'[a].location = scenes[First].entry
    BY StandsWhereItEnters
  <1>11. place'[scene'[First].entry].scene = First
    BY DEF ItemsInv, validate, ValidScenes
  <1>12. InActive'
    BY <1>10, <1>11 DEF InActive
  <1> QED
    BY <1>9, <1>12 DEF WalkInv

LEMMA DefinitionWalk ==
  ASSUME PlansJoined, WalkInv, ItemsInv', NEW a \in DOMAIN char, NEW d \in DOMAIN Plans,
         transition_by_definition(a, d)
  PROVE  WalkInv'
  <1>1. a = player /\ UNCHANGED player
    BY DEF transition_by_definition, MayTransition
  <1>2. CASE /\ InstancesOf(d) # {}
             /\ Enter(a, CHOOSE s \in InstancesOf(d) : TRUE, scene, char)
             /\ UNCHANGED <<scene, place, item, objects>>
    <2>1. PICK s : s = CHOOSE t \in InstancesOf(d) : TRUE
      OBVIOUS
    <2>2. s \in InstancesOf(d)
      BY <1>2, <2>1
    <2>3. s \in DOMAIN scene
      BY <2>2 DEF InstancesOf
    <2> QED
      BY <1>1, <1>2, <2>1, <2>3, EnterWalk
  <1>3. CASE ~(/\ InstancesOf(d) # {}
               /\ Enter(a, CHOOSE s \in InstancesOf(d) : TRUE, scene, char)
               /\ UNCHANGED <<scene, place, item, objects>>)
    <2>1. PICK plan, entries : plan = Plans[d] /\ entries = NpcEntries(plan)
      OBVIOUS
    <2>2. PICK scenes :
            scenes = Merge(scene, One(First, [entry |-> First + plan.entry, origin |-> d]))
      OBVIOUS
    <2>3. PICK news : news = MaterializedCharacters(plan, entries, First)
      OBVIOUS
    <2>4. PICK chars : chars = Merge(char, news)
      OBVIOUS
    <2>5. /\ compile_scene(plan) /\ scene' = scenes
          /\ place' = Merge(place, MaterializedPlaces(plan, First))
          /\ Enter(a, First, scenes, chars)
      BY <1>3, <2>1, <2>2, <2>3, <2>4 DEF transition_by_definition
    <2>6. AreCharacters(chars) /\ a \in DOMAIN chars
      <3>1. AreEntries(entries) /\ Len(plan.edges) \in Nat
        BY <2>1, NpcsAreEntries, GameWorldAssumption
      <3>2. objects \in Nat /\ First = objects + 1 /\ First \in Nat
        BY DEF WalkInv, ItemsInv, ObjectsNumbered, First
      <3>3. PICK size, last : size = PlanSize(plan, entries) /\ last = First + size - 1
        OBVIOUS
      <3>4. PICK items : items = MaterializedItems(plan, entries, First)
        OBVIOUS
      <3>5. AreCharacters(news) /\ DOMAIN news \subseteq (First + 1)..last
            /\ size \in Nat \ {0}
        BY <2>3, <3>1, <3>2, <3>3, <3>4, MaterializedPlaced
      <3>6. AreCharacters(char) /\ DOMAIN char \subseteq 1..objects
        BY DEF WalkInv, ItemsInv, ObjectsNumbered
      <3>7. (DOMAIN char) \cap (DOMAIN news) = {}
        BY <3>2, <3>3, <3>5, <3>6
      <3>8. Joins(chars, char, news)
        BY <2>4, <3>7, Merged, Zenon
      <3> QED
        BY <3>5, <3>6, <3>8 DEF Joins, AreCharacters
    <2>7. First \in DOMAIN scenes
      BY <2>2 DEF Merge, One
    <2> QED
      BY <1>1, <2>1, <2>5, <2>6, <2>7, NewSceneWalk
  <1> QED
    BY <1>2, <1>3

LEMMA StartWalk ==
  ASSUME PlansJoined, NEW d \in Start, validate, ItemsInv, compile_scene(Plans[d]),
         place = MaterializedPlaces(Plans[d], 1), active = 1
  PROVE  WalkInv
  <1>1. PICK plan : plan = Plans[d]
    OBVIOUS
  <1>2. IsPlan(plan)
    BY <1>1, GameWorldAssumption DEF PlansJoined, IsPlan
  <1>3. 1 \in Nat /\ place = MaterializedPlaces(plan, 1)
    BY <1>1
  <1>4. Linked(place) /\ ArePlaces(place) /\ \A p \in DOMAIN place : place[p].scene = 1
    BY <1>2, <1>3, PlanLinked DEF PlacesOf
  <1>5. InActive
    BY <1>4, PlayerFacts DEF InActive
  <1> QED
    BY <1>4, <1>5 DEF WalkInv

LEMMA InitWalk ==
  ASSUME PlansJoined, GameInit
  PROVE  WalkInv
  <1>1. PICK d \in Start :
          /\ compile_scene(Plans[d]) /\ place = MaterializedPlaces(Plans[d], 1) /\ active = 1
    BY Zenon DEF GameInit
  <1>2. validate
    BY DEF GameInit
  <1> QED
    BY <1>1, <1>2, InitItems, StartWalk

LEMMA NextWalk ==
  ASSUME PlansJoined, WalkInv, GameNext
  PROVE  WalkInv'
  <1>1. PICK a \in DOMAIN char : CharacterCommand(a)
    BY DEF GameNext
  <1>2. ItemsInv'
    BY NextItems DEF WalkInv
  <1>3. CASE \E p \in DOMAIN place : move_character(a, p)
    BY <1>1, <1>2, <1>3, MoveWalk
  <1>4. CASE \/ \E i, c \in DOMAIN item : transfer_item(a, i, c)
             \/ \E i \in DOMAIN item : \E s \in ItemDefs[item[i].def].slots : equip_item(a, i, s)
             \/ \E i \in DOMAIN item : \E q \in 1..(item[i].stack - 1) : split_stack(a, i, q)
             \/ \E g \in Grants : apply_grant_item(a, g[1], g[2])
    <2>1. UNCHANGED <<place, char, active, player>>
      BY <1>4 DEF transfer_item, equip_item, split_stack, apply_grant_item
    <2> QED
      BY <1>2, <2>1, WalkKept
  <1>5. CASE \E spec \in compile_character, p \in DOMAIN place, persistent \in BOOLEAN :
               spawn_character(a, spec, p, persistent)
    BY <1>1, <1>2, <1>5, SpawnWalk
  <1>6. CASE \E spec \in compile_draft, p \in DOMAIN place, persistent \in BOOLEAN :
               spawn_character(a, spec, p, persistent)
    BY <1>1, <1>2, <1>6, SpawnWalk
  <1>7. CASE \E target \in DOMAIN char : promote_character(target)
    BY <1>1, <1>2, <1>7, PromoteWalk
  <1>8. CASE create_scene(a)
    BY <1>1, <1>2, <1>8, CreateSceneWalk
  <1>9. CASE create_place(a)
    BY <1>1, <1>2, <1>9, CreatePlaceWalk
  <1>10. CASE \E s \in DOMAIN scene : transition_existing(a, s)
    <2>1. PICK s \in DOMAIN scene : transition_existing(a, s)
      BY <1>10
    <2>2. a = player /\ Enter(a, s, scene, char) /\ UNCHANGED <<scene, place, player>>
      BY <2>1 DEF transition_existing, MayTransition
    <2> QED
      BY <1>1, <1>2, <2>2, EnterWalk
  <1>11. CASE \E d \in DOMAIN Plans : transition_by_definition(a, d)
    BY <1>1, <1>2, <1>11, DefinitionWalk
  <1> QED
    BY <1>1, <1>3, <1>4, <1>5, <1>6, <1>7, <1>8, <1>9, <1>10, <1>11, Zenon DEF CharacterCommand

LEMMA WalkInvFrame ==
  ASSUME WalkInv, UNCHANGED gameVars
  PROVE  WalkInv'
  <1>1. UNCHANGED <<place, char, active, player>>
    BY DEF gameVars
  <1>2. ItemsInv'
    BY ItemsInvFrame DEF WalkInv
  <1> QED
    BY <1>1, <1>2, WalkKept

LEMMA WalkGives ==
  ASSUME WalkInv
  PROVE  PlayerCanWalk
  <1>1. char[player].location \in DOMAIN place
    BY PlayerFacts DEF WalkInv
  <1>2. Walk(char[player].location)
          = {q \in DOMAIN place : place[q].scene = place[char[player].location].scene}
    BY <1>1, WalkReaches DEF WalkInv
  <1> QED
    BY <1>2 DEF PlayerCanWalk, WalkInv, InActive

(* If the places of every accepted scene definition are connected, the     *)
(* player stands in the active scene and can walk to each of its places,   *)
(* whatever create_place, create_scene and transition_scene add.           *)
THEOREM WalksOverScene ==
  ASSUME PlansJoined
  PROVE  GameSpec => []PlayerCanWalk
  <1>1. GameInit => WalkInv
    BY InitWalk
  <1>2. WalkInv /\ [GameNext]_gameVars => WalkInv'
    BY NextWalk, WalkInvFrame
  <1>3. WalkInv => PlayerCanWalk
    BY WalkGives
  <1> QED
    BY <1>1, <1>2, <1>3, PTL DEF GameSpec

=============================================================================
