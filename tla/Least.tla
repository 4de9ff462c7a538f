-------------------------------- MODULE Least -------------------------------
(***************************************************************************)
(* The least element of a set of numbers: the lemma behind every CHOOSE of *)
(* a first entry or an oldest file in the models.                          *)
(***************************************************************************)
EXTENDS Naturals, FiniteSetTheorems, TLAPS

(* A set of natural numbers that has an element has a least one.  Among    *)
(* the parts of it up to some element one has no smaller part.             *)
LEMMA LeastExists ==
    ASSUME NEW T, T \subseteq Nat, T # {}
    PROVE  \E x \in T : \A y \in T : x <= y
<1> DEFINE upTo(x) == {y \in T : y <= x}
           Parts == {upTo(x) : x \in T}
           Smaller == StrictSubsetOrdering(Nat)
<1>1. \A x \in T : upTo(x) \in FiniteSubsetsOf(Nat)
  <2>1. \A x \in T : upTo(x) \in SUBSET Nat /\ x \in Nat /\ \A y \in upTo(x) : y <= x
    OBVIOUS
  <2>2. \A x \in T : IsFiniteSet(upTo(x))
    BY <2>1, FS_BoundedSetOfNaturals
  <2>3. QED  BY <2>1, <2>2 DEF FiniteSubsetsOf
<1>2. Parts \subseteq FiniteSubsetsOf(Nat) /\ Parts # {}
  BY <1>1
<1>3. PICK P \in Parts : \A Q \in Parts : <<Q, P>> \notin Smaller
  <2> HIDE DEF Parts, Smaller
  <2>1. IsWellFoundedOn(Smaller, FiniteSubsetsOf(Nat))
    BY FS_StrictSubsetOrderingWellFounded DEF Smaller
  <2>2. QED  BY <1>2, <2>1, WFMin
<1>4. PICK x \in T : P = upTo(x)
  BY <1>3
<1>5. ASSUME NEW y \in T, ~(x <= y)
      PROVE  FALSE
  <2>1. x \in Nat /\ y \in Nat /\ y < x
    BY <1>5
  <2>2. x \in upTo(x) /\ x \notin upTo(y)
    BY <2>1
  <2>3. upTo(y) \subseteq upTo(x)
    <3>1. \A z \in T : z <= y => z <= x
      BY <2>1
    <3>2. QED  BY <3>1
  <2>4. <<upTo(y), P>> \in Smaller
    <3>1. upTo(y) \in SUBSET Nat /\ upTo(x) \in SUBSET Nat /\ upTo(y) # upTo(x)
      BY <2>2
    <3>2. QED  BY <2>3, <3>1, <1>4 DEF StrictSubsetOrdering
  <2>5. QED  BY <2>4, <1>3
<1>6. QED  BY <1>5

=============================================================================
