--------------------------- MODULE VpkRestartProofs -------------------------
(***************************************************************************)
(* Proofs about VpkRestart for any servers, policy, delay and warning:     *)
(* type correctness, and that nobody is thrown off a server unannounced.   *)
(***************************************************************************)
EXTENDS VpkRestart, FiniteSetTheorems, TLAPS

-----------------------------------------------------------------------------
(* The invariant *)

(* Under the policy that waits for an empty server, a countdown belongs to *)
(* an entry that is overdue, whoever started it and whoever sees it.       *)
Overdue(e) == Policy = "empty" => MaxDelay > 0 /\ age[e] = MaxDelay
CountdownsAreDue == \A e \in Entries : left[e] # None => Overdue(e)

(* A settler has an entry from the fetch to the end of settle; what it is  *)
(* about to warn for is overdue, what it restarts by force is announced.   *)
Holding == {"look", "warn", "drop", "ask"}
Fetched == \A p \in Settlers : entry[p] # None <=> pc[p] \in Holding
Announced(p) ==
    /\ pc[p] = "warn" => Overdue(entry[p])
    /\ (pc[p] \in {"drop", "ask"} /\ forced[p] /\ Policy # "immediate") =>
          Overdue(entry[p]) /\ (WarnTime > 0 => left[entry[p]] # None)

RestartInv == RestartTypeOK /\ Fetched /\ CountdownsAreDue /\ \A p \in Settlers : Announced(p)

-----------------------------------------------------------------------------
(* The entries *)

LEMMA NoneIsNoNumber == None \notin Entries /\ None \notin 0..WarnTime
BY RestartAssumption

(* Garbage takes no entry a settler holds, and brings no countdown.        *)
LEMMA CollectKeeps ==
    ASSUME RestartTypeOK, NEW countdown \in [Entries -> 0..WarnTime \cup {None}], collectWith(countdown)
    PROVE  /\ age' \in [Entries -> 0..MaxDelay]
           /\ left' \in [Entries -> 0..WarnTime \cup {None}]
           /\ \A p \in Settlers : entry'[p] \in Entries =>
                 /\ age'[entry'[p]] = age[entry'[p]]
                 /\ left'[entry'[p]] = countdown[entry'[p]]
           /\ \A e \in Entries :
                 left'[e] = None \/ (age'[e] = age[e] /\ left'[e] = countdown[e])
<1>1. /\ age'  = [e \in Entries |-> IF InUse(e)' THEN age[e] ELSE 0]
      /\ left' = [e \in Entries |-> IF InUse(e)' THEN countdown[e] ELSE None]
  BY DEF collectWith
<1>2. \A e \in Entries : age'[e] \in {age[e], 0} /\ left'[e] \in {countdown[e], None}
  BY <1>1
<1>3. age' \in [Entries -> 0..MaxDelay] /\ left' \in [Entries -> 0..WarnTime \cup {None}]
  <2>1. 0 \in 0..MaxDelay
    BY RestartAssumption
  <2>2. \A e \in Entries : age[e] \in 0..MaxDelay
    BY DEF RestartTypeOK
  <2>3. QED  BY <1>1, <1>2, <2>1, <2>2
<1>4. \A e \in Entries : (\E p \in Settlers : entry'[p] = e) =>
         age'[e] = age[e] /\ left'[e] = countdown[e]
  BY <1>1 DEF InUse
<1>5. \A p \in Settlers : entry'[p] \in Entries =>
         age'[entry'[p]] = age[entry'[p]] /\ left'[entry'[p]] = countdown[entry'[p]]
  BY <1>4
<1>6. \A e \in Entries : left'[e] = None \/ (age'[e] = age[e] /\ left'[e] = countdown[e])
  BY <1>1
<1>7. QED  BY <1>3, <1>5, <1>6

(* The image of a finite set has no more elements than the set.            *)
LEMMA ImageBound ==
    ASSUME NEW S, IsFiniteSet(S), NEW f
    PROVE  /\ IsFiniteSet({f[x] : x \in S})
           /\ Cardinality({f[x] : x \in S}) <= Cardinality(S)
<1> DEFINE T == {f[x] : x \in S}
           g == [x \in S |-> f[x]]
<1>1. g \in Surjection(S, T)
  BY DEF Surjection
<1> HIDE DEF T, g
<1>2. IsFiniteSet(T) /\ Cardinality(T) <= Cardinality(S)
  BY <1>1, FS_Surjection
<1>3. QED  BY <1>2 DEF T

(* owe finds an entry nobody points to: the other servers and the other    *)
(* settlers are too few to use them all.                                   *)
LEMMA FreshExists ==
    ASSUME RestartTypeOK, Fetched, NEW c \in Containers, pc[c] = "owe", owed[c] = None
    PROVE  Fresh \in Entries /\ ~InUse(Fresh)
<1> DEFINE others == Containers \ {c}
           rest   == Settlers \ {c}
           A == {owed[d] : d \in others}
           B == {entry[p] : p \in rest}
           n == Cardinality(Containers)
<1>1. n \in Nat /\ IsFiniteSet(Containers)
  BY RestartAssumption, FS_CardinalityType
<1>2. IsFiniteSet(others) /\ Cardinality(others) = n - 1
  BY <1>1, FS_RemoveElement
<1>3. IsFiniteSet(rest) /\ Cardinality(rest) = n
  <2>1. IsFiniteSet(Settlers) /\ Cardinality(Settlers) = n + 1
    BY <1>1, FS_AddElement, RestartAssumption DEF Settlers
  <2>2. c \in Settlers
    BY DEF Settlers
  <2>3. IsFiniteSet(rest) /\ Cardinality(rest) = Cardinality(Settlers) - 1
    BY <2>1, <2>2, FS_RemoveElement
  <2>4. QED  BY <1>1, <2>1, <2>3
<1>4. IsFiniteSet(A) /\ Cardinality(A) <= n - 1 /\ Cardinality(A) \in Nat
  <2> HIDE DEF others
  <2>1. IsFiniteSet(A) /\ Cardinality(A) <= Cardinality(others)
    BY <1>2, ImageBound
  <2>2. QED  BY <1>2, <2>1, FS_CardinalityType
<1>5. IsFiniteSet(B) /\ Cardinality(B) <= n /\ Cardinality(B) \in Nat
  <2> HIDE DEF rest
  <2>1. IsFiniteSet(B) /\ Cardinality(B) <= Cardinality(rest)
    BY <1>3, ImageBound
  <2>2. QED  BY <1>3, <2>1, FS_CardinalityType
<1>6. \A e \in Entries : InUse(e) => e \in A \cup B
  <2>1. entry[c] = None
    BY DEF Fetched, Holding, Settlers
  <2>2. \A e \in Entries : e # None
    BY NoneIsNoNumber
  <2>3. QED  BY <2>1, <2>2 DEF InUse
<1>7. \E e \in Entries : ~InUse(e)
  <2> HIDE DEF A, B
  <2>1. SUFFICES ASSUME \A e \in Entries : InUse(e) PROVE FALSE
    OBVIOUS
  <2>2. Entries \in SUBSET (A \cup B)
    BY <1>6, <2>1
  <2>3. /\ IsFiniteSet(A \cup B)
        /\ Cardinality(A \cup B) = Cardinality(A) + Cardinality(B) - Cardinality(A \cap B)
    BY <1>4, <1>5, FS_Union
  <2>4. Cardinality(A \cap B) \in Nat
    BY <1>4, FS_Intersection, FS_CardinalityType
  <2>5. Cardinality(Entries) <= Cardinality(A \cup B) /\ Cardinality(Entries) \in Nat
    BY <2>2, <2>3, RestartAssumption, FS_Subset, FS_CardinalityType
  <2>6. Cardinality(Entries) >= 2 * n
    BY RestartAssumption
  <2> HIDE DEF n
  <2>7. QED  BY <1>1, <1>4, <1>5, <2>3, <2>4, <2>5, <2>6
<1>8. QED  BY <1>7 DEF Fresh

-----------------------------------------------------------------------------
(* What a step leaves standing *)

(* An entry that was overdue still is, a countdown still runs.             *)
Keeps(e) ==
    /\ age[e] = MaxDelay => age'[e] = MaxDelay
    /\ left[e] # None => left'[e] # None

LEMMA CountdownsStand ==
    ASSUME CountdownsAreDue, \A e \in Entries : left'[e] # None => left[e] # None /\ Keeps(e)
    PROVE  CountdownsAreDue'
BY DEF CountdownsAreDue, Overdue, Keeps

(* The settlers a step does not move keep what they have seen, when their  *)
(* entries do.                                                             *)
LEMMA OthersStand ==
    ASSUME RestartTypeOK, Fetched, NEW moving,
           \A q \in Settlers \ moving :
              /\ pc'[q] = pc[q] /\ entry'[q] = entry[q] /\ forced'[q] = forced[q]
              /\ Announced(q)
              /\ entry[q] \in Entries => Keeps(entry[q])
    PROVE  \A q \in Settlers \ moving : (entry'[q] # None <=> pc'[q] \in Holding) /\ Announced(q)'
<1> SUFFICES ASSUME NEW q \in Settlers \ moving
             PROVE  (entry'[q] # None <=> pc'[q] \in Holding) /\ Announced(q)'
  OBVIOUS
<1>1. entry'[q] # None <=> pc'[q] \in Holding
  BY DEF Fetched
<1>2. Announced(q)'
  <2>1. CASE pc[q] \in Holding
    <3>1. Keeps(entry[q])
      BY <2>1 DEF RestartTypeOK, Fetched
    <3>2. QED  BY <3>1 DEF Announced, Overdue, Keeps
  <2>2. CASE pc[q] \notin Holding
    BY <2>2 DEF Announced, Holding
  <2>3. QED  BY <2>1, <2>2
<1>3. QED  BY <1>1, <1>2

(* Collecting garbage keeps the entries the settlers hold.                 *)
LEMMA CollectStands ==
    ASSUME RestartTypeOK, CountdownsAreDue, collect
    PROVE  /\ age' \in [Entries -> 0..MaxDelay]
           /\ left' \in [Entries -> 0..WarnTime \cup {None}]
           /\ CountdownsAreDue'
           /\ \A p \in Settlers : entry'[p] \in Entries => Keeps(entry'[p])
<1>1. left \in [Entries -> 0..WarnTime \cup {None}] /\ collectWith(left)
  BY DEF RestartTypeOK, collect
<1>2. /\ age' \in [Entries -> 0..MaxDelay]
      /\ left' \in [Entries -> 0..WarnTime \cup {None}]
      /\ \A p \in Settlers : entry'[p] \in Entries =>
            age'[entry'[p]] = age[entry'[p]] /\ left'[entry'[p]] = left[entry'[p]]
      /\ \A e \in Entries : left'[e] = None \/ (age'[e] = age[e] /\ left'[e] = left[e])
  BY <1>1, CollectKeeps
<1>3. \A e \in Entries : left'[e] # None => left[e] # None /\ Keeps(e)
  BY <1>2 DEF Keeps
<1>4. CountdownsAreDue'
  BY <1>3, CountdownsStand
<1>5. \A p \in Settlers : entry'[p] \in Entries => Keeps(entry'[p])
  BY <1>2 DEF Keeps
<1>6. QED  BY <1>2, <1>4, <1>5

-----------------------------------------------------------------------------
(* The steps *)

LEMMA InitHolds == RestartInit => RestartInv
<1> SUFFICES ASSUME RestartInit PROVE RestartInv
  OBVIOUS
<1>1. 0 \in 0..MaxDelay /\ 0 \in 0..MaxDies
  BY RestartAssumption
<1>2. RestartTypeOK
  BY <1>1 DEF RestartInit, RestartTypeOK, Places
<1>3. Fetched /\ CountdownsAreDue /\ \A p \in Settlers : Announced(p)
  BY DEF RestartInit, Fetched, Holding, CountdownsAreDue, Announced
<1>4. QED  BY <1>2, <1>3 DEF RestartInv

(* A step that touches neither the entries nor the settlers.               *)
LEMMA OutsideHolds ==
    ASSUME RestartInv, UNCHANGED <<entryVars, settleVars>>, RestartTypeOK'
    PROVE  RestartInv'
BY DEF RestartInv, Fetched, CountdownsAreDue, Announced, Overdue, entryVars, settleVars

(* A step of a settler that leaves the entries alone.                      *)
LEMMA MoverHolds ==
    ASSUME RestartInv, RestartTypeOK', CountdownsAreDue', NEW p \in Settlers,
           \A q \in Settlers \ {p} :
              pc'[q] = pc[q] /\ entry'[q] = entry[q] /\ forced'[q] = forced[q],
           \A q \in Settlers \ {p} : entry'[q] \in Entries => Keeps(entry'[q]),
           entry'[p] # None <=> pc'[p] \in Holding, Announced(p)'
    PROVE  RestartInv'
<1>1. \A q \in Settlers \ {p} :
         /\ pc'[q] = pc[q] /\ entry'[q] = entry[q] /\ forced'[q] = forced[q]
         /\ Announced(q)
         /\ entry[q] \in Entries => Keeps(entry[q])
  BY DEF RestartInv
<1>2. \A q \in Settlers \ {p} : (entry'[q] # None <=> pc'[q] \in Holding) /\ Announced(q)'
  BY <1>1, OthersStand DEF RestartInv
<1>3. \A q \in Settlers : (entry'[q] # None <=> pc'[q] \in Holding) /\ Announced(q)'
  BY <1>2
<1>4. QED  BY <1>3 DEF RestartInv, Fetched

LEMMA StopType ==
    ASSUME RestartTypeOK, NEW c \in Containers, stop(c)
    PROVE  /\ up' \in [Containers -> BOOLEAN]
           /\ players' \in [Containers -> BOOLEAN]
           /\ known' \in [Containers -> BOOLEAN] /\ seen' \in [Containers -> BOOLEAN]
           /\ dies' \in [Containers -> 0..MaxDies]
           /\ open' \in BOOLEAN
<1>1. MaxDies \in Nat /\ dies[c] \in 0..MaxDies
  BY RestartAssumption DEF RestartTypeOK
<1>2. dies[c] + 1 \in 0..MaxDies
  BY <1>1 DEF stop
<1>3. QED  BY <1>2 DEF stop, RestartTypeOK

LEMMA OweHolds == ASSUME RestartInv, NEW c \in Containers, owe(c) PROVE RestartInv'
<1>1. RestartTypeOK /\ Fetched /\ CountdownsAreDue /\ c \in Settlers
  BY DEF RestartInv, Settlers
<1>2. owed'[c] \in Entries
  <2>1. CASE owed[c] = None
    <3>1. Fresh \in Entries
      BY <1>1, <2>1, FreshExists DEF owe, At
    <3>2. QED  BY <1>1, <2>1, <3>1 DEF owe, RestartTypeOK
  <2>2. CASE owed[c] # None
    BY <1>1, <2>2 DEF owe, RestartTypeOK
  <2>3. QED  BY <2>1, <2>2
<1>3. RestartTypeOK'
  <2>1. owed' \in [Containers -> Entries \cup {None}]
    BY <1>1, <1>2 DEF owe, RestartTypeOK
  <2>2. QED  BY <1>1, <2>1 DEF owe, At, RestartTypeOK, Places, serverVars, entryVars
<1>4. CountdownsAreDue'
  BY <1>1 DEF owe, CountdownsAreDue, Overdue, entryVars
<1>5. entry'[c] # None <=> pc'[c] \in Holding
  BY <1>1 DEF owe, At, RestartTypeOK, Fetched, Holding
<1>6. Announced(c)'
  BY <1>1 DEF owe, At, RestartTypeOK, Announced
<1>7. \A q \in Settlers \ {c} :
         pc'[q] = pc[q] /\ entry'[q] = entry[q] /\ forced'[q] = forced[q]
  BY <1>1 DEF owe, At, RestartTypeOK
<1>8. \A q \in Settlers \ {c} : entry'[q] \in Entries => Keeps(entry'[q])
  BY DEF owe, Keeps, entryVars
<1>9. QED  BY <1>1, <1>3, <1>4, <1>5, <1>6, <1>7, <1>8, MoverHolds

LEMMA PushedHolds == ASSUME RestartInv, NEW c \in Containers, pushed(c) PROVE RestartInv'
<1>1. RestartTypeOK /\ Fetched /\ CountdownsAreDue /\ c \in Settlers
  BY DEF RestartInv, Settlers
<1>2. RestartTypeOK'
  BY <1>1 DEF pushed, At, RestartTypeOK, Places, serverVars, entryVars
<1>3. CountdownsAreDue'
  BY <1>1 DEF pushed, CountdownsAreDue, Overdue, entryVars
<1>4. (entry'[c] # None <=> pc'[c] \in Holding) /\ Announced(c)'
  BY <1>1 DEF pushed, At, RestartTypeOK, Fetched, Holding, Announced
<1>5. \A q \in Settlers \ {c} :
         pc'[q] = pc[q] /\ entry'[q] = entry[q] /\ forced'[q] = forced[q]
  BY <1>1 DEF pushed, At, RestartTypeOK
<1>6. \A q \in Settlers \ {c} : entry'[q] \in Entries => Keeps(entry'[q])
  BY DEF pushed, Keeps, entryVars
<1>7. QED  BY <1>1, <1>2, <1>3, <1>4, <1>5, <1>6, MoverHolds

LEMMA TickHolds == ASSUME RestartInv, NEW c \in Containers, tick(c) PROVE RestartInv'
<1>1. RestartTypeOK /\ Fetched /\ CountdownsAreDue /\ Loop \in Settlers
  BY DEF RestartInv, Settlers
<1>2. RestartTypeOK'
  BY <1>1 DEF tick, At, RestartTypeOK, Places, entryVars, serverVars
<1>3. CountdownsAreDue'
  BY <1>1 DEF tick, CountdownsAreDue, Overdue, entryVars
<1>4. (entry'[Loop] # None <=> pc'[Loop] \in Holding) /\ Announced(Loop)'
  BY <1>1 DEF tick, At, RestartTypeOK, Fetched, Holding, Announced
<1>5. \A q \in Settlers \ {Loop} :
         pc'[q] = pc[q] /\ entry'[q] = entry[q] /\ forced'[q] = forced[q]
  BY <1>1 DEF tick, At, RestartTypeOK
<1>6. \A q \in Settlers \ {Loop} : entry'[q] \in Entries => Keeps(entry'[q])
  BY DEF tick, Keeps, entryVars
<1>7. QED  BY <1>1, <1>2, <1>3, <1>4, <1>5, <1>6, MoverHolds

LEMMA FetchHolds == ASSUME RestartInv, NEW p \in Settlers, fetch(p) PROVE RestartInv'
<1>1. RestartTypeOK /\ Fetched /\ CountdownsAreDue
  BY DEF RestartInv
<1>2. owed[on[p]] \in Entries \cup {None}
  BY <1>1 DEF RestartTypeOK
<1>3. RestartTypeOK'
  BY <1>1, <1>2 DEF fetch, At, RestartTypeOK, Places, entryVars, serverVars
<1>4. CountdownsAreDue'
  BY <1>1 DEF fetch, CountdownsAreDue, Overdue, entryVars
<1>5. (entry'[p] # None <=> pc'[p] \in Holding) /\ Announced(p)'
  BY <1>1, <1>2 DEF fetch, At, RestartTypeOK, Holding, Announced
<1>6. \A q \in Settlers \ {p} :
         pc'[q] = pc[q] /\ entry'[q] = entry[q] /\ forced'[q] = forced[q]
  BY <1>1 DEF fetch, At, RestartTypeOK
<1>7. \A q \in Settlers \ {p} : entry'[q] \in Entries => Keeps(entry'[q])
  BY DEF fetch, Keeps, entryVars
<1>8. QED  BY <1>1, <1>3, <1>4, <1>5, <1>6, <1>7, MoverHolds

(* A settler that looks warns for what is overdue, and restarts by force   *)
(* only what a countdown was started for.                                  *)
LEMMA LookHolds == ASSUME RestartInv, NEW p \in Settlers, look(p) PROVE RestartInv'
<1> DEFINE next == Verdict(on[p], entry[p])
<1>1. RestartTypeOK /\ Fetched /\ CountdownsAreDue
  BY DEF RestartInv
<1>2. /\ entry[p] \in Entries /\ on[p] \in Containers
      /\ age[entry[p]] \in 0..MaxDelay /\ left[entry[p]] \in 0..WarnTime \cup {None}
  BY <1>1 DEF look, RestartTypeOK, Fetched, Holding
<1>3. next \in {"idle", "warn", "drop"}
  BY DEF Verdict, Decide
<1>4. next = "warn" => Overdue(entry[p])
  <2>1. next = "warn" => Due(entry[p])
    BY DEF Verdict, Decide
  <2>2. Due(entry[p]) => Overdue(entry[p])
    BY <1>2, RestartAssumption DEF Due, Overdue
  <2>3. QED  BY <2>1, <2>2
<1>5. (next = "drop" /\ Occupied(on[p]) /\ Policy # "immediate") =>
         left[entry[p]] # None /\ Overdue(entry[p])
  <2>1. (next = "drop" /\ Occupied(on[p]) /\ Policy # "immediate") => left[entry[p]] # None
    BY DEF Verdict, Decide
  <2>2. QED  BY <1>1, <1>2, <2>1 DEF CountdownsAreDue
<1> HIDE DEF next
<1>6. /\ pc' = [pc EXCEPT ![p] = next]
      /\ forced' = [forced EXCEPT ![p] = next # "idle" /\ Occupied(on[p])]
      /\ entry' = IF next = "idle" THEN [entry EXCEPT ![p] = None] ELSE entry
      /\ UNCHANGED <<serverVars, owed, on>>
      /\ collect
  BY DEF look, next
<1>7. /\ pc'[p] = next /\ forced'[p] = (next # "idle" /\ Occupied(on[p]))
      /\ entry'[p] = IF next = "idle" THEN None ELSE entry[p]
      /\ \A q \in Settlers \ {p} :
            pc'[q] = pc[q] /\ entry'[q] = entry[q] /\ forced'[q] = forced[q]
  BY <1>1, <1>6 DEF RestartTypeOK
<1>8. /\ age' \in [Entries -> 0..MaxDelay]
      /\ left' \in [Entries -> 0..WarnTime \cup {None}]
      /\ CountdownsAreDue'
      /\ \A q \in Settlers : entry'[q] \in Entries => Keeps(entry'[q])
  BY <1>1, <1>6, CollectStands
<1>9. RestartTypeOK'
  <2>1. pc' \in [Settlers -> Places]
    BY <1>1, <1>3, <1>6 DEF RestartTypeOK, Places
  <2>2. entry' \in [Settlers -> Entries \cup {None}] /\ forced' \in [Settlers -> BOOLEAN]
    BY <1>1, <1>6 DEF RestartTypeOK
  <2>3. QED  BY <1>1, <1>6, <1>8, <2>1, <2>2 DEF RestartTypeOK, serverVars
<1>10. entry'[p] # None <=> pc'[p] \in Holding
  BY <1>2, <1>3, <1>7, NoneIsNoNumber DEF Holding
<1>11. Announced(p)'
  <2>1. next # "idle" => Keeps(entry[p]) /\ entry'[p] = entry[p]
    BY <1>2, <1>7, <1>8
  <2>2. pc'[p] = "warn" => Overdue(entry[p])'
    BY <1>4, <1>7, <2>1 DEF Overdue, Keeps
  <2>3. (pc'[p] \in {"drop", "ask"} /\ forced'[p] /\ Policy # "immediate") =>
           Overdue(entry[p])' /\ left'[entry'[p]] # None
    BY <1>3, <1>5, <1>7, <2>1 DEF Overdue, Keeps
  <2>4. QED  BY <2>2, <2>3 DEF Announced
<1>12. QED  BY <1>1, <1>7, <1>8, <1>9, <1>10, <1>11, MoverHolds

(* The countdown a settler starts is for an overdue entry.                 *)
LEMMA WarnHolds == ASSUME RestartInv, NEW p \in Settlers, warn(p) PROVE RestartInv'
<1>1. RestartTypeOK /\ Fetched /\ CountdownsAreDue /\ Announced(p)
  BY DEF RestartInv
<1>2. entry[p] \in Entries /\ pc[p] = "warn" /\ Overdue(entry[p])
  BY <1>1 DEF warn, RestartTypeOK, Fetched, Holding, Announced
<1>3. CASE WarnTime > 0 /\ left[entry[p]] = None
  <2> DEFINE started == [left EXCEPT ![entry[p]] = WarnTime]
  <2>1. started \in [Entries -> 0..WarnTime \cup {None}]
    <3>1. WarnTime \in 0..WarnTime
      BY RestartAssumption
    <3>2. QED  BY <1>1, <3>1 DEF RestartTypeOK
  <2>2. \A e \in Entries : started[e] = IF e = entry[p] THEN WarnTime ELSE left[e]
    BY <1>1 DEF RestartTypeOK
  <2>3. collectWith(started)
    BY <1>3 DEF warn
  <2> HIDE DEF started
  <2>4. /\ age' \in [Entries -> 0..MaxDelay]
        /\ left' \in [Entries -> 0..WarnTime \cup {None}]
        /\ \A q \in Settlers : entry'[q] \in Entries =>
              age'[entry'[q]] = age[entry'[q]] /\ left'[entry'[q]] = started[entry'[q]]
        /\ \A e \in Entries : left'[e] = None \/ (age'[e] = age[e] /\ left'[e] = started[e])
    BY <1>1, <2>1, <2>3, CollectKeeps
  <2>5. WarnTime # None
    BY RestartAssumption
  <2>6. \A q \in Settlers : entry'[q] \in Entries => Keeps(entry'[q])
    BY <2>2, <2>4, <2>5 DEF Keeps
  <2>7. CountdownsAreDue'
    BY <1>1, <1>2, <2>2, <2>4 DEF CountdownsAreDue, Overdue
  <2>8. /\ At(p, "warn", "idle") /\ UNCHANGED <<serverVars, owed, on>>
        /\ entry' = [entry EXCEPT ![p] = None] /\ forced' = [forced EXCEPT ![p] = FALSE]
    BY <1>3 DEF warn
  <2>9. RestartTypeOK'
    <3>1. pc' \in [Settlers -> Places]
      BY <1>1, <2>8 DEF At, RestartTypeOK, Places
    <3>2. entry' \in [Settlers -> Entries \cup {None}] /\ forced' \in [Settlers -> BOOLEAN]
      BY <1>1, <2>8 DEF RestartTypeOK
    <3>3. QED  BY <1>1, <2>4, <2>8, <3>1, <3>2 DEF RestartTypeOK, serverVars
  <2>10. (entry'[p] # None <=> pc'[p] \in Holding) /\ Announced(p)'
    BY <1>1, <2>8 DEF At, RestartTypeOK, Holding, Announced
  <2>11. \A q \in Settlers \ {p} :
            pc'[q] = pc[q] /\ entry'[q] = entry[q] /\ forced'[q] = forced[q]
    BY <1>1, <2>8 DEF At, RestartTypeOK
  <2>12. QED  BY <1>1, <2>6, <2>7, <2>9, <2>10, <2>11, MoverHolds
<1>4. CASE ~(WarnTime > 0 /\ left[entry[p]] = None)
  <2>1. At(p, "warn", "drop") /\ UNCHANGED <<serverVars, owed, on, entryVars, entry, forced>>
    BY <1>4 DEF warn
  <2>2. RestartTypeOK'
    BY <1>1, <2>1 DEF At, RestartTypeOK, Places, entryVars, serverVars
  <2>3. CountdownsAreDue'
    BY <1>1, <2>1 DEF CountdownsAreDue, Overdue, entryVars
  <2>4. entry'[p] # None <=> pc'[p] \in Holding
    BY <1>1, <2>1 DEF At, RestartTypeOK, Fetched, Holding
  <2>5. Announced(p)'
    <3>1. entry' = entry /\ age' = age /\ left' = left /\ pc'[p] = "drop"
      BY <1>1, <2>1 DEF At, RestartTypeOK, entryVars
    <3>2. WarnTime > 0 => left[entry[p]] # None
      BY <1>4
    <3>3. QED  BY <1>2, <3>1, <3>2 DEF Announced, Overdue
  <2>6. \A q \in Settlers \ {p} :
           pc'[q] = pc[q] /\ entry'[q] = entry[q] /\ forced'[q] = forced[q]
    BY <1>1, <2>1 DEF At, RestartTypeOK
  <2>7. \A q \in Settlers \ {p} : entry'[q] \in Entries => Keeps(entry'[q])
    BY <2>1 DEF Keeps, entryVars
  <2>8. QED  BY <1>1, <2>2, <2>3, <2>4, <2>5, <2>6, <2>7, MoverHolds
<1>5. QED  BY <1>3, <1>4

LEMMA DeleteHolds == ASSUME RestartInv, NEW p \in Settlers, delete(p) PROVE RestartInv'
<1>1. RestartTypeOK /\ Fetched /\ CountdownsAreDue /\ Announced(p)
  BY DEF RestartInv
<1>2. /\ age' \in [Entries -> 0..MaxDelay]
      /\ left' \in [Entries -> 0..WarnTime \cup {None}]
      /\ CountdownsAreDue'
      /\ \A q \in Settlers : entry'[q] \in Entries => Keeps(entry'[q])
  BY <1>1, CollectStands DEF delete
<1>3. entry[p] \in Entries /\ pc[p] = "drop" /\ pc'[p] = "ask" /\ entry' = entry /\ forced' = forced
  BY <1>1 DEF delete, At, RestartTypeOK, Fetched, Holding
<1>4. RestartTypeOK'
  <2>1. pc' \in [Settlers -> Places] /\ owed' \in [Containers -> Entries \cup {None}]
    BY <1>1 DEF delete, At, RestartTypeOK, Places
  <2>2. QED  BY <1>1, <1>2, <2>1 DEF delete, RestartTypeOK, serverVars
<1>5. (entry'[p] # None <=> pc'[p] \in Holding) /\ Announced(p)'
  <2>1. Keeps(entry[p])
    BY <1>2, <1>3
  <2>2. QED  BY <1>1, <1>3, <2>1 DEF Fetched, Holding, Announced, Overdue, Keeps
<1>6. \A q \in Settlers \ {p} :
         pc'[q] = pc[q] /\ entry'[q] = entry[q] /\ forced'[q] = forced[q]
  BY <1>1 DEF delete, At, RestartTypeOK
<1>7. QED  BY <1>1, <1>2, <1>4, <1>5, <1>6, MoverHolds

LEMMA AskHolds == ASSUME RestartInv, NEW p \in Settlers, ask(p) PROVE RestartInv'
<1>1. RestartTypeOK /\ Fetched /\ CountdownsAreDue
  BY DEF RestartInv
<1>2. /\ age' \in [Entries -> 0..MaxDelay]
      /\ left' \in [Entries -> 0..WarnTime \cup {None}]
      /\ CountdownsAreDue'
      /\ \A q \in Settlers : entry'[q] \in Entries => Keeps(entry'[q])
  BY <1>1, CollectStands DEF ask
<1>3. RestartTypeOK'
  <2>1. /\ up' \in [Containers -> BOOLEAN]
        /\ players' \in [Containers -> BOOLEAN]
        /\ known' \in [Containers -> BOOLEAN] /\ seen' \in [Containers -> BOOLEAN]
        /\ dies' \in [Containers -> 0..MaxDies]
        /\ open' \in BOOLEAN
    <3>1. CASE stop(on[p])
      <4>1. on[p] \in Containers
        BY <1>1 DEF RestartTypeOK
      <4>2. QED  BY <1>1, <3>1, <4>1, StopType
    <3>2. CASE UNCHANGED serverVars
      BY <1>1, <3>2 DEF RestartTypeOK, serverVars
    <3>3. QED  BY <3>1, <3>2 DEF ask
  <2>2. /\ pc' \in [Settlers -> Places] /\ forced' \in [Settlers -> BOOLEAN]
        /\ entry' \in [Settlers -> Entries \cup {None}]
    BY <1>1 DEF ask, At, RestartTypeOK, Places
  <2>3. owed' \in [Containers -> Entries \cup {None}] /\ on' \in [Settlers -> Containers]
    BY <1>1 DEF ask, RestartTypeOK
  <2>4. QED  BY <1>2, <2>1, <2>2, <2>3 DEF RestartTypeOK
<1>4. (entry'[p] # None <=> pc'[p] \in Holding) /\ Announced(p)'
  BY <1>1 DEF ask, At, RestartTypeOK, Holding, Announced
<1>5. \A q \in Settlers \ {p} :
         pc'[q] = pc[q] /\ entry'[q] = entry[q] /\ forced'[q] = forced[q]
  BY <1>1 DEF ask, At, RestartTypeOK
<1>6. QED  BY <1>1, <1>2, <1>3, <1>4, <1>5, MoverHolds

(* A Die event takes the entry of a server from the map, from no settler.  *)
LEMMA ForgetHolds == ASSUME RestartInv, NEW c \in Containers, forget(c) PROVE RestartInv'
<1>1. RestartTypeOK /\ Fetched /\ CountdownsAreDue
  BY DEF RestartInv
<1>2. /\ age' \in [Entries -> 0..MaxDelay]
      /\ left' \in [Entries -> 0..WarnTime \cup {None}]
      /\ CountdownsAreDue'
      /\ \A q \in Settlers : entry'[q] \in Entries => Keeps(entry'[q])
  BY <1>1, CollectStands DEF forget
<1>3. dies' \in [Containers -> 0..MaxDies]
  <2>1. MaxDies \in Nat /\ dies[c] \in 0..MaxDies
    BY <1>1, RestartAssumption DEF RestartTypeOK
  <2>2. dies[c] - 1 \in 0..MaxDies
    BY <2>1 DEF forget
  <2>3. QED  BY <1>1, <2>2 DEF forget, RestartTypeOK
<1>4. RestartTypeOK'
  BY <1>1, <1>2, <1>3 DEF forget, RestartTypeOK, settleVars
<1>5. \A q \in Settlers \ {} :
         /\ pc'[q] = pc[q] /\ entry'[q] = entry[q] /\ forced'[q] = forced[q]
         /\ Announced(q)
         /\ entry[q] \in Entries => Keeps(entry[q])
  BY <1>2 DEF forget, settleVars, RestartInv
<1>6. \A q \in Settlers \ {} : (entry'[q] # None <=> pc'[q] \in Holding) /\ Announced(q)'
  BY <1>1, <1>5, OthersStand
<1>7. QED  BY <1>2, <1>4, <1>6 DEF RestartInv, Fetched

(* What is overdue stays so: an age stops at MaxDelay.                     *)
LEMMA TimeHolds == ASSUME RestartInv, timePasses PROVE RestartInv'
<1>1. RestartTypeOK /\ Fetched /\ CountdownsAreDue
  BY DEF RestartInv
<1>2. \A e \in Entries :
         /\ age'[e] = IF InUse(e) /\ age[e] < MaxDelay THEN age[e] + 1 ELSE age[e]
         /\ left'[e] = IF left[e] # None /\ left[e] > 0 THEN left[e] - 1 ELSE left[e]
  BY DEF timePasses
<1>3. \A e \in Entries : age'[e] \in 0..MaxDelay /\ left'[e] \in 0..WarnTime \cup {None}
  <2>1. \A a \in 0..MaxDelay : a < MaxDelay => a + 1 \in 0..MaxDelay
    BY RestartAssumption
  <2>2. \A n \in 0..WarnTime \cup {None} : n # None /\ n > 0 => n - 1 \in 0..WarnTime
    BY RestartAssumption
  <2>3. \A e \in Entries : age[e] \in 0..MaxDelay /\ left[e] \in 0..WarnTime \cup {None}
    BY <1>1 DEF RestartTypeOK
  <2>4. QED  BY <1>2, <2>1, <2>2, <2>3
<1>4. RestartTypeOK'
  <2>1. age' \in [Entries -> 0..MaxDelay] /\ left' \in [Entries -> 0..WarnTime \cup {None}]
    BY <1>3 DEF timePasses
  <2>2. QED  BY <1>1, <2>1 DEF timePasses, RestartTypeOK, serverVars, settleVars
<1>5. \A e \in Entries : Keeps(e) /\ (left'[e] # None => left[e] # None)
  <2>1. \A e \in Entries : left[e] # None => left'[e] # None
    <3>1. \A n \in 0..WarnTime : n # None /\ (n > 0 => n - 1 # None)
      BY RestartAssumption
    <3>2. \A e \in Entries : left[e] \in 0..WarnTime \cup {None}
      BY <1>1 DEF RestartTypeOK
    <3>3. QED  BY <1>2, <3>1, <3>2
  <2>2. \A e \in Entries : age[e] = MaxDelay => age'[e] = MaxDelay
    BY <1>2, RestartAssumption
  <2>3. \A e \in Entries : left'[e] # None => left[e] # None
    BY <1>2
  <2>4. QED  BY <2>1, <2>2, <2>3 DEF Keeps
<1>6. CountdownsAreDue'
  BY <1>1, <1>5, CountdownsStand
<1>7. \A q \in Settlers \ {} :
         /\ pc'[q] = pc[q] /\ entry'[q] = entry[q] /\ forced'[q] = forced[q]
         /\ Announced(q)
         /\ entry[q] \in Entries => Keeps(entry[q])
  BY <1>5 DEF timePasses, settleVars, RestartInv
<1>8. \A q \in Settlers \ {} : (entry'[q] # None <=> pc'[q] \in Holding) /\ Announced(q)'
  BY <1>1, <1>7, OthersStand
<1>9. QED  BY <1>4, <1>6, <1>8 DEF RestartInv, Fetched

LEMMA CrashHolds == ASSUME RestartInv, daemonRestarts PROVE RestartInv'
<1>1. RestartTypeOK /\ CountdownsAreDue
  BY DEF RestartInv
<1>2. /\ age' \in [Entries -> 0..MaxDelay]
      /\ left' \in [Entries -> 0..WarnTime \cup {None}]
      /\ CountdownsAreDue'
  BY <1>1, CollectStands DEF daemonRestarts
<1>3. 0 \in 0..MaxDies
  BY RestartAssumption
<1>4. RestartTypeOK'
  BY <1>1, <1>2, <1>3 DEF daemonRestarts, RestartTypeOK, Places
<1>5. Fetched' /\ \A p \in Settlers : Announced(p)'
  BY DEF daemonRestarts, Fetched, Holding, Announced
<1>6. QED  BY <1>2, <1>4, <1>5 DEF RestartInv

-----------------------------------------------------------------------------
(* The theorems *)

LEMMA StepHolds == RestartInv /\ [RestartNext]_restartVars => RestartInv'
<1> SUFFICES ASSUME RestartInv, [RestartNext]_restartVars PROVE RestartInv'
  OBVIOUS
<1>1. RestartTypeOK
  BY DEF RestartInv
<1>2. ASSUME NEW c \in Containers, pushed(c) PROVE RestartInv'
  BY <1>2, PushedHolds
<1>3. ASSUME NEW c \in Containers, owe(c) PROVE RestartInv'
  BY <1>3, OweHolds
<1>4. ASSUME NEW c \in Containers, tick(c) PROVE RestartInv'
  BY <1>4, TickHolds
<1>5. ASSUME NEW c \in Containers, forget(c) PROVE RestartInv'
  BY <1>5, ForgetHolds
<1>6. ASSUME NEW c \in Containers, serverStops(c) PROVE RestartInv'
  <2>1. RestartTypeOK'
    BY <1>1, <1>6, StopType DEF serverStops, RestartTypeOK, entryVars, settleVars
  <2>2. QED  BY <1>6, <2>1, OutsideHolds DEF serverStops
<1>7. ASSUME NEW c \in Containers,
             serverStarts(c) \/ playersTurn(c) \/ eggHello(c) \/ eggReports(c)
      PROVE  RestartInv'
  <2>1. RestartTypeOK'
    BY <1>1, <1>7
       DEF serverStarts, playersTurn, eggHello, eggReports, RestartTypeOK, entryVars, settleVars
  <2>2. UNCHANGED <<entryVars, settleVars>>
    BY <1>7 DEF serverStarts, playersTurn, eggHello, eggReports
  <2>3. QED  BY <2>1, <2>2, OutsideHolds
<1>8. ASSUME NEW p \in Settlers, settle(p) PROVE RestartInv'
  BY <1>8, FetchHolds, LookHolds, WarnHolds, DeleteHolds, AskHolds DEF settle
<1>9. CASE windowTurns
  <2>1. RestartTypeOK'
    BY <1>1, <1>9 DEF windowTurns, RestartTypeOK, entryVars, settleVars
  <2>2. QED  BY <1>9, <2>1, OutsideHolds DEF windowTurns
<1>10. CASE timePasses
  BY <1>10, TimeHolds
<1>11. CASE daemonRestarts
  BY <1>11, CrashHolds
<1>12. CASE UNCHANGED restartVars
  <2>1. RestartTypeOK'
    BY <1>1, <1>12 DEF restartVars, serverVars, entryVars, settleVars, RestartTypeOK
  <2>2. QED  BY <1>12, <2>1, OutsideHolds DEF restartVars
<1>13. QED
  BY <1>2, <1>3, <1>4, <1>5, <1>6, <1>7, <1>8, <1>9, <1>10, <1>11, <1>12 DEF RestartNext

LEMMA RestartCorrect == RestartSpec => []RestartInv
<1>1. RestartInit => RestartInv
  BY InitHolds
<1>2. RestartInv /\ [RestartNext]_restartVars => RestartInv'
  BY StepHolds
<1>3. QED  BY <1>1, <1>2, PTL DEF RestartSpec

(* restart.go keeps its owed restarts within their types: an entry is      *)
(* always there to be had, a countdown and an age stay in their bounds.    *)
THEOREM TypeCorrect == RestartSpec => []RestartTypeOK
<1>1. RestartInv => RestartTypeOK
  BY DEF RestartInv
<1>2. QED  BY <1>1, RestartCorrect, PTL

(* Whatever the two goroutines, the events and the clock do to an entry    *)
(* and the map between two steps of settle, a restart that throws players  *)
(* off is overdue, or met the window, and was announced.                   *)
THEOREM ForcedIsWarned == RestartSpec => []ForcedIsAnnounced
<1>1. RestartInv => ForcedIsAnnounced
  BY DEF RestartInv, Announced, ForcedIsAnnounced, Overdue
<1>2. QED  BY <1>1, RestartCorrect, PTL

=============================================================================
