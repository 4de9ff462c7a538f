----------------------------- MODULE WorkshopProofs --------------------------
(***************************************************************************)
(* Proofs about Workshop for any servers, versions and files of the addon: *)
(* type correctness, and, until one of the five accidents happens, that    *)
(* the store offers whole versions, links resolve and the acf describes    *)
(* the volume; and that the cache implements SharedStore.                  *)
(***************************************************************************)
EXTENDS Workshop, Least

-----------------------------------------------------------------------------
(* The invariant *)

At(s, places) == pass[s].at \in places

(* A pass that handles files knows which version they are of, and stops    *)
(* with the last one.                                                      *)
Informed(r) ==
    /\ r.at \in {"release", "take", "copy", "link", "seed"} => r.it \in Versions
    /\ r.at \in {"release", "copy", "link"} => r.todo # {}
    /\ r.at \in {"take", "copy"} => r.files # {}

TypeInv == TypeOK /\ \A s \in Servers : Informed(pass[s])

(* A version is recorded with all its files; each holds its own bytes, or  *)
(* is being copied.                                                        *)
VersionWhole(v) ==
    /\ meta[v] \in {{}, PartsOf[v]}
    /\ \A p \in Parts : \/ stored[v][p] \in {0, v}
                        \/ stored[v][p] = Cut /\ Copying(v, p)
    /\ meta[v] # {} => \A p \in PartsOf[v] : stored[v][p] # 0

(* Links are to files of versions the store has. *)
LinksHeld(s) ==
    \A p \in LinkParts(s) : /\ meta[volume[s][p].of] # {}
                            /\ p \in PartsOf[volume[s][p].of]

(* The real files of a server are all of the version its acf calls         *)
(* installed, unless an update is on its way or a pass is moving them.     *)
RealsOwn(s) ==
    (RealParts(s) # {} /\ acf[s].have # 0 /\ ~Pending(acf[s]) /\ ~At(s, {"take", "copy", "release"}))
    => /\ RealParts(s) = PartsOf[acf[s].have]
       /\ \A p \in RealParts(s) : volume[s][p].of = acf[s].have

(* No pass works on a server that is up, so nobody else changes its volume *)
(* and its acf; a pass writes the acf it read.                             *)
Alone(s) ==
    /\ Working(s) => phase[s] # "up"
    /\ At(s, {"release", "take", "copy", "link", "seed", "acf"}) => pass[s].acf = acf[s]

(* What is done of the files of a pass, and what is left to do. *)
Going(s) == pass[s].files = PartsOf[pass[s].it] /\ pass[s].todo \subseteq pass[s].files
Done(s)  == pass[s].files \ pass[s].todo

Releasing(s) == At(s, {"release"}) =>
    /\ Going(s) /\ meta[pass[s].it] # {}
    /\ RealParts(s) = Done(s)
    /\ \A p \in Done(s) : volume[s][p].of = pass[s].it /\ pass[s].it = acf[s].have

Taking(s) == At(s, {"take", "copy"}) =>
    /\ Going(s) /\ RealParts(s) = pass[s].todo
    /\ \A p \in pass[s].todo : volume[s][p].of = pass[s].it
    /\ \A p \in Done(s) : stored[pass[s].it][p] # 0
    /\ At(s, {"copy"}) => pass[s].src = pass[s].it

Linking(s) == At(s, {"link"}) =>
    /\ Going(s) /\ meta[pass[s].it] # {}
    /\ RealParts(s) = {}
    /\ \A p \in Done(s) : volume[s][p] = Link(pass[s].it)

Seeding(s) == At(s, {"seed"}) =>
    /\ meta[pass[s].it] # {} /\ RealParts(s) = {} /\ LinkParts(s) = {}

(* The acf a pass is about to write, or has written, is what the volume    *)
(* links to.                                                               *)
Describes(s, have) == RealParts(s) = {} => \A p \in LinkParts(s) : volume[s][p].of = have

Writing(s) == At(s, {"acf"}) =>
    /\ pass[s].it # 0 => RealParts(s) = {}
    /\ pass[s].ok => Describes(s, Books(s).have)

Replying(s) == (At(s, {"reply"}) /\ pass[s].ok) => Describes(s, acf[s].have)

VolumeRight(s) ==
    /\ LinksHeld(s) /\ RealsOwn(s) /\ Alone(s) /\ Releasing(s) /\ Taking(s)
    /\ Linking(s) /\ Seeding(s) /\ Writing(s) /\ Replying(s)

CacheRight == /\ \A v \in Versions : VersionWhole(v)
              /\ \A s \in Servers : VolumeRight(s)

CacheInv == TypeInv /\ (~harmed => CacheRight)

-----------------------------------------------------------------------------
(* The record of a pass *)

(* The fields of r, one by one. *)
IsPass(r, a, l, b, v, c, f, t, n, o) ==
    /\ r \in Passes
    /\ r.at = a /\ r.stale = l /\ r.acf = b /\ r.it = v /\ r.src = c
    /\ r.files = f /\ r.todo = t /\ r.plan = n /\ r.ok = o

LEMMA OwnFields ==
    ASSUME NEW r \in Passes
    PROVE  /\ IsPass(r, r.at, r.stale, r.acf, r.it, r.src, r.files, r.todo, r.plan, r.ok)
           /\ r.at \in Places /\ r.stale \in BOOLEAN /\ r.acf \in Bookkeeping
           /\ r.it \in {0} \cup Versions /\ r.src \in 0..Cut /\ r.files \in SUBSET Parts
           /\ r.todo \in SUBSET Parts /\ r.plan \in Plans /\ r.ok \in BOOLEAN
BY DEF IsPass, Passes

LEMMA SetAt ==
    ASSUME NEW r, NEW a, NEW l, NEW b, NEW v, NEW c, NEW f, NEW t, NEW n, NEW o,
           IsPass(r, a, l, b, v, c, f, t, n, o), NEW x \in Places
    PROVE  IsPass([r EXCEPT !.at = x], x, l, b, v, c, f, t, n, o)
BY DEF IsPass, Passes

LEMMA SetStale ==
    ASSUME NEW r, NEW a, NEW l, NEW b, NEW v, NEW c, NEW f, NEW t, NEW n, NEW o,
           IsPass(r, a, l, b, v, c, f, t, n, o), NEW x \in BOOLEAN
    PROVE  IsPass([r EXCEPT !.stale = x], a, x, b, v, c, f, t, n, o)
BY DEF IsPass, Passes

LEMMA SetAcf ==
    ASSUME NEW r, NEW a, NEW l, NEW b, NEW v, NEW c, NEW f, NEW t, NEW n, NEW o,
           IsPass(r, a, l, b, v, c, f, t, n, o), NEW x \in Bookkeeping
    PROVE  IsPass([r EXCEPT !.acf = x], a, l, x, v, c, f, t, n, o)
BY DEF IsPass, Passes

LEMMA SetIt ==
    ASSUME NEW r, NEW a, NEW l, NEW b, NEW v, NEW c, NEW f, NEW t, NEW n, NEW o,
           IsPass(r, a, l, b, v, c, f, t, n, o), NEW x \in {0} \cup Versions
    PROVE  IsPass([r EXCEPT !.it = x], a, l, b, x, c, f, t, n, o)
BY DEF IsPass, Passes

LEMMA SetSrc ==
    ASSUME NEW r, NEW a, NEW l, NEW b, NEW v, NEW c, NEW f, NEW t, NEW n, NEW o,
           IsPass(r, a, l, b, v, c, f, t, n, o), NEW x \in 0..Cut
    PROVE  IsPass([r EXCEPT !.src = x], a, l, b, v, x, f, t, n, o)
BY DEF IsPass, Passes

LEMMA SetFiles ==
    ASSUME NEW r, NEW a, NEW l, NEW b, NEW v, NEW c, NEW f, NEW t, NEW n, NEW o,
           IsPass(r, a, l, b, v, c, f, t, n, o), NEW x \in SUBSET Parts
    PROVE  IsPass([r EXCEPT !.files = x], a, l, b, v, c, x, t, n, o)
BY DEF IsPass, Passes

LEMMA SetTodo ==
    ASSUME NEW r, NEW a, NEW l, NEW b, NEW v, NEW c, NEW f, NEW t, NEW n, NEW o,
           IsPass(r, a, l, b, v, c, f, t, n, o), NEW x \in SUBSET Parts
    PROVE  IsPass([r EXCEPT !.todo = x], a, l, b, v, c, f, x, n, o)
BY DEF IsPass, Passes

LEMMA SetPlan ==
    ASSUME NEW r, NEW a, NEW l, NEW b, NEW v, NEW c, NEW f, NEW t, NEW n, NEW o,
           IsPass(r, a, l, b, v, c, f, t, n, o), NEW x \in Plans
    PROVE  IsPass([r EXCEPT !.plan = x], a, l, b, v, c, f, t, x, o)
BY DEF IsPass, Passes

LEMMA SetOk ==
    ASSUME NEW r, NEW a, NEW l, NEW b, NEW v, NEW c, NEW f, NEW t, NEW n, NEW o,
           IsPass(r, a, l, b, v, c, f, t, n, o), NEW x \in BOOLEAN
    PROVE  IsPass([r EXCEPT !.ok = x], a, l, b, v, c, f, t, n, x)
BY DEF IsPass, Passes

LEMMA IdleIs == IsPass(Idle, "idle", FALSE, [have |-> 0, latest |-> 0], 0, 0, {}, {}, "none", TRUE)
<1> DEFINE no == FALSE
           yes == TRUE
           b == [have |-> 0, latest |-> 0]
<1>1. no \in BOOLEAN /\ yes \in BOOLEAN /\ b \in Bookkeeping
  BY DEF Bookkeeping
<1>2. Idle = [at |-> "idle", stale |-> no, acf |-> b, it |-> 0,
              src |-> 0, files |-> {}, todo |-> {}, plan |-> "none", ok |-> yes]
  BY Zenon DEF Idle
<1>3. 0 \in 0..Cut
  BY WorkshopAssumption DEF Cut
<1> HIDE DEF no, yes, b
<1>4. IsPass(Idle, "idle", no, b, 0, 0, {}, {}, "none", yes)
  BY <1>1, <1>2, <1>3 DEF IsPass, Passes, Places, Plans
<1>5. QED  BY <1>4 DEF no, yes, b

LEMMA SettledIs ==
    ASSUME TypeOK, NEW s \in Servers, NEW v \in {0} \cup Versions
    PROVE  IsPass(Settled(s, v), "acf", FALSE, pass[s].acf, v, 0, {}, {}, "none", pass[s].ok)
<1> DEFINE r1 == [Idle EXCEPT !.at = "acf"]
           r2 == [r1 EXCEPT !.acf = pass[s].acf]
           r3 == [r2 EXCEPT !.it = v]
           r4 == [r3 EXCEPT !.ok = pass[s].ok]
           b  == [have |-> 0, latest |-> 0]
<1>1. pass[s].acf \in Bookkeeping /\ pass[s].ok \in BOOLEAN
  BY OwnFields DEF TypeOK
<1>2. Settled(s, v) = r4
  BY DEF Settled
<1>3. "acf" \in Places
  BY DEF Places
<1>4. IsPass(r1, "acf", FALSE, b, 0, 0, {}, {}, "none", TRUE)
  BY <1>3, IdleIs, SetAt
<1> HIDE DEF r1
<1>5. IsPass(r2, "acf", FALSE, pass[s].acf, 0, 0, {}, {}, "none", TRUE)
  BY <1>1, <1>4, SetAcf
<1> HIDE DEF r2
<1>6. IsPass(r3, "acf", FALSE, pass[s].acf, v, 0, {}, {}, "none", TRUE)
  BY <1>5, SetIt
<1> HIDE DEF r3
<1>7. IsPass(r4, "acf", FALSE, pass[s].acf, v, 0, {}, {}, "none", pass[s].ok)
  BY <1>1, <1>6, SetOk
<1>8. QED  BY <1>2, <1>7

LEMMA EndsAre ==
    ASSUME TypeOK, NEW s \in Servers
    PROVE  /\ IsPass(Failed, "reply", FALSE, [have |-> 0, latest |-> 0], 0, 0, {}, {}, "none", FALSE)
           /\ IsPass(Skipped(s), "acf", FALSE, pass[s].acf, 0, 0, {}, {}, "none", FALSE)
           /\ IsPass([Idle EXCEPT !.at = "free"],
                     "free", FALSE, [have |-> 0, latest |-> 0], 0, 0, {}, {}, "none", TRUE)
           /\ IsPass([Idle EXCEPT !.at = "reply", !.ok = pass[s].ok],
                     "reply", FALSE, [have |-> 0, latest |-> 0], 0, 0, {}, {}, "none", pass[s].ok)
<1> DEFINE b == [have |-> 0, latest |-> 0]
           r1 == [Idle EXCEPT !.at = "reply"]
           r2 == Settled(s, 0)
           no == FALSE
<1>1. pass[s].ok \in BOOLEAN /\ no \in BOOLEAN
  BY OwnFields DEF TypeOK
<1>2. "reply" \in Places /\ "free" \in Places
  BY DEF Places
<1>3. IsPass(r1, "reply", FALSE, b, 0, 0, {}, {}, "none", TRUE)
  BY <1>2, IdleIs, SetAt
<1>4. IsPass([Idle EXCEPT !.at = "free"], "free", FALSE, b, 0, 0, {}, {}, "none", TRUE)
  BY <1>2, IdleIs, SetAt
<1>5. IsPass(r2, "acf", FALSE, pass[s].acf, 0, 0, {}, {}, "none", pass[s].ok)
  BY SettledIs
<1>6. /\ [Idle EXCEPT !.at = "reply", !.ok = pass[s].ok] = [r1 EXCEPT !.ok = pass[s].ok]
      /\ Failed = [r1 EXCEPT !.ok = no]
      /\ Skipped(s) = [r2 EXCEPT !.ok = no]
  BY DEF Failed, Skipped
<1> HIDE DEF r1, r2, no
<1>7. IsPass([r1 EXCEPT !.ok = no], "reply", FALSE, b, 0, 0, {}, {}, "none", no)
  BY <1>1, <1>3, SetOk
<1>8. IsPass([r2 EXCEPT !.ok = no], "acf", FALSE, pass[s].acf, 0, 0, {}, {}, "none", no)
  <2> DEFINE o == pass[s].ok
  <2>1. IsPass(r2, "acf", FALSE, pass[s].acf, 0, 0, {}, {}, "none", o)
    BY <1>5
  <2> HIDE DEF o
  <2>2. QED  BY <1>1, <2>1, SetOk
<1>9. IsPass([r1 EXCEPT !.ok = pass[s].ok], "reply", FALSE, b, 0, 0, {}, {}, "none", pass[s].ok)
  BY <1>1, <1>3, SetOk
<1>10. IsPass(Failed, "reply", FALSE, b, 0, 0, {}, {}, "none", FALSE)
  BY <1>6, <1>7 DEF no
<1>11. IsPass(Skipped(s), "acf", FALSE, pass[s].acf, 0, 0, {}, {}, "none", FALSE)
  BY <1>6, <1>8 DEF no
<1>12. IsPass([Idle EXCEPT !.at = "reply", !.ok = pass[s].ok],
              "reply", FALSE, b, 0, 0, {}, {}, "none", pass[s].ok)
  BY <1>6, <1>9
<1>13. QED  BY <1>4, <1>10, <1>11, <1>12

(* What survey makes of the pass. *)
LEMMA StartsAre ==
    ASSUME NEW b \in Bookkeeping, NEW v \in {0} \cup Versions, NEW f \in SUBSET Parts,
           NEW place \in Places, NEW plan \in Plans
    PROVE  LET r == [Idle EXCEPT !.at = place, !.plan = plan, !.acf = b,
                                 !.it = v, !.files = f, !.todo = f]
           IN  IsPass(r, place, FALSE, b, v, 0, f, f, plan, TRUE)
<1> DEFINE r1 == [Idle EXCEPT !.at = place]
           r2 == [r1 EXCEPT !.plan = plan]
           r3 == [r2 EXCEPT !.acf = b]
           r4 == [r3 EXCEPT !.it = v]
           r5 == [r4 EXCEPT !.files = f]
           r6 == [r5 EXCEPT !.todo = f]
<1>1. [Idle EXCEPT !.at = place, !.plan = plan, !.acf = b, !.it = v, !.files = f, !.todo = f] = r6
  OBVIOUS
<1>2. IsPass(r1, place, FALSE, [have |-> 0, latest |-> 0], 0, 0, {}, {}, "none", TRUE)
  BY IdleIs, SetAt
<1> HIDE DEF r1
<1>3. IsPass(r2, place, FALSE, [have |-> 0, latest |-> 0], 0, 0, {}, {}, plan, TRUE)
  BY <1>2, SetPlan
<1> HIDE DEF r2
<1>4. IsPass(r3, place, FALSE, b, 0, 0, {}, {}, plan, TRUE)
  BY <1>3, SetAcf
<1> HIDE DEF r3
<1>5. IsPass(r4, place, FALSE, b, v, 0, {}, {}, plan, TRUE)
  BY <1>4, SetIt
<1> HIDE DEF r4
<1>6. IsPass(r5, place, FALSE, b, v, 0, f, {}, plan, TRUE)
  BY <1>5, SetFiles
<1> HIDE DEF r5
<1>7. IsPass(r6, place, FALSE, b, v, 0, f, f, plan, TRUE)
  BY <1>6, SetTodo
<1>8. QED  BY <1>1, <1>7

LEMMA StartedAcf ==
    ASSUME NEW b \in Bookkeeping
    PROVE  IsPass([Idle EXCEPT !.at = "acf", !.acf = b], "acf", FALSE, b, 0, 0, {}, {}, "none", TRUE)
<1> DEFINE r1 == [Idle EXCEPT !.at = "acf"]
<1>1. [Idle EXCEPT !.at = "acf", !.acf = b] = [r1 EXCEPT !.acf = b]
  OBVIOUS
<1>2. "acf" \in Places
  BY DEF Places
<1>3. IsPass(r1, "acf", FALSE, [have |-> 0, latest |-> 0], 0, 0, {}, {}, "none", TRUE)
  BY <1>2, IdleIs, SetAt
<1> HIDE DEF r1
<1>4. QED  BY <1>1, <1>3, SetAcf

(* The steps of a pass over one file. *)
LEMMA GoesAre ==
    ASSUME TypeOK, NEW s \in Servers, NEW place \in Places
    PROVE  LET r == pass[s]
           IN  /\ IsPass(Goto(s, place),
                         place, r.stale, r.acf, r.it, r.src, r.files, r.todo, r.plan, r.ok)
               /\ \A c \in 0..Cut : IsPass([Goto(s, place) EXCEPT !.src = c],
                         place, r.stale, r.acf, r.it, c, r.files, r.todo, r.plan, r.ok)
               /\ \A t \in SUBSET Parts : IsPass([Goto(s, place) EXCEPT !.todo = t],
                         place, r.stale, r.acf, r.it, r.src, r.files, t, r.plan, r.ok)
               /\ \A f \in SUBSET Parts : IsPass([Goto(s, place) EXCEPT !.files = f, !.todo = f],
                         place, r.stale, r.acf, r.it, r.src, f, f, r.plan, r.ok)
               /\ \A p : IsPass([Goto(s, place) EXCEPT !.src = 0, !.todo = @ \ {p}],
                         place, r.stale, r.acf, r.it, 0, r.files, r.todo \ {p}, r.plan, r.ok)
<1> DEFINE r == pass[s]
           g == Goto(s, place)
<1>1. IsPass(r, r.at, r.stale, r.acf, r.it, r.src, r.files, r.todo, r.plan, r.ok)
  BY OwnFields DEF TypeOK
<1>2. r.todo \in SUBSET Parts
  BY OwnFields DEF TypeOK
<1>3. IsPass([r EXCEPT !.at = place],
             place, r.stale, r.acf, r.it, r.src, r.files, r.todo, r.plan, r.ok)
  <2> HIDE DEF r
  <2>1. QED  BY <1>1, SetAt
<1>4. IsPass(g, place, r.stale, r.acf, r.it, r.src, r.files, r.todo, r.plan, r.ok)
  BY <1>3 DEF Goto
<1> HIDE DEF r, g
<1>5. ASSUME NEW c \in 0..Cut
      PROVE  IsPass([g EXCEPT !.src = c], place, r.stale, r.acf, r.it, c, r.files, r.todo, r.plan, r.ok)
  BY <1>4, SetSrc
<1>6. ASSUME NEW t \in SUBSET Parts
      PROVE  IsPass([g EXCEPT !.todo = t], place, r.stale, r.acf, r.it, r.src, r.files, t, r.plan, r.ok)
  BY <1>4, SetTodo
<1>7. ASSUME NEW f \in SUBSET Parts
      PROVE  IsPass([g EXCEPT !.files = f, !.todo = f],
                    place, r.stale, r.acf, r.it, r.src, f, f, r.plan, r.ok)
  <2> DEFINE h == [g EXCEPT !.files = f]
  <2>1. [g EXCEPT !.files = f, !.todo = f] = [h EXCEPT !.todo = f]
    OBVIOUS
  <2>2. IsPass(h, place, r.stale, r.acf, r.it, r.src, f, r.todo, r.plan, r.ok)
    BY <1>4, SetFiles
  <2> HIDE DEF h
  <2>3. IsPass([h EXCEPT !.todo = f], place, r.stale, r.acf, r.it, r.src, f, f, r.plan, r.ok)
    BY <2>2, SetTodo
  <2>4. QED  BY <2>1, <2>3
<1>8. ASSUME NEW p
      PROVE  IsPass([g EXCEPT !.src = 0, !.todo = @ \ {p}],
                    place, r.stale, r.acf, r.it, 0, r.files, r.todo \ {p}, r.plan, r.ok)
  <2> DEFINE h == [g EXCEPT !.src = 0]
             t == r.todo \ {p}
  <2>1. [g EXCEPT !.src = 0, !.todo = @ \ {p}] = [h EXCEPT !.todo = g.todo \ {p}]
    OBVIOUS
  <2>2. 0 \in 0..Cut
    BY WorkshopAssumption DEF Cut
  <2>3. IsPass(h, place, r.stale, r.acf, r.it, 0, r.files, r.todo, r.plan, r.ok)
    BY <1>4, <2>2, SetSrc
  <2>4. g.todo \ {p} = t /\ t \in SUBSET Parts
    BY <1>2, <1>4 DEF IsPass
  <2> HIDE DEF h, t
  <2>5. IsPass([h EXCEPT !.todo = t], place, r.stale, r.acf, r.it, 0, r.files, t, r.plan, r.ok)
    BY <2>3, <2>4, SetTodo
  <2>6. QED  BY <2>1, <2>4, <2>5 DEF t
<1>9. QED  BY <1>4, <1>5, <1>6, <1>7, <1>8 DEF r, g


-----------------------------------------------------------------------------
(* Files and versions *)

LEMMA FirstIsIn ==
    ASSUME NEW ps \in SUBSET Parts, ps # {}
    PROVE  First(ps) \in ps
<1>1. ps \subseteq Nat
  BY WorkshopAssumption
<1>2. \E p \in ps : \A q \in ps : p <= q
  BY <1>1, LeastExists
<1>3. QED  BY <1>2 DEF First

(* The newest version the store has is one it has. *)
LEMMA NewestIsHeld ==
    /\ Newest \in {0} \cup Versions
    /\ Newest # 0 => Has(Newest)
    /\ Newest = 0 => \A v \in Versions : ~Has(v)
<1> DEFINE held == {v \in Versions : Has(v)}
           below == {Newer - v : v \in held}
<1>1. Newer \in Nat \ {0} /\ Versions = 1..Newer
  BY WorkshopAssumption
<1>2. CASE held = {}
  BY <1>1, <1>2 DEF Newest
<1>3. CASE held # {}
  <2>1. below \subseteq Nat /\ below # {}
    BY <1>1, <1>3
  <2>2. PICK d \in below : \A e \in below : d <= e
    <3> HIDE DEF below
    <3>1. QED  BY <2>1, LeastExists
  <2>3. PICK v \in held : d = Newer - v
    BY <2>2
  <2>4. \A w \in held : w <= v
    <3>1. \A w \in held : Newer - v <= Newer - w
      BY <2>2, <2>3
    <3>2. \A w \in held : w \in 1..Newer
      BY <1>1
    <3>3. v \in 1..Newer
      BY <1>1
    <3> HIDE DEF held
    <3>4. QED  BY <1>1, <3>1, <3>2, <3>3
  <2>5. Newest = CHOOSE x \in held : \A w \in held : w <= x
    BY <1>3 DEF Newest
  <2> HIDE DEF held
  <2>6. Newest \in held
    BY <2>4, <2>5
  <2>7. QED  BY <1>1, <2>6 DEF held
<1>4. QED  BY <1>2, <1>3

(* After one file either the pass goes on with the others or its files are *)
(* done.                                                                   *)
LEMMA OneIsDone ==
    ASSUME TypeOK, NEW s \in Servers, NEW v \in {0} \cup Versions, pass[s].todo # {}
    PROVE  LET r == pass[s]
               p == First(r.todo)
           IN  /\ p \in r.todo
               /\ r.todo = {p} =>
                     /\ OneDone(s, v) = Settled(s, v)
                     /\ IsPass(OneDone(s, v), "acf", FALSE, r.acf, v, 0, {}, {}, "none", r.ok)
               /\ r.todo # {p} =>
                     /\ r.todo \ {p} # {}
                     /\ IsPass(OneDone(s, v),
                            r.at, r.stale, r.acf, r.it, r.src, r.files, r.todo \ {p}, r.plan, r.ok)
<1> DEFINE r == pass[s]
           p == First(r.todo)
           t == r.todo \ {p}
<1>1. IsPass(r, r.at, r.stale, r.acf, r.it, r.src, r.files, r.todo, r.plan, r.ok)
  BY OwnFields DEF TypeOK
<1>2. r.todo \in SUBSET Parts /\ t \in SUBSET Parts
  BY OwnFields DEF TypeOK
<1>3. p \in r.todo
  BY <1>2, FirstIsIn
<1>4. IsFiniteSet(r.todo)
  BY <1>2, FS_Subset, WorkshopAssumption
<1>5. Cardinality(r.todo) = 1 <=> r.todo = {p}
  <2>1. Cardinality(r.todo) = 1 <=> \E x : r.todo = {x}
    <3> HIDE DEF r
    <3>1. QED  BY <1>4, FS_Singleton
  <2> HIDE DEF p, r
  <2>2. QED  BY <1>3, <2>1
<1>6. r.todo = {p} => OneDone(s, v) = Settled(s, v)
  BY <1>5 DEF OneDone
<1>7. r.todo # {p} => OneDone(s, v) = [r EXCEPT !.todo = t]
  BY <1>5 DEF OneDone
<1>8. IsPass(Settled(s, v), "acf", FALSE, r.acf, v, 0, {}, {}, "none", r.ok)
  BY SettledIs
<1>9. IsPass([r EXCEPT !.todo = t],
             r.at, r.stale, r.acf, r.it, r.src, r.files, t, r.plan, r.ok)
  <2> HIDE DEF r, t
  <2>1. QED  BY <1>1, <1>2, SetTodo
<1>10. r.todo # {p} => t # {}
  BY <1>3
<1>11. QED  BY <1>3, <1>6, <1>7, <1>8, <1>9, <1>10

(* What survey decides, and the pass it starts.                            *)
LEMMA SurveyDoes ==
    ASSUME TypeInv, NEW s \in Servers, survey(s)
    PROVE  LET have == acf[s].have
               real == RealParts(s)
           IN  \E r :
               /\ pass' = [pass EXCEPT ![s] = r]
               /\ \/ /\ IsPass(r, "acf", FALSE, acf[s], 0, 0, {}, {}, "none", TRUE)
                     /\ volume' = volume
                     /\ real = {} => LinkParts(s) = {} \/ Newest = 0
                  \/ /\ IsPass(r, "seed", FALSE, acf[s], Newest, 0, {}, {}, "seed", TRUE)
                     /\ volume' = volume
                     /\ real = {} /\ LinkParts(s) = {} /\ Newest # 0
                  \/ /\ \E plan \in {"release", "link"} :
                           IsPass(r, plan, FALSE, acf[s], Newest, 0, meta[Newest], meta[Newest], plan, TRUE)
                     /\ volume' = volume
                     /\ real = {} /\ Newest # 0
                  \/ /\ IsPass(r, "take", FALSE, acf[s], have, 0, real, real, "take", TRUE)
                     /\ volume' = volume
                     /\ real # {} /\ have # 0 /\ ~Pending(acf[s])
                  \/ /\ IsPass(r, "link", FALSE, acf[s], have, 0, meta[have], meta[have], "swap", TRUE)
                     /\ volume' = [volume EXCEPT ![s] =
                            [p \in Parts |-> IF p \in real THEN Nothing ELSE volume[s][p]]]
                     /\ have # 0 /\ Has(have)
<1> DEFINE have == acf[s].have
           real == RealParts(s)
           plan == Plan(s, Newest)
           start(v, files) == [Idle EXCEPT !.at = plan, !.plan = plan, !.acf = acf[s],
                                           !.it = v, !.files = files, !.todo = files]
<1>1. acf[s] \in Bookkeeping /\ have \in {0} \cup Versions /\ real \in SUBSET Parts
  BY DEF TypeInv, TypeOK, Bookkeeping, RealParts
<1>2. Newest \in {0} \cup Versions
  BY NewestIsHeld
<1>3. \A v \in Versions : meta[v] \in SUBSET Parts
  BY DEF TypeInv, TypeOK
<1>4. \/ plan = "acf" /\ (real = {} => LinkParts(s) = {} \/ Newest = 0)
      \/ plan = "seed" /\ real = {} /\ LinkParts(s) = {} /\ Newest # 0
      \/ plan \in {"release", "link"} /\ real = {} /\ Newest # 0
      \/ plan = "take" /\ real # {} /\ have # 0 /\ ~Pending(acf[s])
      \/ plan = "swap" /\ real # {} /\ have # 0 /\ ~Pending(acf[s]) /\ Has(have)
  <2>1. CASE real = {} /\ LinkParts(s) = {}
    <3>1. plan = IF Offered(s, Newest) THEN "seed" ELSE "acf"
      BY <2>1 DEF Plan
    <3>2. QED  BY <2>1, <3>1 DEF Offered
  <2>2. CASE real = {} /\ LinkParts(s) # {}
    <3>1. plan = IF Newest = 0 THEN "acf"
                 ELSE IF pass[s].stale \/ Pending(acf[s]) THEN "release" ELSE "link"
      BY <2>2 DEF Plan
    <3>2. QED  BY <2>2, <3>1
  <2>3. CASE real # {}
    <3>1. plan = IF have = 0 \/ Pending(acf[s]) THEN "acf" ELSE IF Has(have) THEN "swap" ELSE "take"
      BY <2>3 DEF Plan
    <3>2. QED  BY <2>3, <3>1
  <2>4. QED  BY <2>1, <2>2, <2>3
<1>5. plan \in Plans \/ plan = "acf"
  BY <1>4 DEF Plans
<1>6. ASSUME NEW v \in {0} \cup Versions, NEW f \in SUBSET Parts, plan # "acf", plan # "swap"
      PROVE  IsPass(start(v, f), plan, FALSE, acf[s], v, 0, f, f, plan, TRUE)
  <2>1. plan \in Plans /\ plan \in Places
    BY <1>4, <1>6 DEF Plans, Places
  <2>2. QED
    <3> DEFINE q == plan
               b == acf[s]
    <3>1. b \in Bookkeeping /\ q \in Plans /\ q \in Places
      BY <1>1, <2>1
    <3> HIDE DEF q, b
    <3>2. IsPass([Idle EXCEPT !.at = q, !.plan = q, !.acf = b, !.it = v, !.files = f, !.todo = f],
                 q, FALSE, b, v, 0, f, f, q, TRUE)
      BY <3>1, StartsAre
    <3>3. QED  BY <3>2 DEF q, b
<1>7. pass' = [pass EXCEPT ![s] =
              CASE plan = "acf" -> [Idle EXCEPT !.at = "acf", !.acf = acf[s]]
                [] plan = "seed" -> start(Newest, {})
                [] plan \in {"release", "link"} -> start(Newest, meta[Newest])
                [] plan = "take" -> start(have, real)
                [] plan = "swap" -> [start(have, meta[have]) EXCEPT !.at = "link"]]
  BY DEF survey, Step
<1>8. IF plan = "swap"
      THEN volume' = [volume EXCEPT ![s] =
               [p \in Parts |-> IF p \in real THEN Nothing ELSE volume[s][p]]]
      ELSE volume' = volume
  BY DEF survey
<1>9. CASE plan = "acf"
  <2>1. pass' = [pass EXCEPT ![s] = [Idle EXCEPT !.at = "acf", !.acf = acf[s]]]
    BY <1>7, <1>9
  <2>2. IsPass([Idle EXCEPT !.at = "acf", !.acf = acf[s]],
               "acf", FALSE, acf[s], 0, 0, {}, {}, "none", TRUE)
    BY <1>1, StartedAcf
  <2>3. volume' = volume /\ (real = {} => LinkParts(s) = {} \/ Newest = 0)
    BY <1>4, <1>8, <1>9
  <2>4. QED  BY <2>1, <2>2, <2>3
<1>10. CASE plan = "seed"
  <2>1. pass' = [pass EXCEPT ![s] = start(Newest, {})]
    BY <1>7, <1>10
  <2>2. IsPass(start(Newest, {}), "seed", FALSE, acf[s], Newest, 0, {}, {}, "seed", TRUE)
    BY <1>2, <1>6, <1>10
  <2>3. volume' = volume /\ real = {} /\ LinkParts(s) = {} /\ Newest # 0
    BY <1>4, <1>8, <1>10
  <2> HIDE DEF start
  <2>4. QED  BY <2>1, <2>2, <2>3
<1>11. CASE plan \in {"release", "link"}
  <2>1. pass' = [pass EXCEPT ![s] = start(Newest, meta[Newest])]
    BY <1>7, <1>11
  <2>2. volume' = volume /\ real = {} /\ Newest # 0
    BY <1>4, <1>8, <1>11
  <2>3. IsPass(start(Newest, meta[Newest]),
               plan, FALSE, acf[s], Newest, 0, meta[Newest], meta[Newest], plan, TRUE)
    <3>1. meta[Newest] \in SUBSET Parts
      BY <1>2, <1>3, <2>2
    <3>2. plan # "acf" /\ plan # "swap"
      BY <1>11
    <3> HIDE DEF start, plan
    <3>3. QED  BY <1>2, <1>6, <3>1, <3>2
  <2> HIDE DEF start, plan
  <2>4. QED  BY <1>11, <2>1, <2>2, <2>3
<1>12. CASE plan = "take"
  <2>1. pass' = [pass EXCEPT ![s] = start(have, real)]
    BY <1>7, <1>12
  <2>2. IsPass(start(have, real), "take", FALSE, acf[s], have, 0, real, real, "take", TRUE)
    BY <1>1, <1>6, <1>12
  <2>3. volume' = volume /\ real # {} /\ have # 0 /\ ~Pending(acf[s])
    BY <1>4, <1>8, <1>12
  <2> HIDE DEF start
  <2>4. QED  BY <2>1, <2>2, <2>3
<1>13. CASE plan = "swap"
  <2> DEFINE r == start(have, meta[have])
  <2>1. pass' = [pass EXCEPT ![s] = [r EXCEPT !.at = "link"]]
    BY <1>7, <1>13
  <2>2. /\ have # 0 /\ Has(have)
        /\ volume' = [volume EXCEPT ![s] =
               [p \in Parts |-> IF p \in real THEN Nothing ELSE volume[s][p]]]
    BY <1>4, <1>8, <1>13
  <2>3. have \in Versions /\ meta[have] \in SUBSET Parts
    BY <1>1, <1>3, <2>2
  <2>4. IsPass([r EXCEPT !.at = "link"],
               "link", FALSE, acf[s], have, 0, meta[have], meta[have], "swap", TRUE)
    <3> DEFINE b == acf[s]
               m == meta[have]
               q == [Idle EXCEPT !.at = "link", !.plan = "swap", !.acf = b,
                                 !.it = have, !.files = m, !.todo = m]
    <3>1. r = [Idle EXCEPT !.at = "swap", !.plan = "swap", !.acf = b,
                           !.it = have, !.files = m, !.todo = m]
      BY <1>13
    <3>2. [r EXCEPT !.at = "link"] = q
      <4> HIDE DEF r, b, m
      <4>1. QED  BY <3>1, IdleIs DEF IsPass, Passes
    <3>3. b \in Bookkeeping /\ m \in SUBSET Parts /\ "link" \in Places /\ "swap" \in Plans
      BY <1>1, <2>3 DEF Places, Plans
    <3>4. IsPass(q, "link", FALSE, b, have, 0, m, m, "swap", TRUE)
      <4> HIDE DEF b, m
      <4>1. QED  BY <1>1, <3>3, StartsAre
    <3> HIDE DEF r, q
    <3>5. QED  BY <3>2, <3>4
  <2> HIDE DEF r
  <2>5. QED  BY <2>1, <2>2, <2>4
<1> HIDE DEF have, real, plan, start
<1>14. QED  BY <1>4, <1>9, <1>10, <1>11, <1>12, <1>13

-----------------------------------------------------------------------------
(* Type correctness *)

LEMMA FilesAre ==
    /\ Cut \in Nat /\ Cut \notin Versions /\ 0 \notin Versions /\ Versions \subseteq 1..Cut
    /\ Nothing \in Files
    /\ \A c \in 1..Cut : Real(c) \in Files
    /\ \A v \in Versions : Link(v) \in Files
    /\ \A f \in Files : /\ f.is \in {"nothing", "real", "link"}
                        /\ f.is = "real" => f.of \in 1..Cut
                        /\ f.is = "link" => f.of \in Versions
<1>1. Newer \in Nat \ {0} /\ Versions = 1..Newer /\ Cut = Newer + 1
  BY WorkshopAssumption DEF Cut
<1>2. Cut \in Nat /\ Cut \notin Versions /\ 0 \notin Versions /\ Versions \subseteq 1..Cut
  BY <1>1
<1>3. \A f : f \in Files <=> \/ f = Nothing \/ \E c \in 1..Cut : f = Real(c)
                            \/ \E v \in Versions : f = Link(v)
  BY DEF Files
<1>4. /\ Nothing.is = "nothing" /\ \A c : Real(c).is = "real" /\ Real(c).of = c
      /\ \A v : Link(v).is = "link" /\ Link(v).of = v
  BY DEF Nothing, Real, Link
<1>5. QED  BY <1>2, <1>3, <1>4

LEMMA VolumeTyped ==
    ASSUME volume \in [Servers -> [Parts -> Files]], NEW s \in Servers
    PROVE  /\ \A p \in Parts, f \in Files :
                 [volume EXCEPT ![s][p] = f] \in [Servers -> [Parts -> Files]]
           /\ \A g \in [Parts -> Files] :
                 [volume EXCEPT ![s] = g] \in [Servers -> [Parts -> Files]]
OBVIOUS

(* What becomes of a server's pass has to be an informed one.              *)
LEMMA PassTyped ==
    ASSUME TypeInv, NEW s \in Servers, NEW r \in Passes, pass' = [pass EXCEPT ![s] = r],
           Informed(r)
    PROVE  pass' \in [Servers -> Passes] /\ \A t \in Servers : Informed(pass'[t])
BY DEF TypeInv, TypeOK

(* A pass that ends, or that goes on to its acf, handles no more files.    *)
LEMMA EndsInformed ==
    ASSUME TypeInv, NEW s \in Servers
    PROVE  /\ Failed \in Passes /\ Informed(Failed)
           /\ Skipped(s) \in Passes /\ Informed(Skipped(s))
           /\ \A w \in {0} \cup Versions : Settled(s, w) \in Passes /\ Informed(Settled(s, w))
           /\ Idle \in Passes /\ Informed(Idle)
<1>1. TypeOK
  BY DEF TypeInv
<1>2. Failed \in Passes /\ Failed.at = "reply"
  BY <1>1, EndsAre DEF IsPass
<1>3. Skipped(s) \in Passes /\ Skipped(s).at = "acf"
  BY <1>1, EndsAre DEF IsPass
<1>4. \A w \in {0} \cup Versions : Settled(s, w) \in Passes /\ Settled(s, w).at = "acf"
  BY <1>1, SettledIs DEF IsPass
<1>5. Idle \in Passes /\ Idle.at = "idle"
  BY IdleIs DEF IsPass
<1>6. QED  BY <1>2, <1>3, <1>4, <1>5 DEF Informed

LEMMA OneDoneInformed ==
    ASSUME TypeInv, NEW s \in Servers, NEW w \in {0} \cup Versions, pass[s].todo # {}
    PROVE  OneDone(s, w) \in Passes /\ Informed(OneDone(s, w))
<1> DEFINE o == pass[s]
           t == o.todo \ {First(o.todo)}
<1>1. TypeOK /\ Informed(o)
  BY DEF TypeInv
<1>2. CASE o.todo = {First(o.todo)}
  <2>1. OneDone(s, w) = Settled(s, w)
    BY <1>1, <1>2, OneIsDone
  <2>2. QED  BY <2>1, EndsInformed
<1>3. CASE o.todo # {First(o.todo)}
  <2>1. /\ IsPass(OneDone(s, w), o.at, o.stale, o.acf, o.it, o.src, o.files, t, o.plan, o.ok)
        /\ t # {}
    BY <1>1, <1>3, OneIsDone
  <2> HIDE DEF t
  <2>2. QED  BY <1>1, <2>1 DEF IsPass, Informed
<1>4. QED  BY <1>2, <1>3

LEMMA StoredTyped ==
    ASSUME TypeOK, NEW v, NEW p, NEW c \in 0..Cut
    PROVE  [stored EXCEPT ![v][p] = c] \in [Versions -> [Parts -> 0..Cut]]
<1>1. stored \in [Versions -> [Parts -> 0..Cut]]
  BY DEF TypeOK
<1>2. \A w \in Versions : [stored[w] EXCEPT ![p] = c] \in [Parts -> 0..Cut]
  BY <1>1
<1>3. QED  BY <1>1, <1>2

LEMMA SyncTyped ==
    ASSUME TypeInv, NEW s \in Servers, sync(s)
    PROVE  TypeInv'
<1>1. /\ TypeOK /\ Informed(pass[s])
      /\ pass[s] \in Passes /\ volume[s] \in [Parts -> Files] /\ acf[s] \in Bookkeeping
  BY DEF TypeInv, TypeOK
<1>2. /\ pass[s].acf \in Bookkeeping /\ pass[s].it \in {0} \cup Versions /\ pass[s].src \in 0..Cut
      /\ pass[s].files \in SUBSET Parts /\ pass[s].todo \in SUBSET Parts
  BY <1>1, OwnFields
<1> DEFINE v == pass[s].it
           p == First(pass[s].todo)
<1>3. SUFFICES TypeOK' /\ \A t \in Servers : Informed(pass'[t])
  BY DEF TypeInv
<1>4. CASE unreadable(s)
  <2>1. pass' \in [Servers -> Passes] /\ \A t \in Servers : Informed(pass'[t])
    <3>1. pass' = [pass EXCEPT ![s] = Failed]
      BY <1>4 DEF unreadable, Step
    <3>2. QED  BY <3>1, EndsInformed, PassTyped
  <2>2. QED  BY <1>1, <1>4, <2>1 DEF unreadable, TypeOK, storeVars, volumeVars, eggVars
<1>5. CASE survey(s)
  <2>1. PICK r :
           /\ pass' = [pass EXCEPT ![s] = r]
           /\ \/ /\ IsPass(r, "acf", FALSE, acf[s], 0, 0, {}, {}, "none", TRUE)
                 /\ volume' = volume
              \/ /\ IsPass(r, "seed", FALSE, acf[s], Newest, 0, {}, {}, "seed", TRUE)
                 /\ volume' = volume /\ Newest # 0
              \/ /\ \E plan \in {"release", "link"} :
                       IsPass(r, plan, FALSE, acf[s], Newest, 0, meta[Newest], meta[Newest], plan, TRUE)
                 /\ volume' = volume /\ Newest # 0
              \/ /\ IsPass(r, "take", FALSE, acf[s], acf[s].have, 0, RealParts(s), RealParts(s), "take", TRUE)
                 /\ volume' = volume /\ acf[s].have # 0 /\ RealParts(s) # {}
              \/ /\ IsPass(r, "link", FALSE, acf[s], acf[s].have, 0, meta[acf[s].have], meta[acf[s].have], "swap", TRUE)
                 /\ volume' = [volume EXCEPT ![s] =
                        [q \in Parts |-> IF q \in RealParts(s) THEN Nothing ELSE volume[s][q]]]
                 /\ acf[s].have # 0 /\ Has(acf[s].have)
    BY <1>5, SurveyDoes
  <2>2. acf[s].have \in {0} \cup Versions /\ Newest \in {0} \cup Versions
        /\ (Newest # 0 => Has(Newest))
    BY <1>1, NewestIsHeld DEF Bookkeeping
  <2>3. pass' \in [Servers -> Passes] /\ \A t \in Servers : Informed(pass'[t])
    <3>1. r \in Passes /\ (r.at \in {"release", "take", "copy", "link", "seed"} => r.it \in Versions)
      BY <2>1, <2>2 DEF IsPass
    <3>2. r.at \in {"release", "copy", "link"} => r.todo # {}
      BY <2>1, <2>2 DEF IsPass, Has
    <3>3. r.at \in {"take", "copy"} => r.files # {}
      BY <2>1 DEF IsPass
    <3>4. QED  BY <2>1, <3>1, <3>2, <3>3, PassTyped DEF Informed
  <2>4. volume' \in [Servers -> [Parts -> Files]]
    <3>1. [q \in Parts |-> IF q \in RealParts(s) THEN Nothing ELSE volume[s][q]] \in [Parts -> Files]
      BY <1>1, FilesAre
    <3>2. QED  BY <1>1, <2>1, <3>1, VolumeTyped DEF TypeOK
  <2>5. QED  BY <1>1, <1>5, <2>3, <2>4 DEF survey, TypeOK, storeVars, eggVars
<1>6. CASE releaseFile(s)
  <2>1. v \in Versions /\ pass[s].todo # {} /\ p \in pass[s].todo /\ p \in Parts
    BY <1>1, <1>2, <1>6, FirstIsIn DEF releaseFile, Informed
  <2>2. stored[v][p] \in 0..Cut
    BY <1>1, <2>1 DEF TypeOK
  <2>3. \/ pass' = [pass EXCEPT ![s] = OneDone(s, 0)]
        \/ pass' = [pass EXCEPT ![s] = Skipped(s)]
    BY <1>6 DEF releaseFile, Step
  <2>4. pass' \in [Servers -> Passes] /\ \A t \in Servers : Informed(pass'[t])
    <3>1. CASE pass' = [pass EXCEPT ![s] = OneDone(s, 0)]
      <4>1. OneDone(s, 0) \in Passes /\ Informed(OneDone(s, 0))
        BY <2>1, OneDoneInformed
      <4>2. QED  BY <3>1, <4>1, PassTyped
    <3>2. CASE pass' = [pass EXCEPT ![s] = Skipped(s)]
      BY <3>2, EndsInformed, PassTyped
    <3>3. QED  BY <2>3, <3>1, <3>2
  <2>5. volume' \in [Servers -> [Parts -> Files]]
    <3>1. \E f \in Files : volume' = volume \/ volume' = [volume EXCEPT ![s][p] = f]
      <4>1. stored[v][p] # 0 => Real(stored[v][p]) \in Files
        BY <2>2, FilesAre
      <4>2. Nothing \in Files
        BY FilesAre
      <4>3. QED  BY <1>6, <4>1, <4>2 DEF releaseFile
    <3>2. \A f \in Files : [volume EXCEPT ![s][p] = f] \in [Servers -> [Parts -> Files]]
      BY <1>1, <2>1, VolumeTyped DEF TypeOK
    <3>3. QED  BY <1>1, <3>1, <3>2 DEF TypeOK
  <2>6. harmed' \in BOOLEAN
    BY <1>1, <1>6 DEF releaseFile, TypeOK
  <2>7. QED  BY <1>1, <1>6, <2>4, <2>5, <2>6 DEF releaseFile, TypeOK, storeVars, eggVars
<1>7. CASE takeFile(s)
  <2>1. v \in Versions /\ pass[s].todo # {} /\ p \in Parts /\ pass[s].files # {}
    BY <1>1, <1>2, <1>7, FirstIsIn DEF takeFile, Informed
  <2>2. /\ volume[s][p].is = "real" => volume[s][p].of \in 0..Cut
        /\ Cut \in 0..Cut
    BY <1>1, <2>1, FilesAre
  <2>3. \/ /\ pass' = [pass EXCEPT ![s] = [Goto(s, "copy") EXCEPT !.src = volume[s][p].of]]
           /\ volume[s][p].is = "real"
        \/ pass' = [pass EXCEPT ![s] = Failed]
    BY <1>7 DEF takeFile, Step
  <2>4. pass' \in [Servers -> Passes] /\ \A t \in Servers : Informed(pass'[t])
    <3>1. CASE /\ pass' = [pass EXCEPT ![s] = [Goto(s, "copy") EXCEPT !.src = volume[s][p].of]]
               /\ volume[s][p].is = "real"
      <4> DEFINE r == [Goto(s, "copy") EXCEPT !.src = volume[s][p].of]
                 o == pass[s]
      <4>1. "copy" \in Places
        BY DEF Places
      <4>2. IsPass(r, "copy", o.stale, o.acf, o.it, volume[s][p].of, o.files, o.todo, o.plan, o.ok)
        BY <1>1, <2>2, <3>1, <4>1, GoesAre
      <4>3. r \in Passes /\ Informed(r)
        <5> HIDE DEF r
        <5>1. QED  BY <2>1, <4>2 DEF IsPass, Informed
      <4>4. QED  BY <3>1, <4>3, PassTyped
    <3>2. CASE pass' = [pass EXCEPT ![s] = Failed]
      BY <3>2, EndsInformed, PassTyped
    <3>3. QED  BY <2>3, <3>1, <3>2
  <2>5. stored' \in [Versions -> [Parts -> 0..Cut]]
    <3>1. stored' = stored \/ stored' = [stored EXCEPT ![v][p] = Cut]
      BY <1>7 DEF takeFile
    <3>2. [stored EXCEPT ![v][p] = Cut] \in [Versions -> [Parts -> 0..Cut]]
      BY <1>1, <2>2, StoredTyped
    <3>3. QED  BY <1>1, <3>1, <3>2 DEF TypeOK
  <2>6. harmed' \in BOOLEAN
    BY <1>1, <1>7 DEF takeFile, TypeOK
  <2>7. QED  BY <1>1, <1>7, <2>4, <2>5, <2>6 DEF takeFile, TypeOK, volumeVars, eggVars
<1>8. CASE copyFile(s)
  <2>1. v \in Versions /\ pass[s].files # {} /\ p \in Parts
    BY <1>1, <1>2, <1>8, FirstIsIn DEF copyFile, Step, Informed
  <2>2. pass' \in [Servers -> Passes] /\ \A t \in Servers : Informed(pass'[t])
    <3> DEFINE r == [Goto(s, "take") EXCEPT !.src = 0, !.todo = @ \ {p}]
               o == pass[s]
    <3>1. pass' = [pass EXCEPT ![s] = r]
      BY <1>8 DEF copyFile, Step
    <3>2. "take" \in Places
      BY DEF Places
    <3>3. IsPass(r, "take", o.stale, o.acf, o.it, 0, o.files, o.todo \ {p}, o.plan, o.ok)
      BY <1>1, <3>2, GoesAre
    <3>4. r \in Passes /\ Informed(r)
      <4> HIDE DEF r
      <4>1. QED  BY <2>1, <3>3 DEF IsPass, Informed
    <3>5. QED  BY <3>1, <3>4, PassTyped
  <2>3. stored' \in [Versions -> [Parts -> 0..Cut]]
    BY <1>1, <1>2, <1>8, StoredTyped DEF copyFile
  <2>4. volume' \in [Servers -> [Parts -> Files]]
    BY <1>1, <1>8, <2>1, FilesAre, VolumeTyped DEF copyFile, TypeOK
  <2>5. QED  BY <1>1, <1>8, <2>2, <2>3, <2>4 DEF copyFile, TypeOK, eggVars
<1>9. CASE copyFails(s)
  <2>1. pass' \in [Servers -> Passes] /\ \A t \in Servers : Informed(pass'[t])
    <3>1. pass' = [pass EXCEPT ![s] = Failed]
      BY <1>9 DEF copyFails, Step
    <3>2. QED  BY <3>1, EndsInformed, PassTyped
  <2>2. stored' \in [Versions -> [Parts -> 0..Cut]]
    <3>1. 0 \in 0..Cut
      BY FilesAre
    <3>2. stored' = [stored EXCEPT ![v][p] = 0]
      BY <1>9 DEF copyFails
    <3>3. QED  BY <1>1, <3>1, <3>2, StoredTyped
  <2>3. QED  BY <1>1, <1>9, <2>1, <2>2 DEF copyFails, TypeOK, volumeVars, eggVars
<1>10. CASE taken(s)
  <2>1. v \in Versions /\ pass[s].files # {}
    BY <1>1, <1>10 DEF taken, Step, Informed
  <2>2. \/ pass' = [pass EXCEPT ![s] = [Goto(s, "link") EXCEPT !.todo = pass[s].files]]
        \/ pass' = [pass EXCEPT ![s] = Failed]
    BY <1>10 DEF taken, Step
  <2>3. pass' \in [Servers -> Passes] /\ \A t \in Servers : Informed(pass'[t])
    <3>1. CASE pass' = [pass EXCEPT ![s] = [Goto(s, "link") EXCEPT !.todo = pass[s].files]]
      <4> DEFINE r == [Goto(s, "link") EXCEPT !.todo = pass[s].files]
                 o == pass[s]
      <4>1. "link" \in Places
        BY DEF Places
      <4>2. IsPass(r, "link", o.stale, o.acf, o.it, o.src, o.files, o.files, o.plan, o.ok)
        BY <1>1, <1>2, <4>1, GoesAre
      <4>3. r \in Passes /\ Informed(r)
        <5> HIDE DEF r
        <5>1. QED  BY <2>1, <4>2 DEF IsPass, Informed
      <4>4. QED  BY <3>1, <4>3, PassTyped
    <3>2. CASE pass' = [pass EXCEPT ![s] = Failed]
      BY <3>2, EndsInformed, PassTyped
    <3>3. QED  BY <2>2, <3>1, <3>2
  <2>4. meta' \in [Versions -> SUBSET Parts]
    BY <1>1, <1>2, <1>10 DEF taken, TypeOK
  <2>5. harmed' \in BOOLEAN
    BY <1>1, <1>10 DEF taken, TypeOK
  <2>6. QED  BY <1>1, <1>10, <2>3, <2>4, <2>5 DEF taken, TypeOK, volumeVars, eggVars
<1>11. CASE linkFile(s)
  <2>1. v \in Versions /\ pass[s].todo # {} /\ p \in pass[s].todo /\ p \in Parts
    BY <1>1, <1>2, <1>11, FirstIsIn DEF linkFile, Informed
  <2>2. \/ \E w \in {0, v} : pass' = [pass EXCEPT ![s] = OneDone(s, w)]
        \/ pass' = [pass EXCEPT ![s] = Failed]
        \/ pass' = [pass EXCEPT ![s] = Skipped(s)]
    BY <1>11 DEF linkFile, Step
  <2>3. pass' \in [Servers -> Passes] /\ \A t \in Servers : Informed(pass'[t])
    <3>1. ASSUME NEW w \in {0, v}, pass' = [pass EXCEPT ![s] = OneDone(s, w)]
          PROVE  pass' \in [Servers -> Passes] /\ \A t \in Servers : Informed(pass'[t])
      <4>1. w \in {0} \cup Versions
        BY <2>1
      <4>2. OneDone(s, w) \in Passes /\ Informed(OneDone(s, w))
        BY <2>1, <4>1, OneDoneInformed
      <4>3. QED  BY <3>1, <4>2, PassTyped
    <3>2. CASE pass' = [pass EXCEPT ![s] = Skipped(s)] \/ pass' = [pass EXCEPT ![s] = Failed]
      BY <3>2, EndsInformed, PassTyped
    <3>3. QED  BY <2>2, <3>1, <3>2
  <2>4. volume' \in [Servers -> [Parts -> Files]]
    <3>1. Nothing \in Files /\ Link(v) \in Files
      BY <2>1, FilesAre
    <3>2. \/ volume' = [volume EXCEPT ![s][p] = Nothing]
          \/ \E extra \in SUBSET Parts : volume' = [volume EXCEPT ![s] =
                [q \in Parts |-> IF q = p THEN Link(v) ELSE IF q \in extra THEN Nothing ELSE @[q]]]
      <4>1. LinkParts(s) \ pass[s].files \in SUBSET Parts /\ {} \in SUBSET Parts
        BY DEF LinkParts
      <4>2. QED  BY <1>11, <4>1 DEF linkFile
    <3>3. \A extra \in SUBSET Parts :
             [q \in Parts |-> IF q = p THEN Link(v) ELSE IF q \in extra THEN Nothing ELSE volume[s][q]]
             \in [Parts -> Files]
      BY <1>1, <3>1
    <3>4. [volume EXCEPT ![s][p] = Nothing] \in [Servers -> [Parts -> Files]]
      BY <1>1, <2>1, <3>1, VolumeTyped DEF TypeOK
    <3>5. \A g \in [Parts -> Files] : [volume EXCEPT ![s] = g] \in [Servers -> [Parts -> Files]]
      BY <1>1, VolumeTyped DEF TypeOK
    <3>6. QED  BY <3>2, <3>3, <3>4, <3>5
  <2>5. QED  BY <1>1, <1>11, <2>3, <2>4 DEF linkFile, TypeOK, storeVars, eggVars
<1>12. CASE seed(s)
  <2>1. v \in Versions
    BY <1>1, <1>12 DEF seed, Step, Informed
  <2>2. pass' = [pass EXCEPT ![s] =
           IF Has(v) THEN [Goto(s, "link") EXCEPT !.files = meta[v], !.todo = meta[v]]
           ELSE Settled(s, 0)]
    BY <1>12 DEF seed, Step
  <2>3. pass' \in [Servers -> Passes] /\ \A t \in Servers : Informed(pass'[t])
    <3>1. CASE Has(v)
      <4> DEFINE m == meta[v]
                 r == [Goto(s, "link") EXCEPT !.files = m, !.todo = m]
                 o == pass[s]
      <4>1. "link" \in Places /\ m \in SUBSET Parts /\ m # {}
        BY <1>1, <2>1, <3>1 DEF Places, TypeOK, Has
      <4>2. pass' = [pass EXCEPT ![s] = r]
        BY <2>2, <3>1
      <4> HIDE DEF m
      <4>3. IsPass(r, "link", o.stale, o.acf, o.it, o.src, m, m, o.plan, o.ok)
        BY <1>1, <4>1, GoesAre
      <4>4. r \in Passes /\ Informed(r)
        <5> HIDE DEF r
        <5>1. QED  BY <2>1, <4>1, <4>3 DEF IsPass, Informed
      <4>5. QED  BY <4>2, <4>4, PassTyped
    <3>2. CASE ~Has(v)
      <4>1. pass' = [pass EXCEPT ![s] = Settled(s, 0)]
        BY <2>2, <3>2
      <4>2. QED  BY <4>1, EndsInformed, PassTyped
    <3>3. QED  BY <3>1, <3>2
  <2>4. QED  BY <1>1, <1>12, <2>3 DEF seed, TypeOK, storeVars, volumeVars, eggVars
<1>13. CASE writeACF(s)
  <2>1. \/ pass' = [pass EXCEPT ![s] = [Idle EXCEPT !.at = "reply", !.ok = pass[s].ok]]
        \/ pass' = [pass EXCEPT ![s] = Failed]
    BY <1>13 DEF writeACF, Step
  <2>2. pass' \in [Servers -> Passes] /\ \A t \in Servers : Informed(pass'[t])
    <3> DEFINE r == [Idle EXCEPT !.at = "reply", !.ok = pass[s].ok]
    <3>1. r \in Passes /\ r.at = "reply"
      BY <1>1, EndsAre DEF IsPass
    <3> HIDE DEF r
    <3>2. Informed(r)
      BY <3>1 DEF Informed
    <3>3. QED  BY <2>1, <3>1, <3>2, EndsInformed, PassTyped DEF r
  <2>3. acf' \in [Servers -> Bookkeeping]
    <3>1. Books(s) \in Bookkeeping
      BY <1>2 DEF Books, Bookkeeping
    <3>2. QED  BY <1>1, <1>13, <3>1 DEF writeACF, TypeOK
  <2>4. QED  BY <1>1, <1>13, <2>2, <2>3 DEF writeACF, TypeOK, storeVars, eggVars
<1>14. CASE reply(s)
  <2>1. pass' \in [Servers -> Passes] /\ \A t \in Servers : Informed(pass'[t])
    <3> DEFINE r == [Idle EXCEPT !.at = "free"]
    <3>1. pass' = [pass EXCEPT ![s] = r]
      BY <1>14 DEF reply, Step
    <3>2. r \in Passes /\ r.at = "free"
      BY <1>1, EndsAre DEF IsPass
    <3> HIDE DEF r
    <3>3. Informed(r)
      BY <3>2 DEF Informed
    <3>4. QED  BY <3>1, <3>2, <3>3, PassTyped
  <2>2. ready' \subseteq Servers
    BY <1>1, <1>14 DEF reply, TypeOK
  <2>3. QED  BY <1>1, <1>14, <2>1, <2>2 DEF reply, TypeOK, storeVars, volumeVars
<1>15. CASE free(s)
  <2>1. pass' \in [Servers -> Passes] /\ \A t \in Servers : Informed(pass'[t])
    <3>1. pass' = [pass EXCEPT ![s] = Idle]
      BY <1>15 DEF free, Step
    <3>2. QED  BY <3>1, EndsInformed, PassTyped
  <2>2. QED  BY <1>1, <1>15, <2>1 DEF free, TypeOK, storeVars, volumeVars, eggVars
<1>16. QED
  BY <1>4, <1>5, <1>6, <1>7, <1>8, <1>9, <1>10, <1>11, <1>12, <1>13, <1>14, <1>15 DEF sync

LEMMA NextTyped ==
    ASSUME TypeInv, [Next]_vars
    PROVE  TypeInv'
<1> USE DEF storeVars, volumeVars, nodeVars, eggVars
<1>1. TypeOK /\ \A s \in Servers : Informed(pass[s])
  BY DEF TypeInv
<1>2. ASSUME TypeOK', \A s \in Servers : Informed(pass'[s])
      PROVE  TypeInv'
  BY <1>2 DEF TypeInv
<1>3. ASSUME NEW s \in Servers, sync(s)
      PROVE  TypeInv'
  BY <1>3, SyncTyped
<1>4. ASSUME NEW s \in Servers, ask(s)
      PROVE  TypeInv'
  <2>1. pass' \in [Servers -> Passes] /\ \A t \in Servers : Informed(pass'[t])
    <3>1. CASE pass[s].at # "idle"
      BY <1>1, <1>4, <3>1 DEF ask, claim, TypeOK
    <3>2. CASE pass[s].at = "idle"
      <4> DEFINE o  == pass[s]
                 on == StaleNow
                 r1 == [o EXCEPT !.at = "survey"]
                 r2 == [r1 EXCEPT !.stale = on]
      <4>1. pass' = [pass EXCEPT ![s] = r2]
        BY <1>1, <1>4, <3>2 DEF ask, claim, TypeOK
      <4>2. IsPass(o, o.at, o.stale, o.acf, o.it, o.src, o.files, o.todo, o.plan, o.ok)
        BY <1>1, OwnFields DEF TypeOK
      <4>3. "survey" \in Places /\ on \in BOOLEAN
        BY DEF Places, StaleNow
      <4> HIDE DEF o, on
      <4>4. IsPass(r1, "survey", o.stale, o.acf, o.it, o.src, o.files, o.todo, o.plan, o.ok)
        BY <4>2, <4>3, SetAt
      <4> HIDE DEF r1
      <4>5. IsPass(r2, "survey", on, o.acf, o.it, o.src, o.files, o.todo, o.plan, o.ok)
        BY <4>3, <4>4, SetStale
      <4>6. r2 \in Passes /\ r2.at = "survey"
        BY <4>5 DEF IsPass
      <4> HIDE DEF r2
      <4>7. Informed(r2)
        BY <4>6 DEF Informed
      <4>8. QED  BY <4>1, <4>6, <4>7, PassTyped
    <3>3. QED  BY <3>1, <3>2
  <2>2. QED  BY <1>1, <1>2, <1>4, <2>1 DEF ask, TypeOK
<1>5. ASSUME NEW s \in Servers, starts(s)
      PROVE  TypeInv'
  BY <1>1, <1>2, <1>5 DEF starts, TypeOK
<1>6. ASSUME NEW s \in Servers, restarts(s)
      PROVE  TypeInv'
  BY <1>1, <1>2, <1>6 DEF restarts, TypeOK
<1>7. ASSUME NEW s \in Servers, notice(s)
      PROVE  TypeInv'
  BY <1>1, <1>2, <1>7 DEF notice, TypeOK, Bookkeeping
<1>8. ASSUME NEW s \in Servers, download(s)
      PROVE  TypeInv'
  <2> DEFINE v == acf[s].latest
             p == First(Missing(s))
  <2>1. v \in Versions
    BY <1>1, <1>8 DEF download, Pending, TypeOK, Bookkeeping
  <2>2. p \in Parts
    <3>1. Missing(s) \in SUBSET Parts /\ Missing(s) # {}
      BY <1>8, <2>1, WorkshopAssumption DEF download, Missing
    <3>2. QED  BY <3>1, FirstIsIn
  <2>3. v \in 1..Cut
    BY <2>1, FilesAre
  <2>4. [volume EXCEPT ![s][p] = Real(v)] \in [Servers -> [Parts -> Files]]
    BY <1>1, <2>2, <2>3, FilesAre, VolumeTyped DEF TypeOK
  <2>5. QED  BY <1>1, <1>2, <1>8, <2>4 DEF download, TypeOK
<1>9. ASSUME NEW s \in Servers, install(s)
      PROVE  TypeInv'
  <2> DEFINE v == acf[s].latest
             g == [p \in Parts |-> IF p \in PartsOf[v] THEN volume[s][p] ELSE Nothing]
  <2>1. acf' \in [Servers -> Bookkeeping]
    BY <1>1, <1>9 DEF install, TypeOK, Bookkeeping
  <2>2. volume' \in [Servers -> [Parts -> Files]]
    <3>1. volume' = [volume EXCEPT ![s] = g]
      BY <1>9 DEF install
    <3>2. g \in [Parts -> Files]
      BY <1>1, FilesAre DEF TypeOK
    <3> HIDE DEF g
    <3>3. QED  BY <1>1, <3>1, <3>2 DEF TypeOK
  <2>3. QED  BY <1>1, <1>2, <1>9, <2>1, <2>2 DEF install, TypeOK
<1>10. ASSUME NEW v \in Versions, prune(v)
       PROVE  TypeInv'
  BY <1>1, <1>2, <1>10, FilesAre DEF prune, TypeOK
<1>11. CASE checkUpdates
  BY <1>1, <1>2, <1>11 DEF checkUpdates, TypeOK
<1>12. CASE publishes
  BY <1>1, <1>2, <1>12, WorkshopAssumption DEF publishes, TypeOK
<1>13. CASE daemonRestarts
  <2>1. pass' \in [Servers -> Passes] /\ \A s \in Servers : Informed(pass'[s])
    <3>1. Idle \in Passes /\ Idle.at = "idle"
      BY IdleIs DEF IsPass
    <3>2. Informed(Idle)
      BY <3>1 DEF Informed
    <3>3. QED  BY <1>13, <3>1, <3>2 DEF daemonRestarts
  <2>2. QED  BY <1>1, <1>2, <1>13, <2>1 DEF daemonRestarts, TypeOK
<1>14. CASE UNCHANGED vars
  BY <1>1, <1>2, <1>14 DEF vars, TypeOK
<1>15. QED
  BY <1>3, <1>4, <1>5, <1>6, <1>7, <1>8, <1>9, <1>10, <1>11, <1>12, <1>13, <1>14
  DEF Next, answered, givesUp

LEMMA InitTyped == Init => TypeInv
<1> SUFFICES ASSUME Init
             PROVE  TypeInv
  OBVIOUS
<1>1. Idle \in Passes /\ Idle.at = "idle"
  BY IdleIs DEF IsPass
<1>2. \A s \in Servers : Informed(pass[s])
  BY <1>1 DEF Init, Informed
<1>3. TypeOK
  <2>1. /\ 0 \in 0..Cut /\ 1 \in Versions /\ Nothing \in Files
        /\ [have |-> 0, latest |-> 0] \in Bookkeeping
    BY FilesAre, WorkshopAssumption DEF Bookkeeping
  <2>2. /\ volume \in [Servers -> [Parts -> Files]]
        /\ stored \in [Versions -> [Parts -> 0..Cut]]
    BY <2>1 DEF Init
  <2>3. QED  BY <1>1, <2>1, <2>2 DEF Init, TypeOK
<1>4. QED  BY <1>2, <1>3 DEF TypeInv

(* The state of the cache, of the volumes and of every pass keeps to its   *)
(* type, with failures, restarts and prunes at any moment.                 *)
THEOREM TypeCorrect == Spec => []TypeOK
<1>1. Spec => []TypeInv
  BY InitTyped, NextTyped, PTL DEF Spec
<1>2. TypeInv => TypeOK
  BY DEF TypeInv
<1>3. QED  BY <1>1, <1>2, PTL

-----------------------------------------------------------------------------
(* What a step leaves alone *)

(* A server none of whose own things change stays right while the store    *)
(* loses nothing.                                                          *)
LEMMA OthersRight ==
    ASSUME TypeInv, NEW t \in Servers, VolumeRight(t),
           volume'[t] = volume[t], acf'[t] = acf[t], pass'[t] = pass[t], phase'[t] = phase[t],
           \A v \in Versions : meta[v] # {} => meta'[v] # {},
           \A v \in Versions, p \in Parts : stored[v][p] # 0 => stored'[v][p] # 0
    PROVE  VolumeRight(t)'
<1>1. RealParts(t)' = RealParts(t) /\ LinkParts(t)' = LinkParts(t)
  BY DEF RealParts, LinkParts
<1>2. \A p \in LinkParts(t) : volume[t][p].of \in Versions
  BY FilesAre DEF LinkParts, TypeInv, TypeOK
<1>3. Informed(pass[t]) /\ pass[t].files \in SUBSET Parts
  BY OwnFields DEF TypeInv, TypeOK
<1>4. LinksHeld(t)'
  BY <1>1, <1>2 DEF VolumeRight, LinksHeld
<1>5. RealsOwn(t)'
  BY <1>1 DEF VolumeRight, RealsOwn, At
<1>6. Alone(t)'
  BY DEF VolumeRight, Alone, At, Working
<1>7. Releasing(t)'
  BY <1>1, <1>3 DEF VolumeRight, Releasing, Informed, At, Going, Done
<1>8. Taking(t)'
  BY <1>1, <1>3 DEF VolumeRight, Taking, Informed, At, Going, Done
<1>9. Linking(t)'
  BY <1>1, <1>3 DEF VolumeRight, Linking, Informed, At, Going, Done
<1>10. Seeding(t)'
  BY <1>1, <1>3 DEF VolumeRight, Seeding, Informed, At
<1>11. Writing(t)' /\ Replying(t)'
  BY <1>1 DEF VolumeRight, Writing, Replying, At, Describes, Books
<1>12. QED
  BY <1>4, <1>5, <1>6, <1>7, <1>8, <1>9, <1>10, <1>11 DEF VolumeRight

(* A step of one pass beside the store.                                    *)
LEMMA StepRight ==
    ASSUME TypeInv, CacheRight, NEW s \in Servers, NEW r, pass' = [pass EXCEPT ![s] = r],
           pass[s].at # "copy", UNCHANGED <<stored, meta, phase>>,
           \A t \in Servers \ {s} : volume'[t] = volume[t] /\ acf'[t] = acf[t],
           VolumeRight(s)'
    PROVE  CacheRight'
<1>1. \A t \in Servers \ {s} : pass'[t] = pass[t]
  BY DEF TypeInv, TypeOK
<1>2. ASSUME NEW t \in Servers \ {s}
      PROVE  VolumeRight(t)'
  BY <1>1, OthersRight DEF CacheRight
<1>3. \A v, p : Copying(v, p) => Copying(v, p)'
  BY <1>1 DEF Copying
<1>4. ASSUME NEW v \in Versions
      PROVE  VersionWhole(v)'
  BY <1>3 DEF CacheRight, VersionWhole
<1>5. QED  BY <1>2, <1>4 DEF CacheRight

(* A version that is recorded is there.                                    *)
LEMMA RecordedIsHeld ==
    ASSUME NEW v \in Versions, VersionWhole(v), meta[v] # {}
    PROVE  Has(v) /\ meta[v] = PartsOf[v]
BY DEF VersionWhole, Has

-----------------------------------------------------------------------------
(* The steps of a pass *)

(* A pass that handles no files has less to be right about.                *)
LEMMA RestRight ==
    ASSUME NEW s \in Servers, pass'[s].at \notin {"release", "take", "copy", "link", "seed"},
           LinksHeld(s)', RealsOwn(s)', Alone(s)', Writing(s)', Replying(s)'
    PROVE  VolumeRight(s)'
BY DEF VolumeRight, Releasing, Taking, Linking, Seeding, At

(* A pass that fails leaves its volume to the next one.                    *)
LEMMA FailedRight ==
    ASSUME TypeInv, CacheRight, NEW s \in Servers, Working(s), pass[s].at # "copy",
           pass' = [pass EXCEPT ![s] = Failed], UNCHANGED <<stored, meta, phase, acf>>,
           \A t \in Servers \ {s} : volume'[t] = volume[t],
           LinksHeld(s)', RealsOwn(s)'
    PROVE  CacheRight'
<1>1. pass'[s].at = "reply" /\ pass'[s].ok = FALSE
  BY EndsAre DEF IsPass, TypeInv, TypeOK
<1>2. Alone(s)'
  BY <1>1 DEF CacheRight, VolumeRight, Alone, Working, At
<1>3. Writing(s)' /\ Replying(s)'
  BY <1>1 DEF Writing, Replying, At
<1>4. VolumeRight(s)'
  BY <1>1, <1>2, <1>3, RestRight
<1>5. QED  BY <1>4, StepRight

LEMMA SurveyRight ==
    ASSUME TypeInv, CacheRight, NEW s \in Servers, survey(s)
    PROVE  CacheRight'
<1> DEFINE have == acf[s].have
           real == RealParts(s)
<1>1. /\ TypeOK /\ VolumeRight(s) /\ \A v \in Versions : VersionWhole(v)
      /\ acf[s] \in Bookkeeping /\ have \in {0} \cup Versions
  BY DEF TypeInv, TypeOK, Bookkeeping, CacheRight
<1>2. /\ pass[s].at = "survey" /\ UNCHANGED <<stored, meta, phase, acf>>
      /\ pass \in [Servers -> Passes] /\ volume \in [Servers -> [Parts -> Files]]
  BY <1>1 DEF survey, Step, storeVars, eggVars, TypeOK
<1>3. PICK r :
         /\ pass' = [pass EXCEPT ![s] = r]
         /\ \/ /\ IsPass(r, "acf", FALSE, acf[s], 0, 0, {}, {}, "none", TRUE)
               /\ volume' = volume
               /\ real = {} => LinkParts(s) = {} \/ Newest = 0
            \/ /\ IsPass(r, "seed", FALSE, acf[s], Newest, 0, {}, {}, "seed", TRUE)
               /\ volume' = volume
               /\ real = {} /\ LinkParts(s) = {} /\ Newest # 0
            \/ /\ \E plan \in {"release", "link"} :
                     IsPass(r, plan, FALSE, acf[s], Newest, 0, meta[Newest], meta[Newest], plan, TRUE)
               /\ volume' = volume
               /\ real = {} /\ Newest # 0
            \/ /\ IsPass(r, "take", FALSE, acf[s], have, 0, real, real, "take", TRUE)
               /\ volume' = volume
               /\ real # {} /\ have # 0 /\ ~Pending(acf[s])
            \/ /\ IsPass(r, "link", FALSE, acf[s], have, 0, meta[have], meta[have], "swap", TRUE)
               /\ volume' = [volume EXCEPT ![s] =
                      [p \in Parts |-> IF p \in real THEN Nothing ELSE volume[s][p]]]
               /\ have # 0 /\ Has(have)
  BY <1>1, SurveyDoes
<1>4. /\ Newest \in {0} \cup Versions
      /\ Newest # 0 => meta[Newest] # {} /\ meta[Newest] = PartsOf[Newest]
      /\ Newest = 0 => LinkParts(s) = {}
  <2>1. Newest \in {0} \cup Versions /\ (Newest # 0 => Has(Newest))
    BY NewestIsHeld
  <2>2. Newest # 0 => meta[Newest] # {} /\ meta[Newest] = PartsOf[Newest]
    BY <1>1, <2>1, RecordedIsHeld DEF Has
  <2>3. ASSUME Newest = 0, NEW p \in LinkParts(s)
        PROVE  FALSE
    <3>1. volume[s][p].of \in Versions /\ meta[volume[s][p].of] # {}
      BY <1>1, FilesAre DEF LinkParts, VolumeRight, LinksHeld, TypeOK
    <3>2. QED  BY <1>1, <2>3, <3>1, RecordedIsHeld, NewestIsHeld
  <2>4. QED  BY <2>1, <2>2, <2>3
<1>5. pass'[s] = r
  BY <1>2, <1>3
<1>6. /\ volume'[s] = volume[s] => RealParts(s)' = real /\ LinkParts(s)' = LinkParts(s)
      /\ \A t \in Servers \ {s} : volume'[t] = volume[t]
  BY <1>2, <1>3 DEF RealParts, LinkParts
<1>7. ASSUME volume' = volume
      PROVE  LinksHeld(s)' /\ RealsOwn(s)'
  BY <1>1, <1>2, <1>6, <1>7 DEF VolumeRight, LinksHeld, RealsOwn, At
<1>8. ASSUME pass'[s].acf = acf[s]
      PROVE  Alone(s)'
  BY <1>1, <1>2, <1>8 DEF VolumeRight, Alone, Working, At
<1>9. CASE /\ IsPass(r, "acf", FALSE, acf[s], 0, 0, {}, {}, "none", TRUE)
           /\ volume' = volume
           /\ real = {} => LinkParts(s) = {} \/ Newest = 0
  <2>1. pass'[s].at = "acf" /\ pass'[s].it = 0 /\ pass'[s].acf = acf[s]
    BY <1>5, <1>9 DEF IsPass
  <2>2. Writing(s)' /\ Replying(s)'
    BY <1>4, <1>6, <1>9, <2>1 DEF Writing, Replying, Describes, At
  <2>3. VolumeRight(s)'
    BY <1>7, <1>8, <1>9, <2>1, <2>2, RestRight
  <2>4. QED  BY <1>2, <1>3, <1>6, <2>3, StepRight
<1>10. CASE /\ IsPass(r, "seed", FALSE, acf[s], Newest, 0, {}, {}, "seed", TRUE)
            /\ volume' = volume
            /\ real = {} /\ LinkParts(s) = {} /\ Newest # 0
  <2>1. pass'[s].at = "seed" /\ pass'[s].it = Newest /\ pass'[s].acf = acf[s]
    BY <1>5, <1>10 DEF IsPass
  <2>2. Seeding(s)'
    BY <1>2, <1>4, <1>6, <1>10, <2>1 DEF Seeding
  <2>3. VolumeRight(s)'
    BY <1>7, <1>8, <1>10, <2>1, <2>2
    DEF VolumeRight, Releasing, Taking, Linking, Writing, Replying, At
  <2>4. QED  BY <1>2, <1>3, <1>6, <2>3, StepRight
<1>11. ASSUME NEW plan \in {"release", "link"}, volume' = volume, real = {}, Newest # 0,
              IsPass(r, plan, FALSE, acf[s], Newest, 0, meta[Newest], meta[Newest], plan, TRUE)
       PROVE  CacheRight'
  <2>1. /\ pass'[s].at = plan /\ pass'[s].it = Newest /\ pass'[s].acf = acf[s]
        /\ pass'[s].files = PartsOf[Newest] /\ pass'[s].todo = PartsOf[Newest]
    BY <1>4, <1>5, <1>11 DEF IsPass
  <2>2. Going(s)' /\ Done(s)' = {} /\ meta'[pass'[s].it] # {} /\ RealParts(s)' = {}
    BY <1>2, <1>4, <1>6, <1>11, <2>1 DEF Going, Done
  <2>3. Releasing(s)' /\ Linking(s)'
    BY <2>2 DEF Releasing, Linking
  <2>4. VolumeRight(s)'
    BY <1>7, <1>8, <1>11, <2>1, <2>3 DEF VolumeRight, Taking, Seeding, Writing, Replying, At
  <2>5. QED  BY <1>2, <1>3, <1>6, <2>4, StepRight
<1>12. CASE /\ IsPass(r, "take", FALSE, acf[s], have, 0, real, real, "take", TRUE)
            /\ volume' = volume
            /\ real # {} /\ have # 0 /\ ~Pending(acf[s])
  <2>1. /\ pass'[s].at = "take" /\ pass'[s].it = have /\ pass'[s].acf = acf[s]
        /\ pass'[s].files = real /\ pass'[s].todo = real
    BY <1>5, <1>12 DEF IsPass
  <2>2. real = PartsOf[have] /\ \A p \in real : volume[s][p].of = have
    BY <1>1, <1>2, <1>12 DEF VolumeRight, RealsOwn, At
  <2>3. Taking(s)'
    <3>1. Going(s)' /\ Done(s)' = {} /\ RealParts(s)' = real
      BY <1>6, <1>12, <2>1, <2>2 DEF Going, Done
    <3>2. QED  BY <1>12, <2>1, <2>2, <3>1 DEF Taking, At
  <2>4. VolumeRight(s)'
    BY <1>7, <1>8, <1>12, <2>1, <2>3
    DEF VolumeRight, Releasing, Linking, Seeding, Writing, Replying, At
  <2>5. QED  BY <1>2, <1>3, <1>6, <2>4, StepRight
<1>13. CASE /\ IsPass(r, "link", FALSE, acf[s], have, 0, meta[have], meta[have], "swap", TRUE)
            /\ volume' = [volume EXCEPT ![s] =
                   [p \in Parts |-> IF p \in real THEN Nothing ELSE volume[s][p]]]
            /\ have # 0 /\ Has(have)
  <2>1. meta[have] # {} /\ meta[have] = PartsOf[have]
    BY <1>1, <1>13, RecordedIsHeld DEF Has
  <2>2. /\ pass'[s].at = "link" /\ pass'[s].it = have /\ pass'[s].acf = acf[s]
        /\ pass'[s].files = PartsOf[have] /\ pass'[s].todo = PartsOf[have]
    BY <1>5, <1>13, <2>1 DEF IsPass
  <2>3. \A p \in Parts : volume'[s][p] = IF p \in real THEN Nothing ELSE volume[s][p]
    BY <1>2, <1>13
  <2>4. /\ RealParts(s)' = {} /\ LinkParts(s)' \subseteq LinkParts(s)
        /\ \A p \in LinkParts(s)' : volume'[s][p] = volume[s][p]
    BY <2>3, FilesAre DEF RealParts, LinkParts, Nothing
  <2>5. LinksHeld(s)' /\ RealsOwn(s)'
    BY <1>1, <1>2, <2>4 DEF VolumeRight, LinksHeld, RealsOwn
  <2>6. Linking(s)'
    <3>1. Going(s)' /\ Done(s)' = {}
      BY <2>2 DEF Going, Done
    <3>2. QED  BY <1>2, <2>1, <2>2, <2>4, <3>1 DEF Linking
  <2>7. VolumeRight(s)'
    BY <1>8, <2>2, <2>5, <2>6 DEF VolumeRight, Releasing, Taking, Seeding, Writing, Replying, At
  <2>8. QED  BY <1>2, <1>3, <1>6, <2>7, StepRight
<1> HIDE DEF have, real
<1>14. QED  BY <1>3, <1>9, <1>10, <1>11, <1>12, <1>13

LEMMA ReleaseRight ==
    ASSUME TypeInv, CacheRight, NEW s \in Servers, releaseFile(s), ~harmed'
    PROVE  CacheRight'
<1> DEFINE o == pass[s]
           v == o.it
           p == First(o.todo)
           have == acf[s].have
<1>1. /\ TypeOK /\ VolumeRight(s) /\ VersionWhole(v) /\ Informed(o) /\ v \in Versions
      /\ have \in {0} \cup Versions /\ o.todo \in SUBSET Parts /\ o.files \in SUBSET Parts
      /\ o.at = "release" /\ o.todo # {}
  <2>1. o.at = "release"
    BY DEF releaseFile
  <2>2. Informed(o) /\ TypeOK /\ o \in Passes
    BY DEF TypeInv, TypeOK
  <2>3. v \in Versions /\ o.todo # {}
    BY <2>1, <2>2 DEF Informed
  <2>4. QED  BY <2>1, <2>2, <2>3, OwnFields DEF CacheRight, TypeOK, Bookkeeping
<1>2. p \in o.todo /\ p \in Parts
  BY <1>1, FirstIsIn
<1>3. /\ stored[v][p] # 0 /\ stored[v][p] = have
      /\ pass' = [pass EXCEPT ![s] = OneDone(s, 0)]
      /\ volume' = [volume EXCEPT ![s][p] = Real(stored[v][p])]
  BY DEF releaseFile, Step
<1>4. stored[v][p] = v /\ v = have
  BY <1>1, <1>2, <1>3, FilesAre DEF VersionWhole
<1>5. /\ Going(s) /\ meta[v] # {} /\ RealParts(s) = Done(s)
      /\ \A q \in Done(s) : volume[s][q].of = v /\ v = have
      /\ o.acf = acf[s] /\ phase[s] # "up" /\ LinksHeld(s)
  BY <1>1 DEF VolumeRight, Releasing, Alone, Working, At
<1>6. /\ pass \in [Servers -> Passes] /\ volume \in [Servers -> [Parts -> Files]]
      /\ UNCHANGED <<stored, meta, phase, acf>>
  BY <1>1 DEF releaseFile, TypeOK, storeVars, eggVars
<1>7. /\ \A t \in Servers \ {s} : volume'[t] = volume[t]
      /\ volume'[s] = [volume[s] EXCEPT ![p] = Real(v)]
      /\ pass'[s] = OneDone(s, 0)
  BY <1>3, <1>4, <1>6
<1>8. /\ volume'[s][p].is = "real" /\ volume'[s][p].of = v
      /\ \A q \in Parts \ {p} : volume'[s][q] = volume[s][q]
  BY <1>2, <1>6, <1>7 DEF Real
<1>9. /\ RealParts(s)' = RealParts(s) \cup {p}
      /\ LinkParts(s)' \subseteq LinkParts(s) \ {p}
  BY <1>2, <1>8 DEF RealParts, LinkParts
<1>10. /\ \A q \in RealParts(s)' : volume'[s][q].of = v
       /\ LinksHeld(s)'
  <2>1. \A q \in RealParts(s)' : volume'[s][q].of = v
    BY <1>2, <1>5, <1>8, <1>9 DEF RealParts
  <2>2. \A q \in LinkParts(s)' : volume'[s][q] = volume[s][q]
    BY <1>8, <1>9 DEF LinkParts
  <2>3. LinksHeld(s)'
    BY <1>5, <1>6, <1>9, <2>2 DEF LinksHeld
  <2>4. QED  BY <2>1, <2>3
<1>11. CASE o.todo = {p}
  <2>1. IsPass(OneDone(s, 0), "acf", FALSE, o.acf, 0, 0, {}, {}, "none", o.ok)
    BY <1>1, <1>11, OneIsDone
  <2>2. pass'[s].at = "acf" /\ pass'[s].it = 0 /\ pass'[s].acf = acf[s]
    BY <1>5, <1>7, <2>1 DEF IsPass
  <2>3. RealParts(s)' = PartsOf[v] /\ RealParts(s)' # {}
    BY <1>2, <1>5, <1>9, <1>11 DEF Going, Done
  <2>4. RealsOwn(s)'
    BY <1>4, <1>6, <1>10, <2>3 DEF RealsOwn
  <2>5. Alone(s)' /\ Writing(s)' /\ Replying(s)'
    BY <1>5, <1>6, <2>2, <2>3 DEF Alone, Writing, Replying, Describes, At
  <2>6. VolumeRight(s)'
    BY <1>10, <2>2, <2>4, <2>5, RestRight
  <2>7. QED  BY <1>1, <1>3, <1>6, <1>7, <2>6, StepRight
<1>12. CASE o.todo # {p}
  <2>1. IsPass(OneDone(s, 0),
               o.at, o.stale, o.acf, o.it, o.src, o.files, o.todo \ {p}, o.plan, o.ok)
    BY <1>1, <1>12, OneIsDone
  <2>2. /\ pass'[s].at = "release" /\ pass'[s].it = v /\ pass'[s].acf = acf[s]
        /\ pass'[s].files = o.files /\ pass'[s].todo = o.todo \ {p}
    BY <1>1, <1>5, <1>7, <2>1 DEF IsPass
  <2>3. Going(s)' /\ Done(s)' = Done(s) \cup {p}
    BY <1>2, <1>5, <2>2 DEF Going, Done
  <2>4. Releasing(s)'
    BY <1>4, <1>5, <1>6, <1>9, <1>10, <2>2, <2>3 DEF Releasing
  <2>5. RealsOwn(s)' /\ Alone(s)'
    BY <1>5, <1>6, <2>2 DEF RealsOwn, Alone, At
  <2>6. VolumeRight(s)'
    BY <1>10, <2>2, <2>4, <2>5 DEF VolumeRight, Taking, Linking, Seeding, Writing, Replying, At
  <2>7. QED  BY <1>1, <1>3, <1>6, <1>7, <2>6, StepRight
<1>13. QED  BY <1>11, <1>12

(* A step of one pass that may change the store but loses no file of it.   *)
LEMMA StoreStepRight ==
    ASSUME TypeInv, CacheRight, NEW s \in Servers, NEW r, pass' = [pass EXCEPT ![s] = r],
           UNCHANGED <<phase, acf>>,
           \A t \in Servers \ {s} : volume'[t] = volume[t],
           \A w \in Versions : meta[w] # {} => meta'[w] # {},
           \A w \in Versions, q \in Parts : stored[w][q] # 0 => stored'[w][q] # 0,
           \A w \in Versions : VersionWhole(w)', VolumeRight(s)'
    PROVE  CacheRight'
<1>1. \A t \in Servers \ {s} : pass'[t] = pass[t]
  BY DEF TypeInv, TypeOK
<1>2. ASSUME NEW t \in Servers \ {s}
      PROVE  VolumeRight(t)'
  BY <1>1, OthersRight DEF CacheRight
<1>3. QED  BY <1>2 DEF CacheRight

LEMMA TakeRight ==
    ASSUME TypeInv, CacheRight, NEW s \in Servers, takeFile(s), ~harmed'
    PROVE  CacheRight'
<1> DEFINE o == pass[s]
           v == o.it
           p == First(o.todo)
           r == [Goto(s, "copy") EXCEPT !.src = volume[s][p].of]
<1>1. /\ TypeOK /\ VolumeRight(s) /\ v \in Versions
      /\ o.todo \in SUBSET Parts /\ o.files \in SUBSET Parts
      /\ o.at = "take" /\ o.todo # {}
  <2>1. o.at = "take" /\ o.todo # {}
    BY DEF takeFile
  <2>2. Informed(o) /\ TypeOK /\ o \in Passes
    BY DEF TypeInv, TypeOK
  <2>3. QED  BY <2>1, <2>2, OwnFields DEF Informed, CacheRight
<1>2. p \in o.todo /\ p \in Parts
  BY <1>1, FirstIsIn
<1>3. /\ pass' = [pass EXCEPT ![s] = r]
      /\ stored' = [stored EXCEPT ![v][p] = Cut]
      /\ volume[s][p].is = "real"
  BY DEF takeFile, Step
<1>4. /\ Going(s) /\ RealParts(s) = o.todo
      /\ \A q \in o.todo : volume[s][q].of = v
      /\ \A q \in Done(s) : stored[v][q] # 0
      /\ o.acf = acf[s] /\ phase[s] # "up" /\ LinksHeld(s)
  BY <1>1 DEF VolumeRight, Taking, Alone, Working, At
<1>5. /\ pass \in [Servers -> Passes] /\ stored \in [Versions -> [Parts -> 0..Cut]]
      /\ UNCHANGED <<meta, phase, acf, volume, dirs>>
  BY <1>1 DEF takeFile, TypeOK, volumeVars, eggVars
<1>6. \A w \in Versions, q \in Parts :
         stored'[w][q] = IF w = v /\ q = p THEN Cut ELSE stored[w][q]
  BY <1>1, <1>2, <1>3, <1>5
<1>7. pass'[s] = r /\ \A t \in Servers \ {s} : pass'[t] = pass[t]
  BY <1>3, <1>5
<1>8. /\ pass'[s].at = "copy" /\ pass'[s].it = v /\ pass'[s].acf = acf[s]
      /\ pass'[s].src = v /\ pass'[s].files = o.files /\ pass'[s].todo = o.todo
  <2> DEFINE c == volume[s][p].of
  <2>1. "copy" \in Places /\ c \in 0..Cut /\ c = v
    BY <1>1, <1>2, <1>3, <1>4, FilesAre DEF Places
  <2>2. IsPass(r, "copy", o.stale, o.acf, o.it, c, o.files, o.todo, o.plan, o.ok)
    <3> HIDE DEF c
    <3>1. \A d \in 0..Cut : IsPass([Goto(s, "copy") EXCEPT !.src = d],
             "copy", o.stale, o.acf, o.it, d, o.files, o.todo, o.plan, o.ok)
      BY <1>1, <2>1, GoesAre
    <3>2. QED  BY <2>1, <3>1 DEF c
  <2> HIDE DEF r, c
  <2>3. QED  BY <1>4, <1>7, <2>1, <2>2 DEF IsPass
<1>9. \A w \in Versions, q \in Parts : stored[w][q] # 0 => stored'[w][q] # 0
  BY <1>6, FilesAre
<1>10. ASSUME NEW w \in Versions
       PROVE  VersionWhole(w)'
  <2>1. VersionWhole(w)
    BY DEF CacheRight
  <2>2. \A q : Copying(w, q) => Copying(w, q)'
    BY <1>1, <1>7 DEF Copying
  <2>3. ASSUME NEW q \in Parts, w = v, q = p
        PROVE  Copying(w, q)'
    BY <1>8, <2>3 DEF Copying
  <2>4. meta'[w] \in {{}, PartsOf[w]}
    BY <1>5, <2>1 DEF VersionWhole
  <2>5. \A q \in Parts : \/ stored'[w][q] \in {0, w}
                         \/ stored'[w][q] = Cut /\ Copying(w, q)'
    BY <1>6, <2>1, <2>2, <2>3 DEF VersionWhole
  <2>6. PartsOf[w] \subseteq Parts
    BY WorkshopAssumption
  <2>7. meta'[w] # {} => \A q \in PartsOf[w] : stored'[w][q] # 0
    BY <1>5, <1>9, <2>1, <2>6 DEF VersionWhole
  <2>8. QED  BY <2>4, <2>5, <2>7 DEF VersionWhole
<1>11. VolumeRight(s)'
  <2>1. RealParts(s)' = RealParts(s) /\ LinksHeld(s)'
    BY <1>4, <1>5 DEF RealParts, LinksHeld, LinkParts
  <2>2. Going(s)' /\ Done(s)' = Done(s) /\ Done(s) \subseteq Parts
    BY <1>1, <1>4, <1>8 DEF Going, Done
  <2>3. Taking(s)'
    BY <1>1, <1>4, <1>5, <1>8, <1>9, <2>1, <2>2 DEF Taking
  <2>4. RealsOwn(s)' /\ Alone(s)'
    BY <1>4, <1>5, <1>8 DEF RealsOwn, Alone, At
  <2>5. QED
    BY <1>8, <2>1, <2>3, <2>4 DEF VolumeRight, Releasing, Linking, Seeding, Writing, Replying, At
<1> HIDE DEF r
<1>12. QED  BY <1>3, <1>5, <1>9, <1>10, <1>11, StoreStepRight

LEMMA CopyRight ==
    ASSUME TypeInv, CacheRight, NEW s \in Servers, copyFile(s)
    PROVE  CacheRight'
<1> DEFINE o == pass[s]
           v == o.it
           p == First(o.todo)
           r == [Goto(s, "take") EXCEPT !.src = 0, !.todo = @ \ {p}]
<1>1. /\ TypeOK /\ VolumeRight(s) /\ v \in Versions
      /\ o.todo \in SUBSET Parts /\ o.files \in SUBSET Parts
      /\ o.at = "copy" /\ o.todo # {}
  <2>1. o.at = "copy"
    BY DEF copyFile, Step
  <2>2. Informed(o) /\ TypeOK /\ o \in Passes
    BY DEF TypeInv, TypeOK
  <2>3. QED  BY <2>1, <2>2, OwnFields DEF Informed, CacheRight
<1>2. p \in o.todo /\ p \in Parts
  BY <1>1, FirstIsIn
<1>3. /\ Going(s) /\ RealParts(s) = o.todo
      /\ \A q \in o.todo : volume[s][q].of = v
      /\ \A q \in Done(s) : stored[v][q] # 0
      /\ o.acf = acf[s] /\ phase[s] # "up" /\ LinksHeld(s) /\ o.src = v
  BY <1>1 DEF VolumeRight, Taking, Alone, Working, At
<1>4. /\ pass' = [pass EXCEPT ![s] = r]
      /\ stored' = [stored EXCEPT ![v][p] = v]
      /\ volume' = [volume EXCEPT ![s][p] = Nothing]
  BY <1>3 DEF copyFile, Step
<1>5. /\ pass \in [Servers -> Passes] /\ stored \in [Versions -> [Parts -> 0..Cut]]
      /\ volume \in [Servers -> [Parts -> Files]]
      /\ UNCHANGED <<meta, phase, acf>>
  BY <1>1 DEF copyFile, TypeOK, eggVars
<1>6. \A w \in Versions, q \in Parts :
         stored'[w][q] = IF w = v /\ q = p THEN v ELSE stored[w][q]
  BY <1>1, <1>2, <1>4, <1>5
<1>7. /\ pass'[s] = r /\ \A t \in Servers \ {s} : pass'[t] = pass[t] /\ volume'[t] = volume[t]
      /\ volume'[s] = [volume[s] EXCEPT ![p] = Nothing]
  BY <1>4, <1>5
<1>8. /\ pass'[s].at = "take" /\ pass'[s].it = v /\ pass'[s].acf = acf[s]
      /\ pass'[s].files = o.files /\ pass'[s].todo = o.todo \ {p}
  <2>1. "take" \in Places
    BY DEF Places
  <2>2. IsPass(r, "take", o.stale, o.acf, o.it, 0, o.files, o.todo \ {p}, o.plan, o.ok)
    BY <1>1, <2>1, GoesAre
  <2> HIDE DEF r
  <2>3. QED  BY <1>3, <1>7, <2>2 DEF IsPass
<1>9. \A w \in Versions, q \in Parts : stored[w][q] # 0 => stored'[w][q] # 0
  <2>1. v # 0
    BY <1>1, FilesAre
  <2> HIDE DEF o, v, p
  <2>2. QED  BY <1>6, <2>1
<1>10. ASSUME NEW w \in Versions
       PROVE  VersionWhole(w)'
  <2>1. VersionWhole(w)
    BY DEF CacheRight
  <2>2. \A q : ~(w = v /\ q = p) /\ Copying(w, q) => Copying(w, q)'
    BY <1>7 DEF Copying
  <2>3. meta'[w] \in {{}, PartsOf[w]}
    BY <1>5, <2>1 DEF VersionWhole
  <2>4. \A q \in Parts : \/ stored'[w][q] \in {0, w}
                         \/ stored'[w][q] = Cut /\ Copying(w, q)'
    BY <1>6, <2>1, <2>2 DEF VersionWhole
  <2>5. PartsOf[w] \subseteq Parts
    BY WorkshopAssumption
  <2>6. meta'[w] # {} => \A q \in PartsOf[w] : stored'[w][q] # 0
    BY <1>5, <1>9, <2>1, <2>5 DEF VersionWhole
  <2>7. QED  BY <2>3, <2>4, <2>6 DEF VersionWhole
<1>11. VolumeRight(s)'
  <2>1. volume'[s][p].is = "nothing" /\ \A q \in Parts \ {p} : volume'[s][q] = volume[s][q]
    BY <1>2, <1>5, <1>7 DEF Nothing
  <2>2. RealParts(s)' = RealParts(s) \ {p} /\ LinkParts(s)' = LinkParts(s) \ {p}
    BY <1>2, <2>1 DEF RealParts, LinkParts
  <2>3. \A q \in LinkParts(s)' \cup RealParts(s)' : volume'[s][q] = volume[s][q]
    BY <2>1, <2>2 DEF RealParts, LinkParts
  <2>4. LinksHeld(s)'
    BY <1>3, <1>5, <2>2, <2>3 DEF LinksHeld
  <2>5. Going(s)' /\ Done(s)' = Done(s) \cup {p} /\ Done(s)' \subseteq Parts
    BY <1>1, <1>2, <1>3, <1>8 DEF Going, Done
  <2>6. \A q \in Done(s)' : stored'[v][q] # 0
    BY <1>1, <1>3, <1>6, <2>5, FilesAre DEF Done
  <2>7. Taking(s)'
    BY <1>3, <1>8, <2>2, <2>3, <2>5, <2>6 DEF Taking, At
  <2>8. RealsOwn(s)' /\ Alone(s)'
    BY <1>3, <1>5, <1>8 DEF RealsOwn, Alone, At
  <2>9. QED
    BY <1>8, <2>4, <2>7, <2>8 DEF VolumeRight, Releasing, Linking, Seeding, Writing, Replying, At
<1> HIDE DEF r
<1>12. QED  BY <1>4, <1>5, <1>7, <1>9, <1>10, <1>11, StoreStepRight

LEMMA TakenRight ==
    ASSUME TypeInv, CacheRight, NEW s \in Servers, taken(s), ~harmed'
    PROVE  CacheRight'
<1> DEFINE o == pass[s]
           v == o.it
           r == [Goto(s, "link") EXCEPT !.todo = o.files]
<1>1. /\ TypeOK /\ VolumeRight(s) /\ v \in Versions
      /\ o.files \in SUBSET Parts /\ o.files # {}
      /\ o.at = "take" /\ o.todo = {}
  <2>1. o.at = "take" /\ o.todo = {}
    BY DEF taken, Step
  <2>2. Informed(o) /\ TypeOK /\ o \in Passes
    BY DEF TypeInv, TypeOK
  <2>3. QED  BY <2>1, <2>2, OwnFields DEF Informed, CacheRight
<1>2. /\ Going(s) /\ RealParts(s) = {}
      /\ \A q \in Done(s) : stored[v][q] # 0
      /\ o.acf = acf[s] /\ phase[s] # "up" /\ LinksHeld(s)
  BY <1>1 DEF VolumeRight, Taking, Alone, Working, At
<1>3. /\ pass' = [pass EXCEPT ![s] = r]
      /\ meta' = [meta EXCEPT ![v] = o.files]
  BY DEF taken, Step
<1>4. /\ pass \in [Servers -> Passes] /\ meta \in [Versions -> SUBSET Parts]
      /\ UNCHANGED <<stored, phase, acf, volume>>
  BY <1>1 DEF taken, TypeOK, volumeVars, eggVars
<1>5. pass'[s] = r /\ \A t \in Servers \ {s} : pass'[t] = pass[t]
  BY <1>3, <1>4
<1>6. \A w \in Versions : meta'[w] = IF w = v THEN PartsOf[v] ELSE meta[w]
  BY <1>1, <1>2, <1>3, <1>4 DEF Going
<1>7. PartsOf[v] = o.files /\ PartsOf[v] # {} /\ \A q \in PartsOf[v] : stored[v][q] # 0
  BY <1>1, <1>2 DEF Going, Done
<1>8. /\ pass'[s].at = "link" /\ pass'[s].it = v /\ pass'[s].acf = acf[s]
      /\ pass'[s].files = o.files /\ pass'[s].todo = o.files
  <2>1. "link" \in Places
    BY DEF Places
  <2>2. IsPass(r, "link", o.stale, o.acf, o.it, o.src, o.files, o.files, o.plan, o.ok)
    BY <1>1, <2>1, GoesAre
  <2> HIDE DEF r
  <2>3. QED  BY <1>2, <1>5, <2>2 DEF IsPass
<1>9. \A w \in Versions : meta[w] # {} => meta'[w] # {}
  BY <1>6, <1>7
<1>10. ASSUME NEW w \in Versions
       PROVE  VersionWhole(w)'
  <2>1. VersionWhole(w)
    BY DEF CacheRight
  <2>2. \A q : Copying(w, q) => Copying(w, q)'
    BY <1>1, <1>5 DEF Copying
  <2>3. \A q \in Parts : \/ stored'[w][q] \in {0, w}
                         \/ stored'[w][q] = Cut /\ Copying(w, q)'
    BY <1>4, <2>1, <2>2 DEF VersionWhole
  <2>4. /\ meta'[w] \in {{}, PartsOf[w]}
        /\ meta'[w] # {} => \A q \in PartsOf[w] : stored'[w][q] # 0
    BY <1>4, <1>6, <1>7, <2>1 DEF VersionWhole
  <2>5. QED  BY <2>3, <2>4 DEF VersionWhole
<1>11. VolumeRight(s)'
  <2>1. /\ RealParts(s)' = {} /\ LinkParts(s)' = LinkParts(s)
        /\ \A q \in LinkParts(s) : volume[s][q].of \in Versions
    BY <1>1, <1>2, <1>4, FilesAre DEF RealParts, LinkParts, TypeOK
  <2>2. LinksHeld(s)'
    BY <1>2, <1>4, <1>9, <2>1 DEF LinksHeld
  <2>3. Going(s)' /\ Done(s)' = {}
    BY <1>7, <1>8 DEF Going, Done
  <2>4. Linking(s)'
    BY <1>1, <1>6, <1>7, <1>8, <2>1, <2>3 DEF Linking
  <2>5. RealsOwn(s)' /\ Alone(s)'
    BY <1>2, <1>4, <1>8, <2>1 DEF RealsOwn, Alone, At
  <2>6. QED
    BY <1>8, <2>2, <2>4, <2>5 DEF VolumeRight, Releasing, Taking, Seeding, Writing, Replying, At
<1> HIDE DEF r
<1>12. QED  BY <1>3, <1>4, <1>9, <1>10, <1>11, StoreStepRight

LEMMA LinkRight ==
    ASSUME TypeInv, CacheRight, NEW s \in Servers, linkFile(s)
    PROVE  CacheRight'
<1> DEFINE o == pass[s]
           v == o.it
           p == First(o.todo)
           extra == IF o.todo = {p} THEN LinkParts(s) \ o.files ELSE {}
           linked == [q \in Parts |-> IF q = p THEN Link(v)
                                      ELSE IF q \in extra THEN Nothing ELSE volume[s][q]]
           w == IF Told(s) THEN v ELSE 0
<1>1. /\ TypeOK /\ VolumeRight(s) /\ v \in Versions
      /\ o.todo \in SUBSET Parts /\ o.files \in SUBSET Parts
      /\ o.at = "link" /\ o.todo # {} /\ o.acf \in Bookkeeping
  <2>1. o.at = "link"
    BY DEF linkFile
  <2>2. Informed(o) /\ TypeOK /\ o \in Passes
    BY DEF TypeInv, TypeOK
  <2>3. QED  BY <2>1, <2>2, OwnFields DEF Informed, CacheRight
<1>2. p \in o.todo /\ p \in Parts
  BY <1>1, FirstIsIn
<1>3. /\ Going(s) /\ meta[v] # {} /\ RealParts(s) = {}
      /\ \A q \in Done(s) : volume[s][q] = Link(v)
      /\ o.acf = acf[s] /\ phase[s] # "up" /\ LinksHeld(s)
  BY <1>1 DEF VolumeRight, Linking, Alone, Working, At
<1>4. /\ pass \in [Servers -> Passes] /\ volume \in [Servers -> [Parts -> Files]]
      /\ UNCHANGED <<stored, meta, phase, acf>>
  BY <1>1 DEF linkFile, TypeOK, storeVars, eggVars
<1>5. \/ /\ pass' = [pass EXCEPT ![s] = OneDone(s, w)]
         /\ volume' = [volume EXCEPT ![s] = linked]
      \/ /\ \/ pass' = [pass EXCEPT ![s] = Failed]
            \/ pass' = [pass EXCEPT ![s] = Skipped(s)]
         /\ volume' = [volume EXCEPT ![s][p] = Nothing]
  BY DEF linkFile, Step
<1>6. CASE /\ pass' = [pass EXCEPT ![s] = OneDone(s, w)]
           /\ volume' = [volume EXCEPT ![s] = linked]
  <2>1. /\ pass'[s] = OneDone(s, w) /\ w \in {0} \cup Versions
        /\ \A t \in Servers \ {s} : volume'[t] = volume[t]
    BY <1>1, <1>4, <1>6
  <2>2. \A q \in Parts : volume'[s][q] = IF q = p THEN Link(v)
                                         ELSE IF q \in extra THEN Nothing ELSE volume[s][q]
    BY <1>4, <1>6
  <2>3. /\ RealParts(s)' = {}
        /\ LinkParts(s)' = (LinkParts(s) \cup {p}) \ (extra \ {p})
        /\ \A q \in LinkParts(s)' : volume'[s][q] = IF q = p THEN Link(v) ELSE volume[s][q]
    <3> HIDE DEF extra, linked
    <3>1. Link(v).is = "link" /\ Nothing.is = "nothing"
      BY DEF Link, Nothing
    <3>2. QED  BY <1>2, <1>3, <2>2, <3>1 DEF RealParts, LinkParts
  <2>4. p \in PartsOf[v] /\ Link(v).of = v
    BY <1>2, <1>3 DEF Going, Link
  <2>5. LinksHeld(s)'
    BY <1>3, <1>4, <2>3, <2>4 DEF LinksHeld
  <2>6. RealsOwn(s)'
    BY <2>3 DEF RealsOwn
  <2>7. CASE o.todo = {p}
    <3>1. IsPass(OneDone(s, w), "acf", FALSE, o.acf, w, 0, {}, {}, "none", o.ok)
      BY <1>1, <2>1, <2>7, OneIsDone
    <3>2. pass'[s].at = "acf" /\ pass'[s].it = w /\ pass'[s].acf = acf[s]
      BY <1>3, <2>1, <3>1 DEF IsPass
    <3>3. \A q \in LinkParts(s)' : volume'[s][q].of = v
      <4>1. \A q \in LinkParts(s)' : q = p \/ q \in Done(s)
        <5>1. extra = LinkParts(s) \ o.files
          BY <2>7
        <5>2. \A q \in LinkParts(s)' : q \in o.files
          BY <1>2, <1>3, <2>3, <5>1 DEF Going
        <5>3. QED  BY <2>7, <5>2 DEF Done
      <4>2. QED  BY <1>3, <2>3, <2>4, <4>1
    <3>4. Books(s)'.have = v
      <4>1. Told(s) => w = v
        OBVIOUS
      <4>2. ~Told(s) => w = 0 /\ v = o.acf.have
        BY DEF Told
      <4>3. v # 0
        BY <1>1, FilesAre
      <4>4. Books(s)' = IF w # 0 THEN [have |-> w, latest |-> w] ELSE acf[s]
        BY <3>2 DEF Books
      <4> HIDE DEF w
      <4>5. QED  BY <1>3, <4>1, <4>2, <4>3, <4>4
    <3>5. Alone(s)' /\ Writing(s)' /\ Replying(s)'
      BY <1>3, <1>4, <2>3, <3>2, <3>3, <3>4 DEF Alone, Writing, Replying, Describes, At
    <3>6. VolumeRight(s)'
      BY <2>5, <2>6, <3>2, <3>5, RestRight
    <3>7. QED  BY <1>1, <1>4, <1>6, <2>1, <3>6, StepRight
  <2>8. CASE o.todo # {p}
    <3>1. IsPass(OneDone(s, w),
                 o.at, o.stale, o.acf, o.it, o.src, o.files, o.todo \ {p}, o.plan, o.ok)
      BY <1>1, <2>1, <2>8, OneIsDone
    <3>2. /\ pass'[s].at = "link" /\ pass'[s].it = v /\ pass'[s].acf = acf[s]
          /\ pass'[s].files = o.files /\ pass'[s].todo = o.todo \ {p}
      BY <1>1, <1>3, <2>1, <3>1 DEF IsPass
    <3>3. Going(s)' /\ Done(s)' = Done(s) \cup {p}
      BY <1>2, <1>3, <3>2 DEF Going, Done
    <3>4. \A q \in Done(s)' : volume'[s][q] = Link(v)
      BY <1>1, <1>2, <1>3, <2>2, <2>8, <3>3 DEF Done
    <3>5. Linking(s)'
      BY <1>3, <1>4, <2>3, <3>2, <3>3, <3>4 DEF Linking
    <3>6. Alone(s)'
      BY <1>3, <1>4, <3>2 DEF Alone, At
    <3>7. VolumeRight(s)'
      BY <2>5, <2>6, <3>2, <3>5, <3>6
      DEF VolumeRight, Releasing, Taking, Seeding, Writing, Replying, At
    <3>8. QED  BY <1>1, <1>4, <1>6, <2>1, <3>7, StepRight
  <2>9. QED  BY <2>7, <2>8
<1>7. CASE /\ \/ pass' = [pass EXCEPT ![s] = Failed]
              \/ pass' = [pass EXCEPT ![s] = Skipped(s)]
           /\ volume' = [volume EXCEPT ![s][p] = Nothing]
  <2>1. /\ \A t \in Servers \ {s} : volume'[t] = volume[t]
        /\ \A q \in Parts : volume'[s][q] = IF q = p THEN Nothing ELSE volume[s][q]
    BY <1>4, <1>7
  <2>2. /\ RealParts(s)' = {} /\ LinkParts(s)' \subseteq LinkParts(s)
        /\ \A q \in LinkParts(s)' : volume'[s][q] = volume[s][q]
    BY <1>3, <2>1 DEF RealParts, LinkParts, Nothing
  <2>3. LinksHeld(s)' /\ RealsOwn(s)'
    BY <1>3, <1>4, <2>2 DEF LinksHeld, RealsOwn
  <2>4. CASE pass' = [pass EXCEPT ![s] = Failed]
    <3>1. Working(s)
      BY <1>1 DEF Working
    <3>2. QED  BY <1>1, <1>4, <2>1, <2>3, <2>4, <3>1, FailedRight
  <2>5. CASE pass' = [pass EXCEPT ![s] = Skipped(s)]
    <3>1. IsPass(Skipped(s), "acf", FALSE, o.acf, 0, 0, {}, {}, "none", FALSE)
      BY <1>1, EndsAre
    <3>2. /\ pass'[s].at = "acf" /\ pass'[s].it = 0 /\ pass'[s].acf = acf[s]
          /\ pass'[s].ok = FALSE
      BY <1>3, <1>4, <2>5, <3>1 DEF IsPass
    <3>3. Alone(s)' /\ Writing(s)' /\ Replying(s)'
      BY <1>3, <1>4, <3>2 DEF Alone, Writing, Replying, At
    <3>4. VolumeRight(s)'
      BY <2>3, <3>2, <3>3, RestRight
    <3>5. QED  BY <1>1, <1>4, <2>1, <2>5, <3>4, StepRight
  <2>6. QED  BY <1>7, <2>4, <2>5
<1>8. QED  BY <1>5, <1>6, <1>7

LEMMA EndRight ==
    ASSUME TypeInv, CacheRight, NEW s \in Servers,
           unreadable(s) \/ seed(s) \/ writeACF(s) \/ reply(s) \/ free(s)
    PROVE  CacheRight'
<1> DEFINE o == pass[s]
           v == o.it
<1>1. /\ TypeOK /\ VolumeRight(s) /\ Informed(o) /\ o \in Passes
      /\ o.acf \in Bookkeeping /\ o.ok \in BOOLEAN
  BY OwnFields DEF TypeInv, TypeOK, CacheRight
<1>2. /\ pass \in [Servers -> Passes] /\ acf \in [Servers -> Bookkeeping]
      /\ UNCHANGED <<stored, meta, phase, volume>>
  BY <1>1 DEF TypeOK, unreadable, seed, writeACF, reply, free, storeVars, volumeVars, eggVars
<1>3. /\ RealParts(s)' = RealParts(s) /\ LinkParts(s)' = LinkParts(s)
      /\ LinksHeld(s)'
  BY <1>1, <1>2 DEF VolumeRight, LinksHeld, RealParts, LinkParts
<1>4. CASE unreadable(s)
  <2>1. o.at = "survey" /\ pass' = [pass EXCEPT ![s] = Failed] /\ acf' = acf
    BY <1>4 DEF unreadable, Step, volumeVars
  <2>2. RealsOwn(s)'
    BY <1>1, <1>2, <1>3, <2>1 DEF VolumeRight, RealsOwn, At
  <2>3. QED  BY <1>2, <1>3, <2>1, <2>2, FailedRight DEF Working
<1>5. CASE seed(s)
  <2> DEFINE m == meta[v]
             r == [Goto(s, "link") EXCEPT !.files = m, !.todo = m]
  <2>1. /\ o.at = "seed" /\ acf' = acf
        /\ pass' = [pass EXCEPT ![s] = IF Has(v) THEN r ELSE Settled(s, 0)]
    BY <1>5 DEF seed, Step, volumeVars
  <2>2. /\ v \in Versions /\ m # {} /\ RealParts(s) = {} /\ LinkParts(s) = {}
        /\ phase[s] # "up" /\ o.acf = acf[s]
    BY <1>1, <2>1 DEF Informed, VolumeRight, Seeding, Alone, Working, At
  <2>3. Has(v) /\ m = PartsOf[v] /\ m \in SUBSET Parts
    BY <1>1, <2>2, RecordedIsHeld DEF CacheRight, TypeOK
  <2>4. pass' = [pass EXCEPT ![s] = r] /\ pass'[s] = r
    BY <1>2, <2>1, <2>3
  <2>5. /\ pass'[s].at = "link" /\ pass'[s].it = v /\ pass'[s].acf = acf[s]
        /\ pass'[s].files = m /\ pass'[s].todo = m
    <3>1. "link" \in Places
      BY DEF Places
    <3>2. IsPass(r, "link", o.stale, o.acf, o.it, o.src, m, m, o.plan, o.ok)
      <4> HIDE DEF m
      <4>1. QED  BY <1>1, <2>3, <3>1, GoesAre
    <3> HIDE DEF r, m
    <3>3. QED  BY <2>2, <2>4, <3>2 DEF IsPass
  <2>6. Linking(s)'
    <3>1. Going(s)' /\ Done(s)' = {}
      BY <2>3, <2>5 DEF Going, Done
    <3>2. QED  BY <1>2, <1>3, <2>2, <2>5, <3>1 DEF Linking
  <2>7. RealsOwn(s)' /\ Alone(s)'
    BY <1>2, <1>3, <2>1, <2>2, <2>5 DEF RealsOwn, Alone, At
  <2>8. VolumeRight(s)'
    BY <1>3, <2>5, <2>6, <2>7 DEF VolumeRight, Releasing, Taking, Seeding, Writing, Replying, At
  <2> HIDE DEF r, m
  <2>9. QED  BY <1>2, <2>1, <2>4, <2>8, StepRight
<1>6. CASE writeACF(s)
  <2>1. /\ o.at = "acf" /\ phase[s] # "up" /\ o.acf = acf[s]
        /\ v # 0 => RealParts(s) = {}
        /\ o.ok => Describes(s, Books(s).have)
    BY <1>1, <1>6 DEF writeACF, Step, VolumeRight, Writing, Alone, Working, At
  <2>2. \A t \in Servers \ {s} : acf'[t] = acf[t]
    BY <1>2, <1>6 DEF writeACF
  <2>3. CASE /\ pass' = [pass EXCEPT ![s] = Failed]
             /\ acf' = acf
    <3>1. RealsOwn(s)'
      BY <1>1, <1>2, <1>3, <2>1, <2>3 DEF VolumeRight, RealsOwn, At
    <3>2. QED  BY <1>2, <1>3, <2>1, <2>3, <3>1, FailedRight DEF Working
  <2>4. CASE /\ pass' = [pass EXCEPT ![s] = [Idle EXCEPT !.at = "reply", !.ok = pass[s].ok]]
             /\ acf' = [acf EXCEPT ![s] = Books(s)]
    <3> DEFINE r == [Idle EXCEPT !.at = "reply", !.ok = pass[s].ok]
    <3>1. pass'[s].at = "reply" /\ pass'[s].ok = o.ok /\ acf'[s] = Books(s)
      <4>1. r.at = "reply" /\ r.ok = pass[s].ok
        BY <1>1, EndsAre DEF IsPass
      <4> HIDE DEF r
      <4>2. QED  BY <1>2, <2>4, <4>1 DEF r
    <3>2. RealsOwn(s)'
      <4>1. CASE v = 0
        <5>1. acf'[s] = acf[s]
          BY <2>1, <3>1, <4>1 DEF Books
        <5>2. QED  BY <1>1, <1>2, <1>3, <2>1, <5>1 DEF VolumeRight, RealsOwn, At
      <4>2. CASE v # 0
        BY <1>3, <2>1, <4>2 DEF RealsOwn
      <4>3. QED  BY <4>1, <4>2
    <3>3. Replying(s)'
      BY <1>2, <1>3, <2>1, <3>1 DEF Replying, Describes
    <3>4. Alone(s)' /\ Writing(s)'
      BY <1>2, <2>1, <3>1 DEF Alone, Writing, At
    <3>5. VolumeRight(s)'
      BY <1>3, <3>1, <3>2, <3>3, <3>4, RestRight
    <3> HIDE DEF r
    <3>6. QED  BY <1>2, <2>1, <2>2, <2>4, <3>5, StepRight DEF r
  <2>5. QED  BY <1>6, <2>3, <2>4 DEF writeACF, Step
<1>7. CASE reply(s) \/ free(s)
  <2> DEFINE r1 == [Idle EXCEPT !.at = "free"]
  <2>1. /\ o.at \in {"reply", "free"} /\ acf' = acf
        /\ pass' = [pass EXCEPT ![s] = r1] \/ pass' = [pass EXCEPT ![s] = Idle]
    BY <1>7 DEF reply, free, Step, volumeVars
  <2>2. r1.at = "free" /\ Idle.at = "idle"
    BY <1>1, EndsAre, IdleIs DEF IsPass
  <2> HIDE DEF r1
  <2>3. pass'[s].at \in {"free", "idle"}
    BY <1>2, <2>1, <2>2
  <2>4. RealsOwn(s)'
    BY <1>1, <1>2, <1>3, <2>1, <2>3 DEF VolumeRight, RealsOwn, At
  <2>5. Alone(s)' /\ Writing(s)' /\ Replying(s)'
    BY <2>3 DEF Alone, Writing, Replying, Working, At
  <2>6. VolumeRight(s)'
    BY <1>3, <2>3, <2>4, <2>5, RestRight
  <2>7. QED  BY <1>2, <2>1, <2>6, StepRight
<1>8. QED  BY <1>4, <1>5, <1>6, <1>7

(* No step of a pass is wrong unless it does harm.                         *)
LEMMA SyncRight ==
    ASSUME TypeInv, CacheRight, NEW s \in Servers, sync(s), ~harmed'
    PROVE  CacheRight'
<1>1. ~copyFails(s)
  BY DEF copyFails
<1>2. QED
  BY <1>1, SurveyRight, ReleaseRight, TakeRight, CopyRight, TakenRight, LinkRight, EndRight DEF sync

-----------------------------------------------------------------------------
(* The steps of everybody else *)

(* A server nobody works on may do what it likes with its real files, as   *)
(* long as they are those its acf calls installed when no update is due.   *)
LEMMA GameRight ==
    ASSUME TypeInv, CacheRight, NEW s \in Servers, phase[s] = "up",
           UNCHANGED <<stored, meta, pass, phase>>,
           \A t \in Servers \ {s} : volume'[t] = volume[t] /\ acf'[t] = acf[t],
           LinksHeld(s)', RealsOwn(s)'
    PROVE  CacheRight'
<1>1. pass[s].at \in {"idle", "free"} /\ pass'[s] = pass[s]
  BY DEF CacheRight, VolumeRight, Alone, Working
<1>2. Alone(s)' /\ Writing(s)' /\ Replying(s)'
  BY <1>1 DEF Alone, Writing, Replying, Working, At
<1>3. VolumeRight(s)'
  BY <1>1, <1>2, RestRight
<1>4. ASSUME NEW t \in Servers \ {s}
      PROVE  VolumeRight(t)'
  BY OthersRight DEF CacheRight
<1>5. ASSUME NEW v \in Versions
      PROVE  VersionWhole(v)'
  BY DEF CacheRight, VersionWhole, Copying
<1>6. QED  BY <1>3, <1>4, <1>5 DEF CacheRight

(* Phases change, or nothing does.                                         *)
LEMMA PhasesRight ==
    ASSUME TypeInv, CacheRight, UNCHANGED <<stored, meta, pass, volume, acf>>,
           \A s \in Servers : Working(s) => phase'[s] # "up"
    PROVE  CacheRight'
<1>1. ASSUME NEW s \in Servers
      PROVE  VolumeRight(s)'
  <2>1. VolumeRight(s)
    BY DEF CacheRight
  <2>2. Alone(s)'
    BY <2>1 DEF VolumeRight, Alone, Working, At
  <2>3. /\ LinksHeld(s)' /\ RealsOwn(s)' /\ Releasing(s)' /\ Taking(s)'
        /\ Linking(s)' /\ Seeding(s)' /\ Writing(s)' /\ Replying(s)'
    BY <2>1
    DEF VolumeRight, LinksHeld, RealsOwn, Releasing, Taking, Linking, Seeding, Writing, Replying,
        RealParts, LinkParts, Going, Done, Describes, Books, At
  <2>4. QED  BY <2>2, <2>3 DEF VolumeRight
<1>2. ASSUME NEW v \in Versions
      PROVE  VersionWhole(v)'
  BY DEF CacheRight, VersionWhole, Copying
<1>3. QED  BY <1>1, <1>2 DEF CacheRight

LEMMA AskRight ==
    ASSUME TypeInv, CacheRight, NEW s \in Servers, ask(s)
    PROVE  CacheRight'
<1>1. /\ TypeOK /\ VolumeRight(s) /\ phase'[s] = "asking" /\ phase[s] = "booting"
      /\ \A t \in Servers \ {s} : phase'[t] = phase[t]
      /\ UNCHANGED <<stored, meta, volume, acf>>
      /\ pass \in [Servers -> Passes]
  BY DEF ask, TypeInv, TypeOK, CacheRight, storeVars, volumeVars
<1>2. CASE pass[s].at # "idle"
  <2>1. pass' = pass
    BY <1>2 DEF ask, claim
  <2>2. \A t \in Servers : Working(t) => phase'[t] # "up"
    BY <1>1 DEF CacheRight, VolumeRight, Alone
  <2>3. QED  BY <1>1, <2>1, <2>2, PhasesRight
<1>3. CASE pass[s].at = "idle"
  <2>1. /\ pass'[s].at = "survey"
        /\ \A t \in Servers \ {s} : pass'[t] = pass[t]
    <3> DEFINE r == [pass[s] EXCEPT !.at = "survey", !.stale = StaleNow]
    <3>1. pass' = [pass EXCEPT ![s] = r]
      BY <1>1, <1>3 DEF ask, claim
    <3>2. r.at = "survey"
      BY <1>1 DEF Passes
    <3> HIDE DEF r
    <3>3. QED  BY <1>1, <3>1, <3>2
  <2>2. RealParts(s)' = RealParts(s) /\ LinkParts(s)' = LinkParts(s)
    BY <1>1 DEF RealParts, LinkParts
  <2>3. LinksHeld(s)' /\ RealsOwn(s)'
    BY <1>1, <1>3, <2>1, <2>2 DEF VolumeRight, LinksHeld, RealsOwn, At
  <2>4. Alone(s)' /\ Writing(s)' /\ Replying(s)'
    BY <1>1, <2>1 DEF Alone, Writing, Replying, At
  <2>5. VolumeRight(s)'
    BY <2>1, <2>3, <2>4, RestRight
  <2>6. ASSUME NEW t \in Servers \ {s}
        PROVE  VolumeRight(t)'
    BY <1>1, <2>1, OthersRight DEF CacheRight
  <2>7. ASSUME NEW v \in Versions
        PROVE  VersionWhole(v)'
    <3>1. \A q : Copying(v, q) => Copying(v, q)'
      BY <1>3, <2>1 DEF Copying
    <3>2. VersionWhole(v)
      BY DEF CacheRight
    <3>3. QED  BY <1>1, <3>1, <3>2 DEF VersionWhole
  <2>8. QED  BY <2>5, <2>6, <2>7 DEF CacheRight
<1>4. QED  BY <1>2, <1>3

LEMMA ClientRight ==
    ASSUME TypeInv, CacheRight, NEW s \in Servers, notice(s) \/ download(s) \/ install(s)
    PROVE  CacheRight'
<1> DEFINE v == acf[s].latest
           have == acf[s].have
<1>1. /\ TypeOK /\ VolumeRight(s) /\ phase[s] = "up" /\ LinksHeld(s) /\ RealsOwn(s)
      /\ UNCHANGED <<stored, meta, pass, phase>>
      /\ volume \in [Servers -> [Parts -> Files]] /\ acf \in [Servers -> Bookkeeping]
      /\ acf[s] \in Bookkeeping
  BY DEF notice, download, install, TypeInv, TypeOK, CacheRight, VolumeRight,
         nodeVars, storeVars, eggVars
<1>2. \A t \in Servers \ {s} : volume'[t] = volume[t] /\ acf'[t] = acf[t]
  BY <1>1 DEF notice, download, install
<1>3. CASE notice(s)
  <2>1. /\ acf'[s].have = have /\ acf'[s].latest = steam /\ have # steam
        /\ volume'[s] = volume[s]
    BY <1>1, <1>3 DEF notice, Bookkeeping
  <2>2. steam # 0
    BY <1>1, FilesAre DEF TypeOK
  <2>3. RealsOwn(s)'
    BY <2>1, <2>2 DEF RealsOwn, Pending
  <2>4. LinksHeld(s)'
    BY <1>1, <2>1 DEF LinksHeld, LinkParts
  <2>5. QED  BY <1>1, <1>2, <2>3, <2>4, GameRight
<1>4. CASE download(s)
  <2> DEFINE p == First(Missing(s))
  <2>1. /\ volume' = [volume EXCEPT ![s][p] = Real(v)] /\ acf' = acf
        /\ Pending(acf[s])
    BY <1>4 DEF download
  <2>2. LinkParts(s)' \subseteq LinkParts(s) /\ \A q \in LinkParts(s)' : volume'[s][q] = volume[s][q]
    <3>1. \A q \in Parts : volume'[s][q] = IF q = p THEN Real(v) ELSE volume[s][q]
      BY <1>1, <2>1
    <3>2. Real(v).is = "real"
      BY DEF Real
    <3> HIDE DEF p
    <3>3. QED  BY <3>1, <3>2 DEF LinkParts
  <2>3. LinksHeld(s)'
    BY <1>1, <2>2 DEF LinksHeld
  <2>4. RealsOwn(s)'
    BY <2>1 DEF RealsOwn
  <2>5. QED  BY <1>1, <1>2, <2>3, <2>4, GameRight
<1>5. CASE install(s)
  <2>1. /\ acf'[s].have = v /\ acf'[s].latest = v /\ v \in Versions /\ Missing(s) = {}
        /\ \A p \in Parts : volume'[s][p] = IF p \in PartsOf[v] THEN volume[s][p] ELSE Nothing
    BY <1>1, <1>5 DEF install, Pending, Bookkeeping
  <2>2. \A p \in PartsOf[v] : p \in Parts /\ volume[s][p] = Real(v)
    BY <2>1, WorkshopAssumption DEF Missing
  <2>3. \A p \in Parts : volume'[s][p] = IF p \in PartsOf[v] THEN Real(v) ELSE Nothing
    BY <2>1, <2>2
  <2>4. /\ RealParts(s)' = PartsOf[v] /\ LinkParts(s)' = {}
        /\ \A p \in PartsOf[v] : volume'[s][p].of = v
    BY <2>2, <2>3 DEF RealParts, LinkParts, Real, Nothing
  <2>5. LinksHeld(s)' /\ RealsOwn(s)'
    BY <2>1, <2>4 DEF LinksHeld, RealsOwn
  <2>6. QED  BY <1>1, <1>2, <2>5, GameRight
<1>6. QED  BY <1>3, <1>4, <1>5

(* prune removes what no volume links to, unless it does harm.             *)
LEMMA PruneRight ==
    ASSUME TypeInv, CacheRight, NEW v \in Versions, prune(v), ~harmed'
    PROVE  CacheRight'
<1>1. /\ v \notin Used /\ \A s \in Servers : ~Working(s) /\ ~LinksLater(s, v)
      /\ stored' = [stored EXCEPT ![v] = [p \in Parts |-> 0]]
      /\ meta' = [meta EXCEPT ![v] = {}]
      /\ UNCHANGED <<pass, phase, volume, acf>>
  BY DEF prune, nodeVars, volumeVars, eggVars
<1>2. \A w \in Versions \ {v} : stored'[w] = stored[w] /\ meta'[w] = meta[w]
  BY <1>1 DEF TypeInv, TypeOK
<1>3. meta'[v] = {} /\ \A p \in Parts : stored'[v][p] = 0
  BY <1>1 DEF TypeInv, TypeOK
<1>4. \A s \in Servers : \A p \in LinkParts(s) : volume[s][p].of # v
  BY <1>1 DEF Used, LinksLater
<1>5. ASSUME NEW s \in Servers
      PROVE  VolumeRight(s)'
  <2>1. VolumeRight(s) /\ pass'[s].at \in {"idle", "free"}
    BY <1>1 DEF CacheRight, Working
  <2>2. RealParts(s)' = RealParts(s) /\ LinkParts(s)' = LinkParts(s)
    BY <1>1 DEF RealParts, LinkParts
  <2>3. \A p \in LinkParts(s) : volume[s][p].of \in Versions \ {v}
    BY <1>4, FilesAre DEF LinkParts, TypeInv, TypeOK
  <2>4. LinksHeld(s)'
    BY <1>1, <1>2, <2>1, <2>2, <2>3 DEF VolumeRight, LinksHeld
  <2>5. RealsOwn(s)'
    BY <1>1, <2>1, <2>2 DEF VolumeRight, RealsOwn, At
  <2>6. Alone(s)' /\ Writing(s)' /\ Replying(s)'
    BY <2>1 DEF Alone, Writing, Replying, Working, At
  <2>7. QED  BY <2>1, <2>4, <2>5, <2>6, RestRight
<1>6. ASSUME NEW w \in Versions
      PROVE  VersionWhole(w)'
  <2>1. \A q : Copying(w, q)' = Copying(w, q)
    BY <1>1 DEF Copying
  <2>2. CASE w = v
    BY <1>3, <2>2 DEF VersionWhole
  <2>3. CASE w # v
    BY <1>2, <2>1, <2>3 DEF CacheRight, VersionWhole
  <2>4. QED  BY <2>2, <2>3
<1>7. QED  BY <1>5, <1>6 DEF CacheRight

(* A restart that does no harm finds no file half way.                     *)
LEMMA RestartRight ==
    ASSUME TypeInv, CacheRight, daemonRestarts, ~harmed'
    PROVE  CacheRight'
<1>1. /\ \A s \in Servers : pass'[s] = Idle /\ ~At(s, {"take", "copy", "release"})
      /\ UNCHANGED <<stored, meta, phase, volume, acf>>
  BY DEF daemonRestarts, storeVars, volumeVars, At
<1>2. Idle.at = "idle"
  BY IdleIs DEF IsPass
<1>3. ASSUME NEW s \in Servers
      PROVE  VolumeRight(s)'
  <2>1. VolumeRight(s) /\ pass'[s].at = "idle"
    BY <1>1, <1>2 DEF CacheRight
  <2>2. RealParts(s)' = RealParts(s) /\ LinkParts(s)' = LinkParts(s)
    BY <1>1 DEF RealParts, LinkParts
  <2>3. LinksHeld(s)' /\ RealsOwn(s)'
    BY <1>1, <2>1, <2>2 DEF VolumeRight, LinksHeld, RealsOwn
  <2>4. Alone(s)' /\ Writing(s)' /\ Replying(s)'
    BY <2>1 DEF Alone, Writing, Replying, Working, At
  <2>5. QED  BY <2>1, <2>3, <2>4, RestRight
<1>4. ASSUME NEW v \in Versions
      PROVE  VersionWhole(v)'
  <2>1. \A q : ~Copying(v, q)
    BY <1>1 DEF Copying, At
  <2>2. QED  BY <1>1, <2>1 DEF CacheRight, VersionWhole
<1>5. QED  BY <1>3, <1>4 DEF CacheRight

-----------------------------------------------------------------------------
(* The cache is right *)

LEMMA HarmLasts ==
    ASSUME harmed, [Next]_vars
    PROVE  harmed'
<1>1. ASSUME NEW s \in Servers, sync(s)
      PROVE  harmed'
  <2>1. CASE releaseFile(s)
    BY <2>1 DEF releaseFile
  <2>2. CASE takeFile(s)
    BY <2>2 DEF takeFile
  <2>3. CASE copyFails(s) \/ taken(s)
    BY <2>3 DEF copyFails, taken
  <2>4. CASE unreadable(s) \/ survey(s) \/ copyFile(s) \/ seed(s) \/ reply(s) \/ free(s)
    BY <2>4 DEF unreadable, survey, copyFile, seed, reply, free
  <2>5. CASE linkFile(s) \/ writeACF(s)
    BY <2>5 DEF linkFile, writeACF
  <2>6. QED  BY <1>1, <2>1, <2>2, <2>3, <2>4, <2>5 DEF sync
<1>2. ASSUME NEW s \in Servers, ask(s) \/ starts(s) \/ restarts(s)
      PROVE  harmed'
  BY <1>2 DEF ask, starts, restarts
<1>3. ASSUME NEW s \in Servers, notice(s) \/ download(s) \/ install(s)
      PROVE  harmed'
  BY <1>3 DEF notice, download, install
<1>4. ASSUME NEW v \in Versions, prune(v)
      PROVE  harmed'
  BY <1>4 DEF prune
<1>5. CASE checkUpdates \/ publishes \/ daemonRestarts \/ UNCHANGED vars
  BY <1>5 DEF checkUpdates, publishes, daemonRestarts, vars
<1>6. QED  BY <1>1, <1>2, <1>3, <1>4, <1>5 DEF Next, answered, givesUp

LEMMA NextRight ==
    ASSUME CacheInv, [Next]_vars
    PROVE  CacheInv'
<1>1. TypeInv /\ TypeInv'
  BY NextTyped DEF CacheInv
<1>2. SUFFICES ASSUME ~harmed'
               PROVE  CacheRight'
  BY <1>1 DEF CacheInv
<1>3. ~harmed
  BY <1>2, HarmLasts
<1>4. CacheRight
  BY <1>3 DEF CacheInv
<1>5. ASSUME NEW s \in Servers, sync(s)
      PROVE  CacheRight'
  BY <1>1, <1>2, <1>4, <1>5, SyncRight
<1>6. ASSUME NEW s \in Servers, ask(s)
      PROVE  CacheRight'
  BY <1>1, <1>4, <1>6, AskRight
<1>7. ASSUME NEW s \in Servers, starts(s) \/ restarts(s)
      PROVE  CacheRight'
  <2>1. UNCHANGED <<stored, meta, pass, volume, acf>>
    BY <1>7 DEF starts, restarts, nodeVars, storeVars, volumeVars
  <2>2. \A t \in Servers : Working(t) => phase[t] # "up"
    BY <1>4 DEF CacheRight, VolumeRight, Alone
  <2>3. starts(s) => ~Working(s)
    BY <1>2 DEF starts
  <2>4. \A t \in Servers : Working(t) => phase'[t] # "up"
    BY <1>1, <1>7, <2>2, <2>3 DEF starts, restarts, TypeInv, TypeOK
  <2>5. QED  BY <1>1, <1>4, <2>1, <2>4, PhasesRight
<1>8. ASSUME NEW s \in Servers, notice(s) \/ download(s) \/ install(s)
      PROVE  CacheRight'
  BY <1>1, <1>4, <1>8, ClientRight
<1>9. ASSUME NEW v \in Versions, prune(v)
      PROVE  CacheRight'
  BY <1>1, <1>2, <1>4, <1>9, PruneRight
<1>10. CASE checkUpdates \/ publishes \/ UNCHANGED vars
  <2>1. UNCHANGED <<stored, meta, pass, volume, acf, phase>>
    BY <1>10 DEF checkUpdates, publishes, vars, nodeVars, storeVars, volumeVars, eggVars
  <2>2. \A t \in Servers : Working(t) => phase'[t] # "up"
    BY <1>4, <2>1 DEF CacheRight, VolumeRight, Alone
  <2>3. QED  BY <1>1, <1>4, <2>1, <2>2, PhasesRight
<1>11. CASE daemonRestarts
  BY <1>1, <1>2, <1>4, <1>11, RestartRight
<1>12. QED
  BY <1>5, <1>6, <1>7, <1>8, <1>9, <1>10, <1>11 DEF Next, answered, givesUp

LEMMA InitRight == Init => CacheInv
<1> SUFFICES ASSUME Init
             PROVE  CacheInv
  OBVIOUS
<1>1. TypeInv
  BY InitTyped
<1>2. ASSUME NEW s \in Servers
      PROVE  VolumeRight(s)
  <2>1. pass[s].at = "idle"
    BY IdleIs DEF Init, IsPass
  <2>2. RealParts(s) = {} /\ LinkParts(s) = {}
    BY DEF Init, RealParts, LinkParts, Nothing
  <2>3. QED
    BY <2>1, <2>2
    DEF VolumeRight, LinksHeld, RealsOwn, Alone, Releasing, Taking, Linking, Seeding, Writing,
        Replying, Working, At
<1>3. ASSUME NEW v \in Versions
      PROVE  VersionWhole(v)
  BY DEF Init, VersionWhole
<1>4. QED  BY <1>1, <1>2, <1>3 DEF CacheInv, CacheRight

LEMMA CacheStays == Spec => []CacheInv
BY InitRight, NextRight, PTL DEF Spec

(* Whatever the store offers is recorded with all its files and holds its  *)
(* own bytes, until one of the accidents: OfferedIsWhole for any number of *)
(* servers, versions and files.                                            *)
THEOREM OffersAreWhole == Spec => []OfferedIsWhole
<1>1. ASSUME CacheInv, ~harmed, NEW v \in Versions, Has(v)
      PROVE  /\ meta[v] = PartsOf[v]
             /\ \A p \in PartsOf[v] : stored[v][p] = v \/ Copying(v, p)
  <2>1. VersionWhole(v) /\ meta[v] # {}
    BY <1>1 DEF CacheInv, CacheRight, Has
  <2>2. PartsOf[v] \subseteq Parts
    BY WorkshopAssumption
  <2>3. QED  BY <2>1, <2>2 DEF VersionWhole
<1>2. CacheInv => OfferedIsWhole
  BY <1>1 DEF OfferedIsWhole
<1>3. QED  BY <1>2, CacheStays, PTL

(* No link dangles until one of the accidents.                             *)
THEOREM LinksStay == Spec => []LinksResolve
<1>1. ASSUME CacheInv, ~harmed, NEW s \in Servers, NEW p \in Parts, volume[s][p].is = "link"
      PROVE  stored[volume[s][p].of][p] # 0
  <2>1. p \in LinkParts(s) /\ CacheRight
    BY <1>1 DEF LinkParts, CacheInv
  <2>2. volume[s][p].of \in Versions
    BY <1>1, FilesAre DEF CacheInv, TypeInv, TypeOK
  <2>3. QED  BY <2>1, <2>2 DEF CacheRight, VolumeRight, LinksHeld, VersionWhole
<1>2. CacheInv => LinksResolve
  BY <1>1 DEF LinksResolve
<1>3. QED  BY <1>2, CacheStays, PTL

(* A pass without an error leaves an acf that calls installed what the     *)
(* volume links to, until one of the accidents.                            *)
THEOREM BooksAreRight == Spec => []AcfDescribes
<1>1. CacheInv => AcfDescribes
  BY DEF CacheInv, CacheRight, VolumeRight, Replying, Describes, At, AcfDescribes
<1>2. QED  BY <1>1, CacheStays, PTL

-----------------------------------------------------------------------------
(* The promise of SharedStore *)

(* What the store offers is what it has a record of.                       *)
LEMMA OfferedIsRecorded ==
    CacheRight => \A v \in Versions : Has(v) <=> meta[v] # {}
BY RecordedIsHeld DEF CacheRight, Has

(* Both facts in the state after a step.                                   *)
LEMMA StillRecorded ==
    (CacheRight => \A v \in Versions : Has(v) <=> meta[v] # {})'
BY OfferedIsRecorded, PTL

(* Links are to files of what the store offers.                            *)
LEMMA LinksAreOffered ==
    TypeInv /\ CacheRight => \A s \in Servers : Links(s) \subseteq Store!Offers
<1>1. SUFFICES ASSUME TypeInv, CacheRight, NEW s \in Servers, NEW p \in LinkParts(s)
               PROVE  <<volume[s][p].of, p>> \in Store!Offers
  BY DEF Links
<1> DEFINE v == volume[s][p].of
<1>2. v \in Versions
  BY <1>1, FilesAre DEF LinkParts, TypeInv, TypeOK
<1>3. meta[v] # {} /\ p \in PartsOf[v]
  BY <1>1 DEF CacheRight, VolumeRight, LinksHeld
<1>4. Has(v)
  BY <1>1, <1>2, <1>3, OfferedIsRecorded
<1> HIDE DEF v
<1>5. <<v, p>> \in {v} \X PartsOf[v]
  BY <1>3
<1>6. QED  BY <1>2, <1>4, <1>5 DEF Store!Offers, Store!FilesOf, v

LEMMA LinksStayOffered ==
    (TypeInv /\ CacheRight => \A s \in Servers : Links(s) \subseteq Store!Offers)'
BY LinksAreOffered, PTL

(* Only the end of a take and prune change what is on record, and no step  *)
(* changes the volumes of two servers.                                     *)
LEMMA SyncTouches ==
    ASSUME TypeOK, NEW s \in Servers, sync(s)
    PROVE  /\ taken(s) \/ UNCHANGED meta
           /\ \A t \in Servers \ {s} : volume'[t] = volume[t]
<1>1. CASE unreadable(s) \/ seed(s) \/ reply(s) \/ free(s) \/ writeACF(s)
  BY <1>1 DEF unreadable, seed, reply, free, writeACF, storeVars, volumeVars
<1>2. CASE survey(s)
  BY <1>2 DEF survey, storeVars, TypeOK
<1>3. CASE releaseFile(s)
  BY <1>3 DEF releaseFile, storeVars, TypeOK
<1>4. CASE takeFile(s) \/ copyFails(s) \/ taken(s)
  BY <1>4 DEF takeFile, copyFails, taken, volumeVars
<1>5. CASE copyFile(s)
  BY <1>5 DEF copyFile, TypeOK
<1>6. CASE linkFile(s)
  BY <1>6 DEF linkFile, storeVars, TypeOK
<1>7. QED  BY <1>1, <1>2, <1>3, <1>4, <1>5, <1>6 DEF sync

LEMMA ServerTouches ==
    ASSUME TypeOK, NEW s \in Servers,
           \/ ask(s) \/ starts(s) \/ restarts(s)
           \/ notice(s) \/ download(s) \/ install(s)
    PROVE  UNCHANGED meta /\ \A t \in Servers \ {s} : volume'[t] = volume[t]
<1>1. CASE ask(s) \/ starts(s) \/ restarts(s)
  BY <1>1 DEF ask, starts, restarts, storeVars, volumeVars
<1>2. CASE notice(s) \/ download(s) \/ install(s)
  BY <1>2 DEF notice, download, install, storeVars, TypeOK
<1>3. QED  BY <1>1, <1>2

(* A step that leaves the record alone offers what was offered.            *)
LEMMA SameOffers ==
    ASSUME CacheRight, CacheRight', UNCHANGED meta
    PROVE  {v \in Versions : Has(v)}' = {v \in Versions : Has(v)}
<1>1. \A v \in Versions : Has(v) <=> meta[v] # {}
  BY OfferedIsRecorded
<1>2. \A v \in Versions : Has(v)' <=> meta'[v] # {}
  BY StillRecorded
<1>3. QED  BY <1>1, <1>2

LEMMA SameLinks ==
    ASSUME NEW s \in Servers, volume'[s] = volume[s]
    PROVE  Links(s)' = Links(s) /\ LinkParts(s)' = LinkParts(s)
BY DEF Links, LinkParts

(* Such a step on one volume relinks it.                                   *)
LEMMA VolumeRelinks ==
    ASSUME TypeInv, TypeInv', CacheRight, CacheRight', NEW s \in Servers, UNCHANGED meta,
           \A t \in Servers \ {s} : volume'[t] = volume[t]
    PROVE  Store!Relink(s)
<1> DEFINE offered == {v \in Versions : Has(v)}
           linked  == [t \in Servers |-> Links(t)]
<1>1. offered' = offered
  BY SameOffers
<1>2. \A t \in Servers \ {s} : Links(t)' = Links(t)
  BY SameLinks
<1>3. linked' = [linked EXCEPT ![s] = linked'[s]]
  BY <1>2
<1>4. Links(s)' \subseteq Store!Offers'
  BY LinksStayOffered
<1>5. Store!Offers' = Store!Offers
  BY <1>1 DEF Store!Offers
<1>6. linked'[s] \ linked[s] \subseteq Store!Offers
  BY <1>4, <1>5
<1>7. QED  BY <1>1, <1>3, <1>6 DEF Store!Relink

(* The end of a take offers the version.                                   *)
LEMMA TakenOffers ==
    ASSUME TypeInv, TypeInv', CacheRight, CacheRight', harmed' = harmed, NEW s \in Servers, taken(s)
    PROVE  [Store!Promised]_Store!vars
<1> DEFINE offered == {v \in Versions : Has(v)}
           linked  == [t \in Servers |-> Links(t)]
           it      == pass[s].it
<1>1. UNCHANGED linked
  BY SameLinks DEF taken, volumeVars
<1>2. CASE UNCHANGED meta
  BY <1>1, <1>2, SameOffers DEF Store!vars
<1>3. CASE ~UNCHANGED meta
  <2>1. meta' = [meta EXCEPT ![it] = pass[s].files] /\ pass[s].at = "take"
    BY <1>3 DEF taken, Step
  <2>2. it \in Versions /\ pass[s].files # {}
    BY <2>1 DEF TypeInv, Informed
  <2>3. meta'[it] # {} /\ \A v \in Versions \ {it} : meta'[v] = meta[v]
    BY <2>1, <2>2 DEF TypeInv, TypeOK
  <2>4. \A v \in Versions : Has(v) <=> meta[v] # {}
    BY OfferedIsRecorded
  <2>5. \A v \in Versions : Has(v)' <=> meta'[v] # {}
    BY StillRecorded
  <2>6. offered' = offered \cup {it}
    BY <2>2, <2>3, <2>4, <2>5
  <2>7. CASE it \in offered
    <3>1. offered' = offered
      BY <2>6, <2>7
    <3>2. QED  BY <1>1, <3>1 DEF Store!vars
  <2>8. CASE it \notin offered
    <3>1. Store!Offer(it)
      BY <1>1, <2>6, <2>8 DEF Store!Offer
    <3>2. QED  BY <2>2, <3>1 DEF Store!Promised
  <2>9. QED  BY <2>7, <2>8
<1>4. QED  BY <1>2, <1>3

(* prune withdraws a version without a link.                               *)
LEMMA PruneWithdraws ==
    ASSUME TypeInv, TypeInv', CacheRight, CacheRight', NEW v \in Versions, prune(v)
    PROVE  Store!Withdraw(v)
<1> DEFINE offered == {w \in Versions : Has(w)}
           linked  == [t \in Servers |-> Links(t)]
<1>1. Has(v) /\ meta' = [meta EXCEPT ![v] = {}] /\ UNCHANGED volume
  BY DEF prune, volumeVars
<1>2. meta'[v] = {} /\ \A w \in Versions \ {v} : meta'[w] = meta[w]
  BY <1>1 DEF TypeInv, TypeOK
<1>3. \A w \in Versions : Has(w) <=> meta[w] # {}
  BY OfferedIsRecorded
<1>4. \A w \in Versions : Has(w)' <=> meta'[w] # {}
  BY StillRecorded
<1>5. offered' = offered \ {v}
  BY <1>2, <1>3, <1>4
<1>6. UNCHANGED linked
  BY <1>1, SameLinks
<1>7. ASSUME NEW t \in Servers
      PROVE  Links(t) \cap Store!FilesOf(v) = {}
  <2>1. SUFFICES ASSUME NEW p \in LinkParts(t), <<volume[t][p].of, p>> \in {v} \X PartsOf[v]
                 PROVE  FALSE
    BY DEF Links, Store!FilesOf
  <2>2. volume[t][p].of = v
    BY <2>1
  <2>3. LinkParts(t)' = LinkParts(t) /\ volume'[t][p].of = v
    BY <1>1, <2>2, SameLinks
  <2>4. meta'[v] # {}
    BY <2>3 DEF CacheRight, VolumeRight, LinksHeld
  <2>5. QED  BY <1>2, <2>4
<1>8. \A t \in Servers : linked[t] \cap Store!FilesOf(v) = {}
  BY <1>7
<1>9. v \in offered
  BY <1>1
<1>10. QED  BY <1>5, <1>6, <1>8, <1>9 DEF Store!Withdraw

LEMMA RightPromised ==
    ASSUME TypeInv, TypeInv', CacheRight, CacheRight', harmed' = harmed, [Next]_vars
    PROVE  [Store!Promised]_Store!vars
<1>1. TypeOK
  BY DEF TypeInv
<1>2. ASSUME NEW s \in Servers, sync(s)
      PROVE  [Store!Promised]_Store!vars
  <2>1. CASE taken(s)
    BY <2>1, TakenOffers
  <2>2. CASE ~taken(s)
    <3>1. Store!Relink(s)
      BY <1>1, <1>2, <2>2, SyncTouches, VolumeRelinks
    <3>2. QED  BY <3>1 DEF Store!Promised
  <2>3. QED  BY <2>1, <2>2
<1>3. ASSUME NEW s \in Servers,
             \/ ask(s) \/ starts(s) \/ restarts(s)
             \/ notice(s) \/ download(s) \/ install(s)
      PROVE  [Store!Promised]_Store!vars
  <2>1. Store!Relink(s)
    BY <1>1, <1>3, ServerTouches, VolumeRelinks
  <2>2. QED  BY <2>1 DEF Store!Promised
<1>4. ASSUME NEW v \in Versions, prune(v)
      PROVE  [Store!Promised]_Store!vars
  BY <1>4, PruneWithdraws DEF Store!Promised
<1>5. CASE checkUpdates \/ publishes \/ daemonRestarts \/ UNCHANGED vars
  <2>1. UNCHANGED <<meta, volume>>
    BY <1>5 DEF checkUpdates, publishes, daemonRestarts, vars, storeVars, volumeVars
  <2>2. UNCHANGED {v \in Versions : Has(v)}
    BY <2>1, SameOffers
  <2>3. UNCHANGED [s \in Servers |-> Links(s)]
    BY <2>1, SameLinks
  <2>4. QED  BY <2>2, <2>3 DEF Store!vars
<1>6. QED  BY <1>2, <1>3, <1>4, <1>5 DEF Next, answered, givesUp

LEMMA NextPromised == CacheInv /\ CacheInv' /\ [Next]_vars => [Store!Next]_Store!vars
<1> SUFFICES ASSUME CacheInv, CacheInv', [Next]_vars
             PROVE  [Store!Next]_Store!vars
  OBVIOUS
<1>1. CASE harmed'
  BY <1>1 DEF Store!Next
<1>2. CASE ~harmed'
  <2>1. ~harmed
    BY <1>2, HarmLasts
  <2>2. harmed' = harmed
    BY <1>2, <2>1, Zenon DEF CacheInv, TypeInv, TypeOK
  <2>3. TypeInv /\ TypeInv' /\ CacheRight /\ CacheRight'
    BY <1>2, <2>1 DEF CacheInv
  <2>4. [Store!Promised]_Store!vars
    BY <2>2, <2>3, RightPromised
  <2>5. QED  BY <1>2, <2>1, <2>4 DEF Store!Next
<1>3. QED  BY <1>1, <1>2

LEMMA InitPromised == Init => Store!Init
<1> SUFFICES ASSUME Init
             PROVE  Store!Init
  OBVIOUS
<1>1. {v \in Versions : Has(v)} = {}
  BY DEF Init, Has
<1>2. [s \in Servers |-> Links(s)] = [s \in Servers |-> {}]
  <2>1. ASSUME NEW s \in Servers
        PROVE  Links(s) = {}
    BY DEF Init, Links, LinkParts, Nothing
  <2>2. QED  BY <2>1
<1>3. harmed = FALSE
  BY DEF Init
<1>4. QED  BY <1>1, <1>2, <1>3 DEF Store!Init

(* The cache implements SharedStore for any number of servers, versions    *)
(* and files: a pass works file by file beside other passes, the command   *)
(* and the game, and what the volumes see is whole versions that come, are *)
(* linked to and go when no link is left.                                  *)
THEOREM StoreKept == Spec => KeepsStore
<1>1. Spec => Store!Init
  BY InitPromised DEF Spec
<1>2. Spec => [][Store!Next]_Store!vars
  BY NextPromised, CacheStays, PTL DEF Spec
<1>3. QED  BY <1>1, <1>2 DEF KeepsStore, Store!Spec

(* So no link leads to a version the store does not offer as a whole.      *)
THEOREM NoneLeadsAstray == Spec => []Store!NoneDangles
<1>1. ASSUME CacheInv, ~harmed, NEW s \in Servers
      PROVE  Links(s) \subseteq Store!Offers
  BY <1>1, LinksAreOffered DEF CacheInv
<1>2. CacheInv => Store!NoneDangles
  BY <1>1 DEF Store!NoneDangles
<1>3. QED  BY <1>2, CacheStays, PTL

=============================================================================
