---------------------------- MODULE ConsoleProofs ----------------------------
(***************************************************************************)
(* Theorems about the screen.  The drawing routines draw a text character   *)
(* by character; the models of them are folds, so the first part is about   *)
(* folds: one whose step stays in a set ends there.  Steps are given as     *)
(* functions.                                                               *)
(***************************************************************************)
EXTENDS Console, SequenceTheorems, WellFoundedInduction, TLAPS

(* A set of natural numbers has a least element.                            *)
LEMMA Least ==
  ASSUME NEW T, T \subseteq Nat, T # {}
  PROVE  \E x \in T : \A y \in T : x <= y
<1>1. PICK R : R = {ss \in Nat \X Nat : ss[1] < ss[2]}
  OBVIOUS
<1>2. IsWellFoundedOn(R, Nat)
  BY <1>1, NatLessThanWellFounded DEF OpToRel
<1>3. PICK x \in T : \A y \in T : ~ (<<y, x>> \in R)
  BY <1>2, WFMin
<1>4. ASSUME NEW y \in T PROVE x <= y
  <2>1. x \in Nat /\ y \in Nat
    OBVIOUS
  <2>2. y < x => <<y, x>> \in R
    BY <1>1, <2>1
  <2> QED BY <1>3, <2>1, <2>2
<1> QED BY <1>4

LEMMA MaxIs ==
  ASSUME NEW S, NEW m \in S, m \in Int, \A y \in S : y \in Int /\ m >= y
  PROVE  Max(S) = m
<1>1. PICK x : x = Max(S)
  OBVIOUS
<1>2. x \in S /\ \A y \in S : x >= y
  <2>1. x = CHOOSE z \in S : \A y \in S : z >= y
    BY <1>1 DEF Max
  <2> QED BY <2>1, Zenon
<1> QED BY <1>1, <1>2

(* The sets of indices a fold goes through have a greatest element.         *)
LEMMA MaxIndex ==
  ASSUME NEW n \in Nat, NEW S \in SUBSET (1 .. n), S # {}
  PROVE  Max(S) \in S /\ \A y \in S : Max(S) >= y
<1>0. \A y \in S : y \in Int /\ n - y \in Nat
  OBVIOUS
<1>1. PICK T : T = {n - y : y \in S}
  OBVIOUS
<1>2. T \subseteq Nat /\ T # {}
  <2>1. PICK y : y \in S
    OBVIOUS
  <2>2. n - y \in T
    BY <1>1, <2>1
  <2> QED BY <1>0, <1>1, <2>2
<1>3. PICK x \in T : \A y \in T : x <= y
  BY <1>2, Least
<1>4. PICK m \in S : x = n - m
  BY <1>1, <1>3
<1>5. ASSUME NEW y \in S PROVE m >= y
  <2>1. n - y \in T
    BY <1>1
  <2> QED BY <1>0, <1>3, <1>4, <2>1
<1>6. Max(S) = m
  BY <1>0, <1>4, <1>5, MaxIs
<1> QED BY <1>4, <1>5, <1>6

(* The function of sets of indices that a fold evaluates.                   *)
Folds(it, n, base, step) ==
  it = [S \in SUBSET (1 .. n) |->
          IF S = {} THEN base ELSE step[Max(S)][it[S \ {Max(S)}]]]

(* It exists, if the steps stay in a set D.                                 *)
LEMMA FoldExists ==
  ASSUME NEW n \in Nat, NEW D, NEW base \in D,
         NEW step \in [1 .. n -> [D -> D]]
  PROVE  \E it \in [SUBSET (1 .. n) -> D] : Folds(it, n, base, step)
<1>1. PICK T : T = {k \in 0 .. n :
                     ~ \E it \in [SUBSET (1 .. k) -> D] : Folds(it, k, base, step)}
  OBVIOUS
<1>2. T = {}
  <2> SUFFICES ASSUME T # {} PROVE FALSE
    OBVIOUS
  <2>1. T \subseteq Nat
    BY <1>1
  <2>2. PICK k \in T : \A j \in T : k <= j
    BY <2>1, Least
  <2>3. /\ k \in 0 .. n
        /\ ~ \E it \in [SUBSET (1 .. k) -> D] : Folds(it, k, base, step)
    BY <1>1, <2>2
  <2>4. CASE k = 0
    <3>1. PICK it : it = [S \in SUBSET (1 .. 0) |-> base]
      OBVIOUS
    <3>2. \A S \in SUBSET (1 .. 0) : S = {}
      OBVIOUS
    <3>3. it \in [SUBSET (1 .. 0) -> D]
      BY <3>1
    <3>4. Folds(it, 0, base, step)
      BY <3>1, <3>2 DEF Folds
    <3> QED BY <2>3, <2>4, <3>3, <3>4
  <2>5. CASE k # 0
    <3>1. k - 1 \in 0 .. n /\ k - 1 \notin T /\ k \in 1 .. n
      BY <2>2, <2>3, <2>5
    <3>2. PICK u \in [SUBSET (1 .. k - 1) -> D] : Folds(u, k - 1, base, step)
      BY <1>1, <3>1
    <3>3. PICK it : it = [S \in SUBSET (1 .. k) |->
                            IF k \in S THEN step[k][u[S \ {k}]] ELSE u[S]]
      OBVIOUS
    <3>4. \A S \in SUBSET (1 .. k) :
            /\ k \in S => S \ {k} \in SUBSET (1 .. k - 1)
            /\ k \notin S => S \in SUBSET (1 .. k - 1)
      BY <3>1
    <3>5. step[k] \in [D -> D]
      BY <3>1
    <3>6. it \in [SUBSET (1 .. k) -> D]
      BY <3>3, <3>4, <3>5
    <3>7. ASSUME NEW S \in SUBSET (1 .. k)
          PROVE  it[S] = IF S = {} THEN base ELSE step[Max(S)][it[S \ {Max(S)}]]
      <4>1. CASE k \in S
        <5>1. Max(S) = k
          <6>1. \A y \in S : y \in Int /\ k >= y
            BY <3>1
          <6> QED BY <3>1, <4>1, <6>1, MaxIs
        <5>2. S \ {k} \in SUBSET (1 .. k) /\ k \notin S \ {k}
          OBVIOUS
        <5>3. it[S \ {k}] = u[S \ {k}]
          BY <3>3, <5>2
        <5> QED BY <3>3, <4>1, <5>1, <5>3
      <4>2. CASE k \notin S
        <5>1. S \in SUBSET (1 .. k - 1)
          BY <3>4, <4>2
        <5>2. u[S] = IF S = {} THEN base ELSE step[Max(S)][u[S \ {Max(S)}]]
          BY <3>2, <5>1 DEF Folds
        <5>3. S \ {Max(S)} \in SUBSET (1 .. k) /\ k \notin S \ {Max(S)}
          BY <4>2
        <5>4. it[S \ {Max(S)}] = u[S \ {Max(S)}]
          BY <3>3, <5>3
        <5> QED BY <3>3, <4>2, <5>2, <5>4
      <4> QED BY <4>1, <4>2
    <3>8. it = [S \in SUBSET (1 .. k) |-> it[S]]
      BY <3>3
    <3>9. Folds(it, k, base, step)
      BY <3>7, <3>8 DEF Folds
    <3> QED BY <2>3, <3>6, <3>9
  <2> QED BY <2>4, <2>5
<1>3. n \in 0 .. n /\ n \notin T
  BY <1>2
<1> QED BY <1>1, <1>3

(* What the function says of the first k indices: a run of n steps.         *)
Runs(g, n, base, step) ==
  g[0] = base /\ \A k \in 1 .. n : g[k] = step[k][g[k - 1]]

(* Where a run is after k steps, G[k] being the states it may be in then.   *)
LEMMA RunStays ==
  ASSUME NEW n \in Nat, NEW g, NEW G, g[0] \in G[0],
         \A k \in 1 .. n : g[k - 1] \in G[k - 1] => g[k] \in G[k]
  PROVE  \A k \in 0 .. n : g[k] \in G[k]
<1>1. PICK T : T = {k \in 0 .. n : g[k] \notin G[k]}
  OBVIOUS
<1> SUFFICES ASSUME T # {} PROVE FALSE
  BY <1>1
<1>2. T \subseteq Nat
  BY <1>1
<1>3. PICK k \in T : \A j \in T : k <= j
  BY <1>2, Least
<1>4. k \in 0 .. n /\ g[k] \notin G[k]
  BY <1>1, <1>3
<1>5. k # 0
  BY <1>4
<1>6. k \in 1 .. n /\ k - 1 \in 0 .. n /\ k - 1 \notin T
  BY <1>3, <1>4, <1>5
<1> QED BY <1>1, <1>4, <1>6

(* A function of sets of indices that takes these steps as long as it is in *)
(* D.                                                                       *)
Unfolds(it, n, D, base, step) ==
  /\ n \in Nat /\ base \in D /\ step \in [1 .. n -> [D -> D]]
  /\ it[{}] = base
  /\ \A S \in SUBSET (1 .. n) :
       S # {} /\ it[S \ {Max(S)}] \in D =>
         it[S] = step[Max(S)][it[S \ {Max(S)}]]

(* v is where a run of n steps in D ends.                                   *)
Ends(v, n, D, base, step) ==
  \E g \in [0 .. n -> D] : Runs(g, n, base, step) /\ v = g[n]

LEMMA FoldRuns ==
  ASSUME NEW n, NEW D, NEW base, NEW step, NEW it,
         Unfolds(it, n, D, base, step)
  PROVE  Ends(it[1 .. n], n, D, base, step)
<1>0. n \in Nat /\ base \in D /\ step \in [1 .. n -> [D -> D]]
  BY DEF Unfolds
<1> USE <1>0
<1>1. PICK g : g = [k \in 0 .. n |-> it[1 .. k]]
  OBVIOUS
<1>2. g[0] = base
  <2>1. 1 .. 0 = {} /\ 0 \in 0 .. n
    OBVIOUS
  <2> QED BY <1>1, <2>1 DEF Unfolds
<1>3. ASSUME NEW k \in 1 .. n, g[k - 1] \in D
      PROVE  g[k] = step[k][g[k - 1]] /\ g[k] \in D
  <2>1. /\ 1 .. k \in SUBSET (1 .. n) /\ k \in 1 .. k
        /\ k - 1 \in 0 .. n /\ k \in 0 .. n /\ k \in Int
        /\ \A y \in 1 .. k : y \in Int /\ k >= y
        /\ (1 .. k) \ {k} = 1 .. k - 1
    OBVIOUS
  <2>2. Max(1 .. k) = k
    BY <2>1, MaxIs
  <2>3. it[1 .. k] = step[k][it[1 .. k - 1]]
    BY <1>1, <1>3, <2>1, <2>2 DEF Unfolds
  <2>4. step[k] \in [D -> D]
    OBVIOUS
  <2> QED BY <1>1, <1>3, <2>1, <2>3, <2>4
<1>4. \A k \in 0 .. n : g[k] \in D
  <2>1. PICK G : G = [k \in 0 .. n |-> D]
    OBVIOUS
  <2>2. g[0] \in G[0]
    BY <1>2, <2>1
  <2>3. \A k \in 1 .. n : g[k - 1] \in G[k - 1] => g[k] \in G[k]
    <3> SUFFICES ASSUME NEW k \in 1 .. n, g[k - 1] \in G[k - 1]
                 PROVE  g[k] \in G[k]
      OBVIOUS
    <3>1. G[k - 1] = D /\ G[k] = D
      BY <2>1
    <3> QED BY <1>3, <3>1
  <2>4. \A k \in 0 .. n : g[k] \in G[k]
    BY <2>2, <2>3, RunStays
  <2> QED BY <2>1, <2>4
<1>5. g \in [0 .. n -> D]
  BY <1>1, <1>4
<1>6. \A k \in 1 .. n : g[k] = step[k][g[k - 1]]
  <2> SUFFICES ASSUME NEW k \in 1 .. n PROVE g[k] = step[k][g[k - 1]]
    OBVIOUS
  <2>1. k - 1 \in 0 .. n
    OBVIOUS
  <2> QED BY <1>3, <1>4, <2>1
<1>7. it[1 .. n] = g[n]
  BY <1>1
<1> QED BY <1>2, <1>5, <1>6, <1>7 DEF Runs, Ends
-----------------------------------------------------------------------------
(* The drawing of a text is such a run, one display after another: here     *)
(* that of printk, then of terminal_write, Ctrl+L and the line being typed. *)
PrintkSteps(D, n, s) == [k \in 1 .. n |-> [e \in D |-> TermPutC(e, s[k])]]

LEMMA PrintkRuns ==
  ASSUME NEW D, NEW n \in Nat, NEW s, DOMAIN s = 1 .. n, NEW d \in D,
         PrintkSteps(D, n, s) \in [1 .. n -> [D -> D]]
  PROVE  Ends(Printk(d, s), n, D, d, PrintkSteps(D, n, s))
<1> DEFINE IsIt(it) == it = [S \in SUBSET (1 .. n) |->
                               IF S = {} THEN d
                               ELSE TermPutC(it[S \ {Max(S)}], s[Max(S)])]
<1>1. Printk(d, s) = (CHOOSE it : IsIt(it))[1 .. n]
  BY Zenon DEF Printk, FoldLeft, MapThenFoldSet
<1>2. PICK F : F = PrintkSteps(D, n, s)
  OBVIOUS
<1>3. F \in [1 .. n -> [D -> D]]
  BY <1>2
<1>4. \A k \in 1 .. n : \A e \in D : F[k][e] = TermPutC(e, s[k])
  BY <1>2 DEF PrintkSteps
<1>5. PICK u \in [SUBSET (1 .. n) -> D] : Folds(u, n, d, F)
  BY <1>3, FoldExists
<1>6. IsIt(u)
  <2>1. ASSUME NEW S \in SUBSET (1 .. n)
        PROVE  u[S] = IF S = {} THEN d
                      ELSE TermPutC(u[S \ {Max(S)}], s[Max(S)])
    <3>1. u[S] = IF S = {} THEN d ELSE F[Max(S)][u[S \ {Max(S)}]]
      BY <1>5 DEF Folds
    <3>2. S # {} => Max(S) \in 1 .. n /\ u[S \ {Max(S)}] \in D
      BY MaxIndex
    <3> QED BY <1>4, <3>1, <3>2
  <2>2. u = [S \in SUBSET (1 .. n) |-> u[S]]
    OBVIOUS
  <2> QED BY <2>1, <2>2
<1>7. PICK it : IsIt(it) /\ Printk(d, s) = it[1 .. n]
  BY <1>1, <1>6, Zenon
<1>8. it[{}] = d
  BY <1>7
<1>9. ASSUME NEW S \in SUBSET (1 .. n), S # {}, it[S \ {Max(S)}] \in D
      PROVE  it[S] = F[Max(S)][it[S \ {Max(S)}]]
  <2>1. Max(S) \in 1 .. n
    BY <1>9, MaxIndex
  <2>2. it[S] = TermPutC(it[S \ {Max(S)}], s[Max(S)])
    BY <1>7, <1>9, <2>1
  <2> QED BY <1>4, <1>9, <2>1, <2>2
<1>10. Unfolds(it, n, D, d, F)
  BY <1>3, <1>8, <1>9 DEF Unfolds
<1> QED BY <1>2, <1>7, <1>10, FoldRuns

(* terminal_write.                                                          *)
WriteStep(d, c) == IF c # Newline \/ d.x # 0 THEN TermPutC(d, c) ELSE d

Writes(d, s) == FoldLeft(WriteStep, d, s)

WriteSteps(D, n, s) == [k \in 1 .. n |-> [e \in D |-> WriteStep(e, s[k])]]

LEMMA WriteRuns ==
  ASSUME NEW D, NEW n \in Nat, NEW s, DOMAIN s = 1 .. n, NEW d \in D,
         WriteSteps(D, n, s) \in [1 .. n -> [D -> D]]
  PROVE  Ends(Writes(d, s), n, D, d, WriteSteps(D, n, s))
<1> DEFINE IsIt(it) == it = [S \in SUBSET (1 .. n) |->
                               IF S = {} THEN d
                               ELSE WriteStep(it[S \ {Max(S)}], s[Max(S)])]
<1>1. Writes(d, s) = (CHOOSE it : IsIt(it))[1 .. n]
  BY Zenon DEF Writes, FoldLeft, MapThenFoldSet
<1>2. PICK F : F = WriteSteps(D, n, s)
  OBVIOUS
<1>3. F \in [1 .. n -> [D -> D]]
  BY <1>2
<1>4. \A k \in 1 .. n : \A e \in D : F[k][e] = WriteStep(e, s[k])
  BY <1>2 DEF WriteSteps
<1>5. PICK u \in [SUBSET (1 .. n) -> D] : Folds(u, n, d, F)
  BY <1>3, FoldExists
<1>6. IsIt(u)
  <2>1. ASSUME NEW S \in SUBSET (1 .. n)
        PROVE  u[S] = IF S = {} THEN d
                      ELSE WriteStep(u[S \ {Max(S)}], s[Max(S)])
    <3>1. u[S] = IF S = {} THEN d ELSE F[Max(S)][u[S \ {Max(S)}]]
      BY <1>5 DEF Folds
    <3>2. S # {} => Max(S) \in 1 .. n /\ u[S \ {Max(S)}] \in D
      BY MaxIndex
    <3> QED BY <1>4, <3>1, <3>2
  <2>2. u = [S \in SUBSET (1 .. n) |-> u[S]]
    OBVIOUS
  <2> QED BY <2>1, <2>2
<1>7. PICK it : IsIt(it) /\ Writes(d, s) = it[1 .. n]
  BY <1>1, <1>6, Zenon
<1>8. it[{}] = d
  BY <1>7
<1>9. ASSUME NEW S \in SUBSET (1 .. n), S # {}, it[S \ {Max(S)}] \in D
      PROVE  it[S] = F[Max(S)][it[S \ {Max(S)}]]
  <2>1. Max(S) \in 1 .. n
    BY <1>9, MaxIndex
  <2>2. it[S] = WriteStep(it[S \ {Max(S)}], s[Max(S)])
    BY <1>7, <1>9, <2>1
  <2> QED BY <1>4, <1>9, <2>1, <2>2
<1>10. Unfolds(it, n, D, d, F)
  BY <1>3, <1>8, <1>9 DEF Unfolds
<1> QED BY <1>2, <1>7, <1>10, FoldRuns

(* Ctrl+L.                                                                  *)
PutCs(d, s) == FoldLeft(PutC, d, s)

PutCSteps(D, n, s) == [k \in 1 .. n |-> [e \in D |-> PutC(e, s[k])]]

LEMMA PutCRuns ==
  ASSUME NEW D, NEW n \in Nat, NEW s, DOMAIN s = 1 .. n, NEW d \in D,
         PutCSteps(D, n, s) \in [1 .. n -> [D -> D]]
  PROVE  Ends(PutCs(d, s), n, D, d, PutCSteps(D, n, s))
<1> DEFINE IsIt(it) == it = [S \in SUBSET (1 .. n) |->
                               IF S = {} THEN d
                               ELSE PutC(it[S \ {Max(S)}], s[Max(S)])]
<1>1. PutCs(d, s) = (CHOOSE it : IsIt(it))[1 .. n]
  BY Zenon DEF PutCs, FoldLeft, MapThenFoldSet
<1>2. PICK F : F = PutCSteps(D, n, s)
  OBVIOUS
<1>3. F \in [1 .. n -> [D -> D]]
  BY <1>2
<1>4. \A k \in 1 .. n : \A e \in D : F[k][e] = PutC(e, s[k])
  BY <1>2 DEF PutCSteps
<1>5. PICK u \in [SUBSET (1 .. n) -> D] : Folds(u, n, d, F)
  BY <1>3, FoldExists
<1>6. IsIt(u)
  <2>1. ASSUME NEW S \in SUBSET (1 .. n)
        PROVE  u[S] = IF S = {} THEN d
                      ELSE PutC(u[S \ {Max(S)}], s[Max(S)])
    <3>1. u[S] = IF S = {} THEN d ELSE F[Max(S)][u[S \ {Max(S)}]]
      BY <1>5 DEF Folds
    <3>2. S # {} => Max(S) \in 1 .. n /\ u[S \ {Max(S)}] \in D
      BY MaxIndex
    <3> QED BY <1>4, <3>1, <3>2
  <2>2. u = [S \in SUBSET (1 .. n) |-> u[S]]
    OBVIOUS
  <2> QED BY <2>1, <2>2
<1>7. PICK it : IsIt(it) /\ PutCs(d, s) = it[1 .. n]
  BY <1>1, <1>6, Zenon
<1>8. it[{}] = d
  BY <1>7
<1>9. ASSUME NEW S \in SUBSET (1 .. n), S # {}, it[S \ {Max(S)}] \in D
      PROVE  it[S] = F[Max(S)][it[S \ {Max(S)}]]
  <2>1. Max(S) \in 1 .. n
    BY <1>9, MaxIndex
  <2>2. it[S] = PutC(it[S \ {Max(S)}], s[Max(S)])
    BY <1>7, <1>9, <2>1
  <2> QED BY <1>4, <1>9, <2>1, <2>2
<1>10. Unfolds(it, n, D, d, F)
  BY <1>3, <1>8, <1>9 DEF Unfolds
<1> QED BY <1>2, <1>7, <1>10, FoldRuns

(* The line being typed.                                                    *)
RedrawStep(e, s, k, x) ==
  IF k - 1 >= NUM_COLS - x
  THEN LET f == PutC(SetCoords(e, e.x, e.y + 1), s[k])
       IN SetCoords(f, f.x, f.y - 1)
  ELSE PutC(e, s[k])

RedrawSteps(D, n, s, x) == [k \in 1 .. n |-> [e \in D |-> RedrawStep(e, s, k, x)]]

LEMMA RedrawnRuns ==
  ASSUME NEW D, NEW n \in Nat, NEW s, DOMAIN s = 1 .. n, NEW d \in D, NEW x,
         RedrawSteps(D, n, s, x) \in [1 .. n -> [D -> D]]
  PROVE  Ends(Redrawn(d, s, x), n, D, d, RedrawSteps(D, n, s, x))
<1> DEFINE IsIt(it) == it = [S \in SUBSET DOMAIN [i \in DOMAIN s |-> i] |->
                               IF S = {} THEN d
                               ELSE RedrawStep(it[S \ {Max(S)}], s,
                                               [i \in DOMAIN s |-> i][Max(S)], x)]
<1>1. Redrawn(d, s, x) = (CHOOSE it : IsIt(it))[DOMAIN [i \in DOMAIN s |-> i]]
  BY Zenon DEF Redrawn, FoldLeftDomain, FoldLeft, MapThenFoldSet, RedrawStep
<1>0. /\ DOMAIN [i \in DOMAIN s |-> i] = 1 .. n
      /\ \A i \in 1 .. n : [j \in DOMAIN s |-> j][i] = i
  OBVIOUS
<1> HIDE DEF IsIt
<1>2. PICK F : F = RedrawSteps(D, n, s, x)
  OBVIOUS
<1>3. F \in [1 .. n -> [D -> D]]
  BY <1>2
<1>4. \A k \in 1 .. n : \A e \in D : F[k][e] = RedrawStep(e, s, k, x)
  BY <1>2 DEF RedrawSteps
<1>5. PICK u \in [SUBSET (1 .. n) -> D] : Folds(u, n, d, F)
  BY <1>3, FoldExists
<1>6. IsIt(u)
  <2>1. ASSUME NEW S \in SUBSET (1 .. n)
        PROVE  u[S] = IF S = {} THEN d
                      ELSE RedrawStep(u[S \ {Max(S)}], s,
                                      [i \in DOMAIN s |-> i][Max(S)], x)
    <3>1. u[S] = IF S = {} THEN d ELSE F[Max(S)][u[S \ {Max(S)}]]
      BY <1>5 DEF Folds
    <3>2. S # {} => Max(S) \in 1 .. n /\ u[S \ {Max(S)}] \in D
      BY MaxIndex
    <3> QED BY <1>0, <1>4, <3>1, <3>2
  <2>2. u = [S \in SUBSET (1 .. n) |-> u[S]]
    OBVIOUS
  <2> QED BY <1>0, <2>1, <2>2 DEF IsIt
<1>7. PICK it : IsIt(it) /\ Redrawn(d, s, x) = it[1 .. n]
  BY <1>0, <1>1, <1>6, Zenon
<1>8. it[{}] = d
  BY <1>0, <1>7 DEF IsIt
<1>9. ASSUME NEW S \in SUBSET (1 .. n), S # {}, it[S \ {Max(S)}] \in D
      PROVE  it[S] = F[Max(S)][it[S \ {Max(S)}]]
  <2>1. Max(S) \in 1 .. n
    BY <1>9, MaxIndex
  <2>2. it[S] = RedrawStep(it[S \ {Max(S)}], s, Max(S), x)
    BY <1>0, <1>7, <1>9, <2>1 DEF IsIt
  <2> QED BY <1>4, <1>9, <2>1, <2>2
<1>10. Unfolds(it, n, D, d, F)
  BY <1>3, <1>8, <1>9 DEF Unfolds
<1> QED BY <1>2, <1>7, <1>10, FoldRuns
-----------------------------------------------------------------------------
(* The drawing routines.  X stands for the columns the cursor may be in:    *)
(* with a row of the screen, every column left of the end of the line       *)
(* buffer (it may be left of the screen), or the columns of the screen.     *)
Columns(X) ==
  /\ X \subseteq Int
  /\ 0 .. NUM_COLS - 1 \subseteq X
  /\ \A x \in X : x + 1 < 0 => NextColumn(x) \in X

Displays(X, Y) == [mem : [Cells -> Chars], x : X, y : Y]

Rows == 0 .. NUM_ROWS - 1

Wide == {x \in Int : x <= BUFFERSIZE}

LEMMA WideColumns ==
  Columns(Wide) /\ Columns(0 .. NUM_COLS - 1)
<1>1. ASSUME NEW x \in Wide, x + 1 < 0 PROVE NextColumn(x) \in Wide
  <2>1. PICK m : m = (-(x + 1)) % NUM_COLS
    OBVIOUS
  <2>2. m \in Nat /\ BUFFERSIZE \in Nat
    BY <1>1, <2>1, ScreenAssumption, TextAssumption DEF Wide
  <2>3. NextColumn(x) = -m
    BY <1>1, <2>1 DEF NextColumn
  <2> QED BY <2>2, <2>3 DEF Wide
<1>2. Wide \subseteq Int /\ 0 .. NUM_COLS - 1 \subseteq Wide
  BY ScreenAssumption, TextAssumption DEF Wide
<1> QED BY <1>1, <1>2, ScreenAssumption DEF Columns

LEMMA Characters == Newline \in Chars /\ Blank \in Chars /\ KEYS \subseteq Chars
BY Zenon DEF Chars

(* The screen, its copies, and the row behind the screen.                   *)
LEMMA Memory ==
  /\ ScreenCells \subseteq SavedCells /\ SavedCells \subseteq Cells
  /\ \A a \in ScreenCells : a + NUM_COLS \in Cells
<1>1. PICK n : n = NUM_COLS * NUM_ROWS
  OBVIOUS
<1>2. n \in Int /\ NUM_COLS * (NUM_ROWS + 1) = n + NUM_COLS
  BY <1>1, ScreenAssumption
<1>3. /\ ScreenCells = 0 .. n - 1 /\ Cells = 0 .. n + NUM_COLS - 1
      /\ SAVED_CELLS \in n .. n + NUM_COLS
  BY <1>1, <1>2, ScreenAssumption DEF ScreenCells, Cells
<1> QED BY <1>2, <1>3, ScreenAssumption DEF SavedCells

LEMMA NextColumnStays ==
  ASSUME NEW X, Columns(X), NEW x \in X
  PROVE  NextColumn(x) \in X
<1>1. CASE x + 1 < 0
  BY <1>1 DEF Columns
<1>2. CASE ~ (x + 1 < 0)
  <2>1. x + 1 \in Nat
    BY <1>2 DEF Columns
  <2>2. (x + 1) % NUM_COLS \in 0 .. NUM_COLS - 1
    BY <2>1, ScreenAssumption
  <2> QED BY <1>2, <2>2 DEF Columns, NextColumn
<1> QED BY <1>1, <1>2

LEMMA PutDraws ==
  ASSUME NEW X, NEW Y, NEW d \in Displays(X, Y), NEW c \in Chars
  PROVE  Put(d, c) \in Displays(X, Y) /\ Put(d, c).x = d.x /\ Put(d, c).y = d.y
BY DEF Put, Displays

LEMMA ClearDraws ==
  ASSUME NEW X, NEW Y, NEW d \in Displays(X, Y)
  PROVE  Clear(d) \in Displays(X, Y)
BY Characters DEF Clear, Displays

LEMMA ClearLineDraws ==
  ASSUME NEW X, NEW Y, NEW d \in Displays(X, Y), NEW x, NEW y
  PROVE  ClearLine(d, x, y) \in Displays(X, Y)
BY Characters DEF ClearLine, Displays

(* Scroll goes to the last row, to column 0.                                *)
LEMMA ScrollDraws ==
  ASSUME NEW X, Columns(X), NEW Y, NEW Z, NEW d \in Displays(Z, Y)
  PROVE  Scroll(d) \in Displays(X, Rows) /\ Scroll(d).y = NUM_ROWS - 1
<1>1. 0 \in X /\ NUM_ROWS - 1 \in Rows
  BY ScreenAssumption DEF Columns, Rows
<1>2. d.mem \in [Cells -> Chars]
  BY DEF Displays
<1>3. [a \in Cells |-> IF a \in ScreenCells THEN d.mem[a + NUM_COLS] ELSE d.mem[a]]
        \in [Cells -> Chars]
  BY <1>2, Memory
<1> QED BY <1>1, <1>3 DEF Scroll, Displays

(* Whatever the row asked for, the cursor ends on a row of the screen.      *)
LEMMA SetCoordsDraws ==
  ASSUME NEW X, Columns(X), NEW Y, NEW Z, NEW d \in Displays(Z, Y),
         NEW x \in X, NEW y \in Nat
  PROVE  /\ SetCoords(d, x, y) \in Displays(X, Rows)
         /\ y < NUM_ROWS => SetCoords(d, x, y).x = x
         /\ y > 0 => SetCoords(d, x, y).y > 0
<1>1. CASE y >= NUM_ROWS
  <2>1. SetCoords(d, x, y) = Scroll(d)
    BY <1>1 DEF SetCoords
  <2> QED BY <1>1, <2>1, ScrollDraws, ScreenAssumption
<1>2. CASE ~ (y >= NUM_ROWS)
  <2>1. SetCoords(d, x, y) = [d EXCEPT !.x = x, !.y = y]
    BY <1>2 DEF SetCoords
  <2>2. y \in Rows
    BY <1>2, ScreenAssumption DEF Rows
  <2> QED BY <2>1, <2>2 DEF Displays
<1> QED BY <1>1, <1>2

(* putc may go below the screen, and comes back with the next character.    *)
LEMMA PutCDraws ==
  ASSUME NEW X, Columns(X), NEW d \in Displays(X, Nat), NEW c \in Chars
  PROVE  /\ PutC(d, c) \in Displays(X, Nat)
         /\ c # Newline => /\ PutC(d, c) \in Displays(X, Rows)
                           /\ PutC(d, c).x = NextColumn(d.x)
                           /\ d.y \in Rows => PutC(d, c).y = d.y
         /\ c = Newline => PutC(d, c).x = 0
<1>1. CASE c = Newline
  <2>1. PutC(d, c) = [d EXCEPT !.x = 0, !.y = @ + 1]
    BY <1>1 DEF PutC
  <2>2. 0 \in X
    BY ScreenAssumption DEF Columns
  <2>3. d.y \in Nat
    BY DEF Displays
  <2>4. PutC(d, c) \in Displays(X, Nat)
    <3>1. PutC(d, c) = [d EXCEPT !.x = 0, !.y = d.y + 1]
      BY <2>1 DEF Displays
    <3>2. d.y + 1 \in Nat
      BY <2>3
    <3> QED BY <3>1, <3>2, <2>2 DEF Displays
  <2>5. PutC(d, c).x = 0
    BY <2>1 DEF Displays
  <2> QED BY <1>1, <2>4, <2>5
<1>2. CASE c # Newline
  <2>1. PutC(d, c) = [Put(d, c) EXCEPT !.x = NextColumn(@), !.y = @ % NUM_ROWS]
    BY <1>2 DEF PutC
  <2>2. /\ Put(d, c) \in Displays(X, Nat)
        /\ Put(d, c).x = d.x /\ Put(d, c).y = d.y
    BY PutDraws
  <2>3. d.x \in X /\ d.y \in Nat /\ NextColumn(d.x) \in X
    <3>1. d.x \in X /\ d.y \in Nat
      BY DEF Displays
    <3> QED BY <3>1, NextColumnStays
  <2>4. /\ d.y % NUM_ROWS \in Rows /\ Rows \subseteq Nat
        /\ d.y \in Rows => d.y % NUM_ROWS = d.y
    BY <2>3, ScreenAssumption DEF Rows
  <2>5. PICK p \in Displays(X, Nat) : p = Put(d, c)
    BY <2>2
  <2>6. PutC(d, c) = [p EXCEPT !.x = NextColumn(d.x), !.y = d.y % NUM_ROWS]
    BY <2>1, <2>2, <2>5
  <2>7. /\ PutC(d, c).x = NextColumn(d.x) /\ PutC(d, c).y = d.y % NUM_ROWS
        /\ PutC(d, c) \in Displays(X, Rows)
    BY <2>3, <2>4, <2>5, <2>6 DEF Displays
  <2>8. PutC(d, c) \in Displays(X, Nat)
    BY <2>3, <2>4, <2>5, <2>6 DEF Displays
  <2> QED BY <1>2, <2>4, <2>7, <2>8
<1> QED BY <1>1, <1>2

LEMMA TermPutCDraws ==
  ASSUME NEW X, Columns(X), NEW d \in Displays(X, Rows), NEW c \in Chars
  PROVE  TermPutC(d, c) \in Displays(X, Rows)
<1>1. d.x \in X /\ d.y \in Rows /\ d.y + 1 \in Nat /\ 0 \in X
  BY ScreenAssumption DEF Displays, Rows, Columns
<1>2. Put(d, c) \in Displays(X, Rows) /\ Put(d, c).x = d.x
  BY PutDraws
<1>3. CASE c = Newline
  <2>1. TermPutC(d, c) = SetCoords(d, 0, d.y + 1)
    BY <1>3 DEF TermPutC
  <2> QED BY <1>1, <2>1, SetCoordsDraws
<1>4. CASE c # Newline /\ d.x + 1 = NUM_COLS
  <2>1. TermPutC(d, c) = SetCoords(Put(d, c), 0, d.y + 1)
    BY <1>4 DEF TermPutC
  <2> QED BY <1>1, <1>2, <2>1, SetCoordsDraws
<1>5. CASE c # Newline /\ d.x + 1 # NUM_COLS
  <2>1. TermPutC(d, c) = [Put(d, c) EXCEPT !.x = NextColumn(@)]
    BY <1>5 DEF TermPutC
  <2>2. NextColumn(d.x) \in X
    BY <1>1, NextColumnStays
  <2> QED BY <1>2, <2>1, <2>2 DEF Displays
<1> QED BY <1>3, <1>4, <1>5

LEMMA WriteStepDraws ==
  ASSUME NEW X, Columns(X), NEW d \in Displays(X, Rows), NEW c \in Chars
  PROVE  WriteStep(d, c) \in Displays(X, Rows)
BY TermPutCDraws DEF WriteStep

(* The part of the line behind the end of the row is drawn one row further  *)
(* down, and for that each character moves there and back.                  *)
LEMMA RedrawStepDraws ==
  ASSUME NEW X, Columns(X), NEW d \in Displays(X, Rows), NEW s, NEW k,
         s[k] \in KEYS, NEW x
  PROVE  RedrawStep(d, s, k, x) \in Displays(X, Rows)
<1>1. s[k] \in Chars /\ s[k] # Newline
  BY Characters, TextAssumption
<1>2. d.x \in X /\ d.y \in Rows /\ Rows \subseteq Nat /\ d \in Displays(X, Nat)
  BY ScreenAssumption DEF Displays, Rows
<1>3. CASE k - 1 >= NUM_COLS - x
  <2>1. PICK e : e = SetCoords(d, d.x, d.y + 1)
    OBVIOUS
  <2>2. PICK f : f = PutC(e, s[k])
    OBVIOUS
  <2>3. d.y + 1 \in Nat /\ d.y + 1 > 0
    BY <1>2 DEF Rows
  <2>4. e \in Displays(X, Rows) /\ e.y > 0
    BY <1>2, <2>1, <2>3, SetCoordsDraws
  <2>5. e \in Displays(X, Nat) /\ e.y \in Rows
    BY <1>2, <2>4 DEF Displays
  <2>6. f \in Displays(X, Rows) /\ f.y = e.y
    BY <1>1, <2>2, <2>5, PutCDraws
  <2>7. f.x \in X /\ f.y - 1 \in Nat
    <3>1. f.x \in X /\ f.y \in Rows
      BY <2>6 DEF Displays
    <3> QED BY <2>4, <2>6, <3>1 DEF Rows
  <2>8. SetCoords(f, f.x, f.y - 1) \in Displays(X, Rows)
    BY <2>6, <2>7, SetCoordsDraws
  <2> QED BY <1>3, <2>1, <2>2, <2>8 DEF RedrawStep
<1>4. CASE ~ (k - 1 >= NUM_COLS - x)
  BY <1>1, <1>2, <1>4, PutCDraws DEF RedrawStep
<1> QED BY <1>3, <1>4

(* The drawing of a text.                                                   *)
LEMMA PrintkDraws ==
  ASSUME NEW X, Columns(X), NEW d \in Displays(X, Rows), NEW s \in Seq(Chars)
  PROVE  Printk(d, s) \in Displays(X, Rows)
<1>1. PICK n : n = Len(s)
  OBVIOUS
<1>2. n \in Nat /\ DOMAIN s = 1 .. n /\ \A k \in 1 .. n : s[k] \in Chars
  BY <1>1
<1>3. \A e \in Displays(X, Rows) : \A k \in 1 .. n :
        TermPutC(e, s[k]) \in Displays(X, Rows)
  BY <1>2, TermPutCDraws
<1>4. PrintkSteps(Displays(X, Rows), n, s)
        \in [1 .. n -> [Displays(X, Rows) -> Displays(X, Rows)]]
  BY <1>3 DEF PrintkSteps
<1>5. Ends(Printk(d, s), n, Displays(X, Rows), d,
          PrintkSteps(Displays(X, Rows), n, s))
  BY <1>2, <1>4, PrintkRuns
<1> QED BY <1>2, <1>5 DEF Ends

LEMMA WriteDraws ==
  ASSUME NEW X, Columns(X), NEW d \in Displays(X, Rows), NEW s \in Seq(Chars)
  PROVE  Writes(d, s) \in Displays(X, Rows)
<1>1. PICK n : n = Len(s)
  OBVIOUS
<1>2. n \in Nat /\ DOMAIN s = 1 .. n /\ \A k \in 1 .. n : s[k] \in Chars
  BY <1>1
<1>3. \A e \in Displays(X, Rows) : \A k \in 1 .. n :
        WriteStep(e, s[k]) \in Displays(X, Rows)
  BY <1>2, WriteStepDraws
<1>4. WriteSteps(Displays(X, Rows), n, s)
        \in [1 .. n -> [Displays(X, Rows) -> Displays(X, Rows)]]
  BY <1>3 DEF WriteSteps
<1>5. Ends(Writes(d, s), n, Displays(X, Rows), d,
          WriteSteps(Displays(X, Rows), n, s))
  BY <1>2, <1>4, WriteRuns
<1> QED BY <1>2, <1>5 DEF Ends

LEMMA RedrawnDraws ==
  ASSUME NEW X, Columns(X), NEW d \in Displays(X, Rows), NEW s \in Seq(KEYS), NEW x
  PROVE  Redrawn(d, s, x) \in Displays(X, Rows)
<1>1. PICK n : n = Len(s)
  OBVIOUS
<1>2. n \in Nat /\ DOMAIN s = 1 .. n /\ \A k \in 1 .. n : s[k] \in KEYS
  BY <1>1
<1>3. \A e \in Displays(X, Rows) : \A k \in 1 .. n :
        RedrawStep(e, s, k, x) \in Displays(X, Rows)
  BY <1>2, RedrawStepDraws
<1>4. RedrawSteps(Displays(X, Rows), n, s, x)
        \in [1 .. n -> [Displays(X, Rows) -> Displays(X, Rows)]]
  BY <1>3 DEF RedrawSteps
<1>5. Ends(Redrawn(d, s, x), n, Displays(X, Rows), d,
          RedrawSteps(Displays(X, Rows), n, s, x))
  BY <1>2, <1>4, RedrawnRuns
<1> QED BY <1>2, <1>5 DEF Ends

(* Ctrl+L may leave the screen on the way, not with its last character.     *)
LEMMA PutCsDraws ==
  ASSUME NEW X, Columns(X), NEW d \in Displays(X, Rows), NEW s \in Seq(Chars),
         s # <<>>, s[Len(s)] # Newline
  PROVE  PutCs(d, s) \in Displays(X, Rows)
<1>1. PICK n : n = Len(s)
  OBVIOUS
<1>2. PICK D : D = Displays(X, Nat)
  OBVIOUS
<1>3. n \in Nat \ {0} /\ DOMAIN s = 1 .. n /\ \A k \in 1 .. n : s[k] \in Chars
  BY <1>1
<1>4. \A e \in D : \A k \in 1 .. n : PutC(e, s[k]) \in D
  BY <1>2, <1>3, PutCDraws
<1>5. d \in D
  BY <1>2, ScreenAssumption DEF Displays, Rows
<1>6. PutCSteps(D, n, s) \in [1 .. n -> [D -> D]]
  BY <1>4 DEF PutCSteps
<1>7. Ends(PutCs(d, s), n, D, d, PutCSteps(D, n, s))
  BY <1>3, <1>5, <1>6, PutCRuns
<1>8. PICK g \in [0 .. n -> D] :
        Runs(g, n, d, PutCSteps(D, n, s)) /\ PutCs(d, s) = g[n]
  BY <1>7 DEF Ends
<1>9. n \in 1 .. n /\ g[n - 1] \in D
  BY <1>3, <1>8
<1>10. g[n] = PutC(g[n - 1], s[n])
  <2>1. g[n] = PutCSteps(D, n, s)[n][g[n - 1]]
    BY <1>8, <1>9 DEF Runs
  <2> QED BY <1>9, <2>1 DEF PutCSteps
<1>11. s[n] \in Chars /\ s[n] # Newline
  BY <1>1, <1>3
<1> QED BY <1>2, <1>8, <1>9, <1>10, <1>11, PutCDraws

(* Less than a row of characters, with no newline after the first w: the    *)
(* cursor ends at least as many columns to the right as came after these.   *)
LEMMA PutCsFit ==
  ASSUME NEW d \in Displays(0 .. NUM_COLS - 1, Rows), d.x = 0,
         NEW s \in Seq(Chars), Len(s) < NUM_COLS,
         NEW w \in 0 .. Len(s), \A k \in w + 1 .. Len(s) : s[k] # Newline
  PROVE  PutCs(d, s).x \in Len(s) - w .. Len(s)
<1>1. PICK n : n = Len(s)
  OBVIOUS
<1>2. PICK D : D = Displays(0 .. NUM_COLS - 1, Nat)
  OBVIOUS
<1>3. n \in Nat /\ DOMAIN s = 1 .. n /\ \A k \in 1 .. n : s[k] \in Chars
  BY <1>1
<1>4. \A e \in D : \A k \in 1 .. n : PutC(e, s[k]) \in D
  BY <1>2, <1>3, PutCDraws, WideColumns
<1>5. d \in D
  BY <1>2, ScreenAssumption DEF Displays, Rows
<1>6. PutCSteps(D, n, s) \in [1 .. n -> [D -> D]]
  BY <1>4 DEF PutCSteps
<1>7. Ends(PutCs(d, s), n, D, d, PutCSteps(D, n, s))
  BY <1>3, <1>5, <1>6, PutCRuns
<1>8. PICK g \in [0 .. n -> D] :
        Runs(g, n, d, PutCSteps(D, n, s)) /\ PutCs(d, s) = g[n]
  BY <1>7 DEF Ends
<1>9. PICK G : G = [k \in 0 .. n |-> {e \in D : e.x \in 0 .. k /\ e.x >= k - w}]
  OBVIOUS
<1>10. g[0] \in G[0]
  <2>1. g[0] = d /\ 0 \in 0 .. n
    BY <1>3, <1>8 DEF Runs
  <2> QED BY <1>1, <1>5, <1>9, <2>1
<1>11. ASSUME NEW k \in 1 .. n, g[k - 1] \in G[k - 1]
       PROVE  g[k] \in G[k]
  <2>1. PICK e : e = g[k - 1]
    OBVIOUS
  <2>2. k - 1 \in 0 .. n /\ k \in 0 .. n /\ k \in 1 .. n
    BY <1>3
  <2>3. e \in D /\ e.x \in 0 .. k - 1 /\ e.x >= k - 1 - w
    BY <1>9, <1>11, <2>1, <2>2
  <2>4. g[k] = PutC(e, s[k])
    <3>1. g[k] = PutCSteps(D, n, s)[k][g[k - 1]]
      BY <1>8 DEF Runs
    <3> QED BY <2>1, <2>3, <3>1 DEF PutCSteps
  <2>5. g[k] \in D
    BY <1>8, <2>2
  <2>6. g[k].x \in 0 .. k /\ g[k].x >= k - w
    <3>1. CASE s[k] = Newline
      <4>1. g[k].x = 0
        BY <1>2, <1>3, <2>2, <2>3, <2>4, <3>1, PutCDraws, WideColumns
      <4>2. ~ (k \in w + 1 .. Len(s))
        BY <3>1
      <4> QED BY <1>1, <1>3, <4>1, <4>2
    <3>2. CASE s[k] # Newline
      <4>1. g[k].x = NextColumn(e.x)
        BY <1>2, <1>3, <2>2, <2>3, <2>4, <3>2, PutCDraws, WideColumns
      <4>2. NextColumn(e.x) = e.x + 1
        <5>1. PICK x : x = e.x
          OBVIOUS
        <5>2. x + 1 \in 0 .. NUM_COLS - 1 /\ x \in Int
          BY <1>1, <1>3, <2>3, <5>1, ScreenAssumption
        <5>3. (x + 1) % NUM_COLS = x + 1 /\ ~ (x + 1 < 0)
          BY <5>2, ScreenAssumption
        <5> QED BY <5>1, <5>3 DEF NextColumn
      <4> QED BY <1>3, <2>3, <4>1, <4>2
    <3> QED BY <3>1, <3>2
  <2> QED BY <1>9, <2>2, <2>5, <2>6
<1>12. \A k \in 0 .. n : g[k] \in G[k]
  BY <1>3, <1>10, <1>11, RunStays
<1>13. n \in 0 .. n
  BY <1>3
<1> QED BY <1>1, <1>3, <1>8, <1>9, <1>12, <1>13
-----------------------------------------------------------------------------
(* The inductive invariant.  The types alone are not inductive: Ctrl+L      *)
(* prints writebuffer up to writeindex, which Key sets to the column of the *)
(* cursor.  Neither passes the end of the buffer, although both may be      *)
(* negative.                                                                *)
IInv ==
  /\ TypeOK
  /\ screen_x \in [Terminals -> Wide]
  /\ writeindex \in [Terminals -> Wide]

LEMMA HelperLength == Len(HELPER) \in Nat
BY TextAssumption

LEMMA InitInv == Init => IInv
<1> SUFFICES ASSUME Init PROVE IInv
  OBVIOUS
<1> USE DEF Init
<1>1. 0 \in Wide /\ 0 \in Terminals /\ 0 \in Rows /\ 0 \in 0 .. SPOILED
  BY ScreenAssumption, TextAssumption DEF Wide, Terminals, Rows
<1>2. /\ video_mem \in [Cells -> Chars]
      /\ b_buf \in [Terminals -> [SavedCells -> Chars]]
      /\ writebuffer \in [Terminals -> [1 .. BUFFERSIZE -> Chars]]
  BY Characters
<1>3. screen_x \in [Terminals -> Wide] /\ writeindex \in [Terminals -> Wide]
  BY <1>1
<1>4. screen_x \in [Terminals -> Int] /\ writeindex \in [Terminals -> Int]
  OBVIOUS
<1>5. screen_y \in [Terminals -> 0 .. NUM_ROWS - 1]
  BY <1>1 DEF Rows
<1>6. /\ line \in [Terminals -> Seq(KEYS)]
      /\ \A t \in Terminals : Len(line[t]) <= BUFFERSIZE
  BY TextAssumption
<1>7. spoiled \in [Terminals -> 0 .. SPOILED]
  BY <1>1
<1>8. helping \in 0 .. Len(HELPER) + 1
  BY HelperLength
<1> QED BY <1>1, <1>2, <1>3, <1>4, <1>5, <1>6, <1>7, <1>8 DEF IInv, TypeOK

(* What is on the screen, and what may be printed there.                    *)
LEMMA Shown ==
  ASSUME IInv
  PROVE  /\ shown \in Terminals
         /\ Display \in Displays(Wide, Rows)
         /\ Display.x = screen_x[shown] /\ Display.y = screen_y[shown]
         /\ OnScreen(shown) => Display \in Displays(0 .. NUM_COLS - 1, Rows)
         /\ line[shown] \in Seq(KEYS) /\ Len(line[shown]) <= BUFFERSIZE
         /\ writeindex[shown] \in Wide
         /\ writebuffer[shown] \in Seq(Chars)
         /\ Len(writebuffer[shown]) = BUFFERSIZE
         /\ \A s \in WRITES \cup {HELPER} : s \in Seq(Chars)
<1>1. shown \in Terminals
  BY DEF IInv, TypeOK, shown
<1>2. /\ video_mem \in [Cells -> Chars]
      /\ screen_x[shown] \in Wide /\ screen_y[shown] \in Rows
      /\ line[shown] \in Seq(KEYS) /\ Len(line[shown]) <= BUFFERSIZE
      /\ writeindex[shown] \in Wide
      /\ writebuffer[shown] \in [1 .. BUFFERSIZE -> Chars]
  BY <1>1 DEF IInv, TypeOK, Rows
<1>3. writebuffer[shown] \in Seq(Chars) /\ Len(writebuffer[shown]) = BUFFERSIZE
  BY <1>2, TextAssumption
<1>4. \A s \in WRITES \cup {HELPER} : s \in Seq(Chars)
  BY TextAssumption
<1> QED BY <1>1, <1>2, <1>3, <1>4 DEF Display, Displays, OnScreen

(* A step that draws keeps the types of what it draws.                      *)
LEMMA ShowTypes ==
  ASSUME IInv, NEW d \in Displays(Wide, Rows), Show(d)
  PROVE  /\ video_mem' \in [Cells -> Chars]
         /\ screen_x' \in [Terminals -> Wide]
         /\ screen_y' \in [Terminals -> 0 .. NUM_ROWS - 1]
<1>1. d.mem \in [Cells -> Chars] /\ d.x \in Wide /\ d.y \in 0 .. NUM_ROWS - 1
  BY DEF Displays, Rows
<1>2. /\ screen_x \in [Terminals -> Wide]
      /\ screen_y \in [Terminals -> 0 .. NUM_ROWS - 1]
  BY DEF IInv, TypeOK
<1> QED BY <1>1, <1>2 DEF Show

LEMMA SpoilTypes ==
  ASSUME IInv, NEW t \in Terminals, NEW ok
  PROVE  Spoil(t, ok) \in 0 .. SPOILED
<1>1. spoiled[t] \in 0 .. SPOILED /\ SPOILED \in Nat \ {0}
  BY TextAssumption DEF IInv, TypeOK
<1>2. CASE spoiled[t] = 0
  <2>1. Max({spoiled[t], 1}) = 1
    BY <1>2, MaxIs
  <2> QED BY <1>1, <2>1 DEF Spoil
<1>3. CASE spoiled[t] # 0
  <2>1. Max({spoiled[t], 1}) = spoiled[t]
    <3>1. PICK S : S = {spoiled[t], 1}
      OBVIOUS
    <3>2. /\ spoiled[t] \in S /\ spoiled[t] \in Int
          /\ \A y \in S : y \in Int /\ spoiled[t] >= y
      BY <1>1, <1>3, <3>1
    <3> QED BY <3>1, <3>2, MaxIs
  <2> QED BY <1>1, <2>1 DEF Spoil
<1> QED BY <1>2, <1>3

LEMMA RecordTypes ==
  ASSUME IInv, NEW p, NEW l, NEW from, NEW ok, Record(p, l, from, ok)
  PROVE  spoiled' \in [Terminals -> 0 .. SPOILED]
<1>1. \A t \in Terminals : spoiled'[t] \in 0 .. SPOILED
  <2> SUFFICES ASSUME NEW t \in Terminals PROVE spoiled'[t] \in 0 .. SPOILED
    OBVIOUS
  <2>1. spoiled'[t] = IF t # shown THEN Spoil(t, Tidy')
                      ELSE IF ok /\ Tidy' THEN 0
                      ELSE IF Followed THEN spoiled[t] + 1 ELSE SPOILED
    BY DEF Record
  <2>2. Spoil(t, Tidy') \in 0 .. SPOILED
    BY SpoilTypes
  <2>3. spoiled[t] \in 0 .. SPOILED /\ SPOILED \in Nat \ {0}
    BY TextAssumption DEF IInv, TypeOK
  <2>4. t = shown /\ Followed => spoiled[t] < SPOILED
    BY DEF Followed
  <2> QED BY <2>1, <2>2, <2>3, <2>4
<1>2. \E f : spoiled' = [t \in Terminals |-> f[t]]
  <2>1. PICK f : f = [t \in Terminals |->
                        IF t # shown THEN Spoil(t, Tidy')
                        ELSE IF ok /\ Tidy' THEN 0
                        ELSE IF Followed THEN spoiled[t] + 1 ELSE SPOILED]
    OBVIOUS
  <2>2. spoiled' = f /\ f = [t \in Terminals |-> f[t]]
    BY <2>1 DEF Record
  <2> QED BY <2>2
<1> QED BY <1>1, <1>2
-----------------------------------------------------------------------------
(* What each step that draws shows, with the cursor in X if it was there.   *)
Shows(X) == \E d \in Displays(X, Rows) : Show(d)

LEMMA WriteShows ==
  ASSUME IInv, NEW X, Columns(X), Display \in Displays(X, Rows),
         NEW s \in WRITES, Write(s)
  PROVE  Shows(X)
<1>1. Show(Writes(Display, s))
  BY Zenon DEF Write, Writes, WriteStep
<1>2. s \in Seq(Chars)
  BY TextAssumption
<1>3. Writes(Display, s) \in Displays(X, Rows)
  BY <1>2, WriteDraws
<1> QED BY <1>1, <1>3 DEF Shows

LEMMA KeyShows ==
  ASSUME IInv, NEW X, Columns(X), Display \in Displays(X, Rows),
         NEW c \in KEYS, Key(c)
  PROVE  Shows(X)
<1>1. PICK l : l = Append(line[shown], c)
  OBVIOUS
<1>2. PICK drawn : drawn = Redrawn(Display, l, screen_x[shown])
  OBVIOUS
<1>3. Show(SetCoords(drawn, screen_x[shown], drawn.y))
  BY <1>1, <1>2 DEF Key
<1>4. l \in Seq(KEYS)
  BY <1>1, Shown
<1>5. drawn \in Displays(X, Rows)
  BY <1>2, <1>4, RedrawnDraws
<1>6. drawn.y \in Nat /\ screen_x[shown] \in X
  BY <1>5, Shown, ScreenAssumption DEF Displays, Rows
<1>7. SetCoords(drawn, screen_x[shown], drawn.y) \in Displays(X, Rows)
  BY <1>5, <1>6, SetCoordsDraws
<1> QED BY <1>3, <1>7 DEF Shows

LEMMA BackspaceShows ==
  ASSUME IInv, NEW X, Columns(X), Display \in Displays(X, Rows),
         writeindex[shown] \in X, Backspace
  PROVE  Shows(X)
<1>1. PICK l : l = IF line[shown] = <<>> THEN <<>> ELSE Front(line[shown])
  OBVIOUS
<1>2. PICK x : x = writeindex[shown]
  OBVIOUS
<1>3. PICK start : start = SetCoords(Display, x, screen_y[shown])
  OBVIOUS
<1>4. PICK cleared : cleared = IF Len(l) >= NUM_COLS - x
                               THEN ClearLine(start, 0, start.y + 1)
                               ELSE ClearLine(start, x, start.y)
  OBVIOUS
<1>5. PICK drawn : drawn = Redrawn(cleared, l, x)
  OBVIOUS
<1>6. Show(SetCoords(drawn, x, drawn.y))
  BY <1>1, <1>2, <1>3, <1>4, <1>5, Zenon DEF Backspace
<1>7. l \in Seq(KEYS)
  BY <1>1, Shown DEF Front
<1>8. screen_y[shown] \in Nat
  BY Shown, ScreenAssumption DEF Displays, Rows
<1>9. start \in Displays(X, Rows)
  BY <1>2, <1>3, <1>8, SetCoordsDraws
<1>10. cleared \in Displays(X, Rows)
  BY <1>4, <1>9, ClearLineDraws
<1>11. drawn \in Displays(X, Rows)
  BY <1>5, <1>7, <1>10, RedrawnDraws
<1>12. drawn.y \in Nat
  BY <1>11, ScreenAssumption DEF Displays, Rows
<1>13. SetCoords(drawn, x, drawn.y) \in Displays(X, Rows)
  BY <1>2, <1>11, <1>12, SetCoordsDraws
<1> QED BY <1>6, <1>13 DEF Shows

LEMMA EnterShows ==
  ASSUME IInv, NEW X, Columns(X), Display \in Displays(X, Rows), Enter
  PROVE  Shows(X)
<1>1. PICK s : s = EnterNewlines(line[shown])
  OBVIOUS
<1>2. s \in Seq(Chars)
  BY <1>1, Characters DEF EnterNewlines
<1>3. Show(Printk(Display, s))
  BY <1>1 DEF Enter
<1>4. Printk(Display, s) \in Displays(X, Rows)
  BY <1>2, PrintkDraws
<1> QED BY <1>3, <1>4 DEF Shows

(* The text of Ctrl+L: its last part, the line and what lies behind it, has *)
(* no newline.                                                              *)
LEMMA BehindLineIs ==
  ASSUME IInv
  PROVE  BehindLine \in Chars /\ BehindLine # Newline
<1>1. Blank \in Chars /\ Blank # Newline
  BY Characters DEF Blank, Newline
<1>2. ASSUME shown + 1 \in Terminals, line[shown + 1] # <<>>
      PROVE  line[shown + 1][1] \in Chars /\ line[shown + 1][1] # Newline
  <2>1. line[shown + 1] \in Seq(KEYS)
    BY <1>2 DEF IInv, TypeOK
  <2>2. line[shown + 1][1] \in KEYS
    BY <1>2, <2>1
  <2> QED BY <2>2, Characters, TextAssumption
<1> QED BY <1>1, <1>2 DEF BehindLine

LEMMA ResetText ==
  ASSUME IInv, NEW prompt, NEW text,
         prompt = SubSeq(writebuffer[shown], 1, writeindex[shown]),
         text = prompt \o Append(line[shown], BehindLine)
  PROVE  /\ text \in Seq(Chars) /\ text # <<>> /\ text[Len(text)] # Newline
         /\ Len(prompt) = IF writeindex[shown] > 0 THEN writeindex[shown] ELSE 0
         /\ Len(text) = Len(prompt) + Len(line[shown]) + 1
         /\ \A k \in Len(prompt) + 1 .. Len(text) : text[k] # Newline
<1>1. PICK w : w = writeindex[shown]
  OBVIOUS
<1>2. PICK b : b = writebuffer[shown]
  OBVIOUS
<1>3. w \in Int /\ w <= BUFFERSIZE /\ b \in Seq(Chars) /\ Len(b) = BUFFERSIZE
  BY <1>1, <1>2, Shown DEF Wide
<1>4. prompt \in Seq(Chars) /\ Len(prompt) = IF w > 0 THEN w ELSE 0
  <2>1. prompt = SubSeq(b, 1, w)
    BY <1>1, <1>2
  <2>2. \A i \in 1 .. w : b[i] \in Chars
    BY <1>3
  <2>3. /\ SubSeq(b, 1, w) \in Seq(Chars)
        /\ Len(SubSeq(b, 1, w)) = IF 1 <= w THEN w - 1 + 1 ELSE 0
    BY <1>3, <2>2, SubSeqProperties
  <2>4. prompt \in Seq(Chars) /\ Len(prompt) = IF 1 <= w THEN w - 1 + 1 ELSE 0
    BY <2>1, <2>3, Zenon
  <2> QED BY <1>3, <2>4
<1>5. PICK l \in Seq(Chars) : l = Append(line[shown], BehindLine)
  <2>1. line[shown] \in Seq(Chars)
    BY Shown, Characters
  <2>2. Append(line[shown], BehindLine) \in Seq(Chars)
    BY <2>1, BehindLineIs, AppendProperties
  <2> QED BY <2>2
<1>6. Len(l) = Len(line[shown]) + 1 /\ \A i \in 1 .. Len(l) : l[i] # Newline
  <2>1. line[shown] \in Seq(KEYS) /\ BehindLine # Newline /\ Newline \notin KEYS
    BY Shown, BehindLineIs, TextAssumption
  <2>2. Len(l) = Len(line[shown]) + 1
    BY <1>5, <2>1
  <2>3. ASSUME NEW i \in 1 .. Len(l) PROVE l[i] # Newline
    <3>1. CASE i = Len(l)
      <4>1. l[i] = BehindLine
        BY <1>5, <2>1, <2>2, <3>1
      <4> QED BY <2>1, <4>1
    <3>2. CASE i # Len(l)
      <4>1. i \in 1 .. Len(line[shown])
        BY <2>1, <2>2, <3>2
      <4>2. l[i] = line[shown][i]
        BY <1>5, <2>1, <4>1
      <4> QED BY <2>1, <4>1, <4>2
    <3> QED BY <3>1, <3>2
  <2> QED BY <2>2, <2>3
<1>7. Len(line[shown]) \in Nat
  BY Shown
<1>8. /\ text \in Seq(Chars) /\ Len(text) = Len(prompt) + Len(l)
      /\ \A k \in Len(prompt) + 1 .. Len(text) : text[k] = l[k - Len(prompt)]
  BY <1>4, <1>5
<1>9. \A k \in Len(prompt) + 1 .. Len(text) : text[k] # Newline
  <2> SUFFICES ASSUME NEW k \in Len(prompt) + 1 .. Len(text)
               PROVE  text[k] # Newline
    OBVIOUS
  <2>1. k - Len(prompt) \in 1 .. Len(l)
    BY <1>4, <1>5, <1>8
  <2> QED BY <1>6, <1>8, <2>1
<1>10. /\ Len(text) \in Len(prompt) + 1 .. Len(text) /\ text # <<>>
       /\ Len(text) = Len(prompt) + Len(line[shown]) + 1
  <2>1. PICK m : m = Len(prompt)
    OBVIOUS
  <2>2. PICK i : i = Len(line[shown])
    OBVIOUS
  <2>3. PICK n : n = Len(text)
    OBVIOUS
  <2>4. m \in Nat /\ i \in Nat
    BY <1>4, <1>7, <2>1, <2>2
  <2>5. n = m + (i + 1)
    BY <1>6, <1>8, <2>1, <2>2, <2>3, Zenon
  <2>6. n \in m + 1 .. n /\ n = m + i + 1 /\ n # 0
    BY <2>4, <2>5
  <2>7. text # <<>>
    BY <2>3, <2>6
  <2> QED BY <2>1, <2>2, <2>3, <2>6, <2>7, Zenon
<1>11. text[Len(text)] # Newline
  BY <1>9, <1>10
<1>12. Len(text) = Len(prompt) + Len(line[shown]) + 1
  BY <1>10
<1>13. Len(prompt) = IF writeindex[shown] > 0 THEN writeindex[shown] ELSE 0
  BY <1>1, <1>4
<1> QED BY <1>8, <1>9, <1>10, <1>11, <1>12, <1>13

LEMMA ResetShows ==
  ASSUME IInv, Reset
  PROVE  Shows(Wide) /\ (ResetFits => Shows(0 .. NUM_COLS - 1))
<1>1. PICK prompt : prompt = SubSeq(writebuffer[shown], 1, writeindex[shown])
  OBVIOUS
<1>2. PICK text : text = prompt \o Append(line[shown], BehindLine)
  OBVIOUS
<1>3. PICK start : start = SetCoords(Clear(Display), 0, 0)
  OBVIOUS
<1>4. PICK drawn : drawn = PutCs(start, text)
  OBVIOUS
<1>5. PICK x : x = drawn.x - Len(line[shown]) - 1
  OBVIOUS
<1>6. Show(SetCoords(drawn, x, drawn.y))
  BY <1>1, <1>2, <1>3, <1>4, <1>5, Zenon DEF Reset, PutCs
<1>7. /\ text \in Seq(Chars) /\ text # <<>> /\ text[Len(text)] # Newline
      /\ Len(prompt) = IF writeindex[shown] > 0 THEN writeindex[shown] ELSE 0
      /\ Len(text) = Len(prompt) + Len(line[shown]) + 1
      /\ \A k \in Len(prompt) + 1 .. Len(text) : text[k] # Newline
  BY <1>1, <1>2, ResetText
<1>8. Len(line[shown]) \in Nat /\ writeindex[shown] \in Int
  BY Shown DEF Wide
<1>9. start \in Displays(0 .. NUM_COLS - 1, Rows) /\ start.x = 0
  <2>1. PICK e \in Displays(Wide, Rows) : e = Clear(Display)
    BY Shown, ClearDraws
  <2>2. PICK X : X = 0 .. NUM_COLS - 1
    OBVIOUS
  <2>3. 0 \in X /\ 0 \in Nat /\ 0 < NUM_ROWS /\ Columns(X)
    BY <2>2, ScreenAssumption, WideColumns
  <2>4. SetCoords(e, 0, 0) \in Displays(X, Rows)
    BY <2>3, SetCoordsDraws
  <2>5. SetCoords(e, 0, 0).x = 0
    BY <2>3, SetCoordsDraws
  <2> QED BY <1>3, <2>1, <2>2, <2>4, <2>5
<1>10. drawn \in Displays(0 .. NUM_COLS - 1, Rows)
  BY <1>4, <1>7, <1>9, PutCsDraws, WideColumns
<1>11. drawn.x \in 0 .. NUM_COLS - 1 /\ drawn.y \in Nat
  BY <1>10, ScreenAssumption DEF Displays, Rows
<1>12. Shows(Wide)
  <2>1. x \in Wide
    BY <1>5, <1>8, <1>11, ScreenAssumption, TextAssumption DEF Wide
  <2>2. SetCoords(drawn, x, drawn.y) \in Displays(Wide, Rows)
    BY <1>10, <1>11, <2>1, SetCoordsDraws, WideColumns
  <2> QED BY <1>6, <2>2 DEF Shows
<1>13. ASSUME ResetFits PROVE Shows(0 .. NUM_COLS - 1)
  <2>1. Len(prompt) = writeindex[shown] /\ Len(text) < NUM_COLS
    BY <1>7, <1>8, <1>13 DEF ResetFits
  <2>2. Len(prompt) \in 0 .. Len(text)
    BY <1>7, <1>8
  <2>3. drawn.x \in Len(text) - Len(prompt) .. Len(text)
    BY <1>4, <1>7, <1>9, <2>1, <2>2, PutCsFit
  <2>4. x \in 0 .. NUM_COLS - 1
    BY <1>5, <1>7, <1>8, <2>1, <2>2, <2>3, ScreenAssumption
  <2>5. SetCoords(drawn, x, drawn.y) \in Displays(0 .. NUM_COLS - 1, Rows)
    BY <1>10, <1>11, <2>4, SetCoordsDraws, WideColumns
  <2> QED BY <1>6, <2>5 DEF Shows
<1> QED BY <1>12, <1>13
-----------------------------------------------------------------------------
(* Each step keeps the inductive invariant.                                 *)
DisplayOK ==
  /\ video_mem \in [Cells -> Chars]
  /\ screen_x \in [Terminals -> Wide]
  /\ screen_y \in [Terminals -> 0 .. NUM_ROWS - 1]

LinesOK ==
  /\ line \in [Terminals -> Seq(KEYS)]
  /\ \A t \in Terminals : Len(line[t]) <= BUFFERSIZE

BuffersOK ==
  /\ writebuffer \in [Terminals -> [1 .. BUFFERSIZE -> Chars]]
  /\ writeindex \in [Terminals -> Wide]

SwitchOK ==
  /\ current_terminal \in Terminals
  /\ b_buf \in [Terminals -> [SavedCells -> Chars]]
  /\ launched \subseteq Terminals
  /\ helping \in 0 .. Len(HELPER) + 1

SpoiledOK == spoiled \in [Terminals -> 0 .. SPOILED]

LEMMA InvParts ==
  IInv <=> DisplayOK /\ LinesOK /\ BuffersOK /\ SwitchOK /\ SpoiledOK
<1>1. Wide \subseteq Int
  BY DEF Wide
<1>2. \A f \in [Terminals -> Wide] : f \in [Terminals -> Int]
  BY <1>1
<1> QED BY <1>2 DEF IInv, TypeOK, DisplayOK, LinesOK, BuffersOK, SwitchOK, SpoiledOK

LEMMA InvAfter ==
  DisplayOK' /\ LinesOK' /\ BuffersOK' /\ SwitchOK' /\ SpoiledOK' => IInv'
BY InvParts, PTL

LEMMA ShowsTypes ==
  ASSUME IInv, Shows(Wide)
  PROVE  DisplayOK'
BY ShowTypes DEF Shows, DisplayOK

LEMMA ScreenTypes ==
  ASSUME IInv, NEW t \in Terminals
  PROVE  /\ SavedScreens(t) \in [Terminals -> [SavedCells -> Chars]]
         /\ LoadedScreen(t) \in [Cells -> Chars]
<1>1. /\ video_mem \in [Cells -> Chars]
      /\ b_buf \in [Terminals -> [SavedCells -> Chars]]
  BY DEF IInv, TypeOK
<1>2. PICK m : m = [a \in SavedCells |-> video_mem[a]]
  OBVIOUS
<1>3. PICK z : z = [a \in SavedCells |-> Blank]
  OBVIOUS
<1>4. m \in [SavedCells -> Chars] /\ z \in [SavedCells -> Chars]
  BY <1>1, <1>2, <1>3, Memory, Characters
<1>5. SavedScreens(t) = [b_buf EXCEPT ![shown] = m, ![t] = z]
  BY <1>2, <1>3 DEF SavedScreens
<1>6. SavedScreens(t) \in [Terminals -> [SavedCells -> Chars]]
  BY <1>1, <1>4, <1>5
<1>7. b_buf[t] \in [SavedCells -> Chars]
  BY <1>1
<1>8. LoadedScreen(t) \in [Cells -> Chars]
  BY <1>1, <1>7 DEF LoadedScreen
<1> QED BY <1>6, <1>8

LEMMA SwitchSpoils ==
  ASSUME IInv, spoiled' = [u \in Terminals |-> Spoil(u, Tidy')]
  PROVE  SpoiledOK'
<1>1. \A u \in Terminals : Spoil(u, Tidy') \in 0 .. SPOILED
  BY SpoilTypes
<1> QED BY <1>1 DEF SpoiledOK

LEMMA WriteKeeps ==
  ASSUME IInv, NEW s \in WRITES, Write(s)
  PROVE  IInv'
<1>1. DisplayOK'
  BY Shown, WideColumns, WriteShows, ShowsTypes
<1>2. LinesOK' /\ SwitchOK'
  BY InvParts DEF Write, LinesOK, SwitchOK
<1>3. SpoiledOK'
  BY RecordTypes DEF Write, SpoiledOK
<1>4. s \in Seq(Chars) /\ Len(s) \in Nat /\ Len(s) <= BUFFERSIZE
  BY TextAssumption
<1>5. PICK b : b = writebuffer[shown]
  OBVIOUS
<1>6. PICK q : q = SubSeq(b, Len(s) + 1, BUFFERSIZE)
  OBVIOUS
<1>7. q \in Seq(Chars) /\ Len(q) = BUFFERSIZE - Len(s)
  <2>1. \A i \in Len(s) + 1 .. BUFFERSIZE : b[i] \in Chars
    BY <1>4, <1>5, Shown
  <2>2. PICK m : m = Len(s) + 1
    OBVIOUS
  <2>3. /\ m \in Int /\ BUFFERSIZE \in Int
        /\ BUFFERSIZE - m + 1 = BUFFERSIZE - Len(s)
        /\ (~ (m <= BUFFERSIZE) => BUFFERSIZE - Len(s) = 0)
    BY <1>4, <2>2, TextAssumption
  <2>4. /\ SubSeq(b, m, BUFFERSIZE) \in Seq(Chars)
        /\ Len(SubSeq(b, m, BUFFERSIZE)) =
             IF m <= BUFFERSIZE THEN BUFFERSIZE - m + 1 ELSE 0
    BY <2>1, <2>2, <2>3, SubSeqProperties
  <2>5. q = SubSeq(b, m, BUFFERSIZE)
    BY <1>6, <2>2
  <2> QED BY <2>3, <2>4, <2>5, Zenon
<1>8. s \o q \in [1 .. BUFFERSIZE -> Chars]
  <2>1. PICK r : r = s \o q
    OBVIOUS
  <2>2. r \in Seq(Chars) /\ Len(r) = Len(s) + Len(q)
    BY <1>4, <1>7, <2>1, ConcatProperties
  <2>3. Len(r) = BUFFERSIZE
    BY <1>4, <1>7, <2>2, TextAssumption
  <2>4. r \in [1 .. Len(r) -> Chars]
    BY <2>2
  <2> QED BY <2>1, <2>3, <2>4
<1>9. Len(s) \in Wide
  BY <1>4 DEF Wide
<1>10. BuffersOK'
  <2>1. writebuffer' = [writebuffer EXCEPT ![shown] = s \o q]
    BY <1>5, <1>6 DEF Write
  <2>2. writeindex' = [writeindex EXCEPT ![shown] = Len(s)]
    BY DEF Write
  <2> QED BY <1>8, <1>9, <2>1, <2>2, InvParts DEF BuffersOK
<1> QED BY <1>1, <1>2, <1>3, <1>10, InvAfter

LEMMA LinesAfter ==
  ASSUME IInv, NEW l \in Seq(KEYS), Len(l) <= BUFFERSIZE,
         line' = [line EXCEPT ![shown] = l]
  PROVE  LinesOK'
<1>1. /\ line \in [Terminals -> Seq(KEYS)]
      /\ \A t \in Terminals : Len(line[t]) <= BUFFERSIZE
  BY InvParts DEF LinesOK
<1>2. line' \in [Terminals -> Seq(KEYS)]
  BY <1>1
<1>3. ASSUME NEW t \in Terminals PROVE Len(line'[t]) <= BUFFERSIZE
  <2>1. line'[t] = l \/ line'[t] = line[t]
    BY <1>1
  <2> QED BY <1>1, <2>1
<1> QED BY <1>2, <1>3 DEF LinesOK

LEMMA KeyKeeps ==
  ASSUME IInv, NEW c \in KEYS, Key(c)
  PROVE  IInv'
<1>1. DisplayOK'
  BY Shown, WideColumns, KeyShows, ShowsTypes
<1>2. LinesOK'
  <2>1. line' = [line EXCEPT ![shown] = Append(line[shown], c)]
    BY DEF Key
  <2>2. /\ Append(line[shown], c) \in Seq(KEYS)
        /\ Len(Append(line[shown], c)) = Len(line[shown]) + 1
    BY Shown, AppendProperties
  <2>3. Len(line[shown]) \in Nat /\ Len(line[shown]) < BUFFERSIZE
    BY Shown DEF Key
  <2>4. Len(Append(line[shown], c)) <= BUFFERSIZE
    BY <2>2, <2>3, TextAssumption
  <2> QED BY <2>1, <2>2, <2>4, LinesAfter
<1>3. BuffersOK'
  <2>1. /\ writeindex' = [writeindex EXCEPT ![shown] = screen_x[shown]]
        /\ writebuffer' = writebuffer
    BY DEF Key
  <2>2. screen_x[shown] \in Wide
    BY Shown DEF IInv
  <2> QED BY <2>1, <2>2, InvParts DEF BuffersOK
<1>4. SwitchOK'
  BY InvParts DEF Key, SwitchOK
<1>5. SpoiledOK'
  BY RecordTypes DEF Key, SpoiledOK
<1> QED BY <1>1, <1>2, <1>3, <1>4, <1>5, InvAfter

LEMMA BackspaceKeeps ==
  ASSUME IInv, Backspace
  PROVE  IInv'
<1>1. DisplayOK'
  BY Shown, WideColumns, BackspaceShows, ShowsTypes
<1>2. LinesOK'
  <2>1. PICK l : l = IF line[shown] = <<>> THEN <<>> ELSE Front(line[shown])
    OBVIOUS
  <2>2. line' = [line EXCEPT ![shown] = l]
    BY <2>1 DEF Backspace
  <2>3. l \in Seq(KEYS) /\ Len(l) <= Len(line[shown])
    BY <2>1, Shown DEF Front
  <2>4. Len(l) <= BUFFERSIZE
    BY <2>3, Shown, TextAssumption
  <2> QED BY <2>2, <2>3, <2>4, LinesAfter
<1>3. BuffersOK' /\ SwitchOK'
  BY InvParts DEF Backspace, BuffersOK, SwitchOK
<1>4. SpoiledOK'
  <2>1. PICK l, from, ok : Record(paper[shown], l, from, ok)
    BY Zenon DEF Backspace
  <2> QED BY <2>1, RecordTypes DEF SpoiledOK
<1> QED BY <1>1, <1>2, <1>3, <1>4, InvAfter

LEMMA EnterKeeps ==
  ASSUME IInv, Enter
  PROVE  IInv'
<1>1. DisplayOK'
  BY Shown, WideColumns, EnterShows, ShowsTypes
<1>2. LinesOK'
  <2>1. line' = [line EXCEPT ![shown] = <<>>]
    BY DEF Enter
  <2>2. <<>> \in Seq(KEYS) /\ Len(<<>>) <= BUFFERSIZE
    BY TextAssumption
  <2> QED BY <2>1, <2>2, LinesAfter
<1>3. BuffersOK' /\ SwitchOK'
  BY InvParts DEF Enter, BuffersOK, SwitchOK
<1>4. SpoiledOK'
  BY RecordTypes DEF Enter, SpoiledOK
<1> QED BY <1>1, <1>2, <1>3, <1>4, InvAfter

LEMMA ResetKeeps ==
  ASSUME IInv, Reset
  PROVE  IInv'
<1>1. DisplayOK'
  BY ResetShows, ShowsTypes
<1>2. LinesOK' /\ BuffersOK' /\ SwitchOK'
  BY InvParts DEF Reset, LinesOK, BuffersOK, SwitchOK
<1>3. SpoiledOK'
  BY RecordTypes DEF Reset, SpoiledOK
<1> QED BY <1>1, <1>2, <1>3, InvAfter

LEMMA SwitchKeeps ==
  ASSUME IInv, NEW t \in Terminals, Switch(t),
         launched' \subseteq Terminals, helping' \in 0 .. Len(HELPER) + 1
  PROVE  IInv'
<1>1. DisplayOK'
  BY ScreenTypes, InvParts DEF Switch, DisplayOK
<1>2. LinesOK' /\ BuffersOK'
  BY InvParts DEF Switch, LinesOK, BuffersOK
<1>3. SwitchOK'
  BY ScreenTypes DEF Switch, SwitchOK
<1>4. SpoiledOK'
  BY SwitchSpoils DEF Switch
<1> QED BY <1>1, <1>2, <1>3, <1>4, InvAfter

LEMMA AltFnKeeps ==
  ASSUME IInv, NEW t \in Terminals, AltFn(t)
  PROVE  IInv'
<1>1. Switch(t) /\ launched' \subseteq Terminals
  BY InvParts DEF AltFn, SwitchOK
<1>2. helping' \in 0 .. Len(HELPER) + 1
  BY InvParts DEF AltFn, SwitchOK
<1> QED BY <1>1, <1>2, SwitchKeeps

LEMMA AltFnStrandedKeeps ==
  ASSUME IInv, NEW t \in Terminals, AltFnStranded(t)
  PROVE  IInv'
<1>1. Switch(t) /\ launched' \subseteq Terminals
  BY InvParts DEF AltFnStranded, SwitchOK
<1>2. helping' \in 0 .. Len(HELPER) + 1
  BY HelperLength DEF AltFnStranded
<1> QED BY <1>1, <1>2, SwitchKeeps

(* The characters of keyboard_helper.                                       *)
LEMMA HelperChar ==
  ASSUME HelperPrint
  PROVE  HELPER[Len(HELPER) - helping + 1] \in Chars
<1>1. Len(HELPER) - helping + 1 \in 1 .. Len(HELPER)
  BY HelperLength DEF HelperPrint
<1> QED BY <1>1, TextAssumption

LEMMA HelperClearShows ==
  ASSUME IInv, HelperClear, NEW X, Columns(X), Display \in Displays(X, Rows)
  PROVE  Shows(X)
<1>1. Clear(Display) \in Displays(X, Rows)
  BY ClearDraws
<1> QED BY <1>1 DEF HelperClear, Shows

LEMMA HelperPrintShows ==
  ASSUME IInv, HelperPrint, NEW X, Columns(X), Display \in Displays(X, Rows)
  PROVE  Shows(X)
<1>1. PICK c : c = HELPER[Len(HELPER) - helping + 1]
  OBVIOUS
<1>2. TermPutC(Display, c) \in Displays(X, Rows)
  BY <1>1, HelperChar, TermPutCDraws
<1>3. Show(TermPutC(Display, c))
  BY <1>1 DEF HelperPrint
<1> QED BY <1>2, <1>3 DEF Shows

LEMMA HelperClearKeeps ==
  ASSUME IInv, HelperClear
  PROVE  IInv'
<1>1. DisplayOK'
  BY Shown, WideColumns, HelperClearShows, ShowsTypes
<1>2. LinesOK' /\ BuffersOK'
  BY InvParts DEF HelperClear, LinesOK, BuffersOK
<1>3. SwitchOK'
  BY InvParts, HelperLength DEF HelperClear, SwitchOK
<1>4. SpoiledOK'
  BY RecordTypes DEF HelperClear, SpoiledOK
<1> QED BY <1>1, <1>2, <1>3, <1>4, InvAfter

LEMMA HelperPrintKeeps ==
  ASSUME IInv, HelperPrint
  PROVE  IInv'
<1>1. DisplayOK'
  BY Shown, WideColumns, HelperPrintShows, ShowsTypes
<1>2. LinesOK' /\ BuffersOK'
  BY InvParts DEF HelperPrint, LinesOK, BuffersOK
<1>3. SwitchOK'
  BY InvParts, HelperLength DEF HelperPrint, SwitchOK
<1>4. SpoiledOK'
  BY RecordTypes DEF HelperPrint, SpoiledOK
<1> QED BY <1>1, <1>2, <1>3, <1>4, InvAfter

LEMMA StutterKeeps ==
  ASSUME IInv, UNCHANGED vars
  PROVE  IInv'
BY InvParts, InvAfter DEF vars, printer, DisplayOK, LinesOK, BuffersOK,
                          SwitchOK, SpoiledOK

LEMMA NextInv == IInv /\ [Next]_vars => IInv'
<1> SUFFICES ASSUME IInv, [Next]_vars PROVE IInv'
  OBVIOUS
<1>1. CASE \E s \in WRITES : Write(s)
  BY <1>1, WriteKeeps
<1>2. CASE \E c \in KEYS : Key(c)
  BY <1>2, KeyKeeps
<1>3. CASE Backspace
  BY <1>3, BackspaceKeeps
<1>4. CASE Enter
  BY <1>4, EnterKeeps
<1>5. CASE Reset
  BY <1>5, ResetKeeps
<1>6. CASE \E t \in Terminals : AltFn(t)
  BY <1>6, AltFnKeeps
<1>7. CASE \E t \in Terminals : AltFnStranded(t)
  BY <1>7, AltFnStrandedKeeps
<1>8. CASE HelperClear
  BY <1>8, HelperClearKeeps
<1>9. CASE HelperPrint
  BY <1>9, HelperPrintKeeps
<1>10. CASE UNCHANGED vars
  BY <1>10, StutterKeeps
<1> QED BY <1>1, <1>2, <1>3, <1>4, <1>5, <1>6, <1>7, <1>8, <1>9, <1>10 DEF Next

LEMMA Invariance == Spec => []IInv
BY InitInv, NextInv, PTL DEF Spec

(* TypeOK: whatever is written, typed, erased or switched, every cell of    *)
(* the screens holds a character, and the cursor of every terminal is on a  *)
(* row of the screen; nothing drawn leaves the variables' types.            *)
THEOREM TypeCorrect == Spec => []TypeOK
<1>1. IInv => TypeOK
  BY DEF IInv
<1> QED BY <1>1, Invariance, PTL
-----------------------------------------------------------------------------
(* The cursor of the terminal shown.                                        *)
LEMMA ShownStays ==
  ASSUME IInv, Shows(0 .. NUM_COLS - 1)
  PROVE  /\ screen_x'[shown] \in 0 .. NUM_COLS - 1
         /\ screen_y'[shown] \in 0 .. NUM_ROWS - 1
<1>1. PICK d \in Displays(0 .. NUM_COLS - 1, Rows) : Show(d)
  BY DEF Shows
<1>2. d.x \in 0 .. NUM_COLS - 1 /\ d.y \in 0 .. NUM_ROWS - 1
  BY DEF Displays, Rows
<1>3. shown \in DOMAIN screen_x /\ shown \in DOMAIN screen_y
  BY Shown, InvParts DEF DisplayOK
<1> QED BY <1>1, <1>2, <1>3 DEF Show

LEMMA NextCursor ==
  ASSUME IInv, Next, OnScreen(shown),
         ~ (Reset /\ ~ ResetFits),
         ~ (Backspace /\ writeindex[shown] \notin 0 .. NUM_COLS - 1)
  PROVE  /\ screen_x'[shown] \in 0 .. NUM_COLS - 1
         /\ screen_y'[shown] \in 0 .. NUM_ROWS - 1
<1>1. Columns(0 .. NUM_COLS - 1) /\ Display \in Displays(0 .. NUM_COLS - 1, Rows)
  BY WideColumns, Shown
<1>2. ASSUME NEW s \in WRITES, Write(s) PROVE Shows(0 .. NUM_COLS - 1)
  BY <1>1, <1>2, WriteShows
<1>3. ASSUME NEW c \in KEYS, Key(c) PROVE Shows(0 .. NUM_COLS - 1)
  BY <1>1, <1>3, KeyShows
<1>4. CASE Backspace
  <2>1. Shows(0 .. NUM_COLS - 1)
    BY <1>1, <1>4, BackspaceShows
  <2> QED BY <2>1, ShownStays
<1>5. ASSUME Enter PROVE Shows(0 .. NUM_COLS - 1)
  BY <1>1, <1>5, EnterShows
<1>6. ASSUME Reset PROVE Shows(0 .. NUM_COLS - 1)
  BY <1>6, ResetShows
<1>7. ASSUME NEW t \in Terminals, Switch(t)
      PROVE  screen_x' = screen_x /\ screen_y' = screen_y
  BY <1>7 DEF Switch
<1>8. ASSUME NEW t \in Terminals, AltFn(t) \/ AltFnStranded(t) PROVE Switch(t)
  BY <1>8 DEF AltFn, AltFnStranded
<1>9. ASSUME HelperClear PROVE Shows(0 .. NUM_COLS - 1)
  BY <1>1, <1>9, HelperClearShows
<1>10. ASSUME HelperPrint PROVE Shows(0 .. NUM_COLS - 1)
  BY <1>1, <1>10, HelperPrintShows
<1>11. CASE \E t \in Terminals : Switch(t)
  BY <1>7, <1>11 DEF OnScreen
<1> QED BY <1>2, <1>3, <1>4, <1>5, <1>6, <1>8, <1>9, <1>10, <1>11, ShownStays DEF Next

(* CursorStaysOnScreen: the text of the terminal shown is written on its    *)
(* screen, unless a Ctrl+L that does not fit in one row, or a Backspace     *)
(* with a writeindex that is no column, has taken the cursor off it.        *)
THEOREM CursorOnScreen == Spec => CursorStaysOnScreen
<1> DEFINE Step == \A t \in Terminals :
                     t = current_terminal /\ OnScreen(t) /\ ~ OnScreen(t)' =>
                       \/ Reset /\ ~ ResetFits
                       \/ Backspace /\ writeindex[t] \notin 0 .. NUM_COLS - 1
<1>1. IInv /\ [Next]_vars => [Step]_vars
  <2> SUFFICES ASSUME IInv, Next PROVE Step
    OBVIOUS
  <2> SUFFICES ASSUME NEW t \in Terminals, t = current_terminal, OnScreen(t),
                      ~ (Reset /\ ~ ResetFits),
                      ~ (Backspace /\ writeindex[t] \notin 0 .. NUM_COLS - 1)
               PROVE  OnScreen(t)'
    BY Zenon
  <2>1. shown = t
    BY DEF shown
  <2>2. OnScreen(shown)
    BY <2>1
  <2>3. /\ screen_x'[shown] \in 0 .. NUM_COLS - 1
        /\ screen_y'[shown] \in 0 .. NUM_ROWS - 1
    BY <2>1, <2>2, NextCursor
  <2> QED BY <2>1, <2>3 DEF OnScreen
<1> QED BY <1>1, Invariance, PTL DEF Spec, CursorStaysOnScreen
-----------------------------------------------------------------------------
(* What terminal t has on its screen, its cursor and its line.              *)
Kept(t) ==
  /\ \A a \in ScreenCells : Screen(t)'[a] = Screen(t)[a]
  /\ screen_x'[t] = screen_x[t] /\ screen_y'[t] = screen_y[t]
  /\ line'[t] = line[t]

(* Drawing changes nothing of the other terminals.                          *)
LEMMA DrawingApart ==
  ASSUME IInv, NEW t \in Terminals, t # shown,
         current_terminal' = current_terminal, b_buf' = b_buf,
         NEW d, Show(d), NEW l, line' = [line EXCEPT ![shown] = l] \/ line' = line
  PROVE  Kept(t)
<1>1. t # current_terminal /\ t # current_terminal'
  BY DEF shown
<1>2. \A a \in ScreenCells :
        Screen(t)[a] = b_buf[t][a] /\ Screen(t)'[a] = b_buf'[t][a]
  BY <1>1 DEF Screen
<1>3. t \in DOMAIN screen_x /\ t \in DOMAIN screen_y
  BY InvParts DEF DisplayOK
<1>4. screen_x'[t] = screen_x[t] /\ screen_y'[t] = screen_y[t]
  BY <1>3 DEF Show
<1>5. line'[t] = line[t]
  <2>1. t \in DOMAIN line
    BY InvParts DEF LinesOK
  <2> QED BY <2>1
<1> QED BY <1>2, <1>4, <1>5 DEF Kept

LEMMA DrawingKeeps ==
  ASSUME IInv, NEW t \in Terminals, t # shown,
         \/ \E s \in WRITES : Write(s)
         \/ \E c \in KEYS : Key(c)
         \/ Backspace
         \/ Enter
         \/ Reset
         \/ HelperClear
         \/ HelperPrint
  PROVE  Kept(t)
<1>1. ASSUME NEW s \in WRITES, Write(s) PROVE Kept(t)
  <2>1. /\ current_terminal' = current_terminal /\ b_buf' = b_buf /\ line' = line
        /\ Show(Writes(Display, s))
    BY <1>1, Zenon DEF Write, Writes, WriteStep
  <2> QED BY <2>1, DrawingApart
<1>2. ASSUME NEW c \in KEYS, Key(c) PROVE Kept(t)
  <2>1. /\ current_terminal' = current_terminal /\ b_buf' = b_buf
        /\ line' = [line EXCEPT ![shown] = Append(line[shown], c)]
    BY <1>2 DEF Key
  <2>2. PICK d : Show(d)
    BY <1>2, Zenon DEF Key
  <2> QED BY <2>1, <2>2, DrawingApart
<1>3. ASSUME Backspace PROVE Kept(t)
  <2>1. PICK l : l = IF line[shown] = <<>> THEN <<>> ELSE Front(line[shown])
    OBVIOUS
  <2>2. /\ current_terminal' = current_terminal /\ b_buf' = b_buf
        /\ line' = [line EXCEPT ![shown] = l]
    BY <1>3, <2>1 DEF Backspace
  <2>3. PICK d : Show(d)
    BY <1>3, Zenon DEF Backspace
  <2> QED BY <2>2, <2>3, DrawingApart
<1>4. ASSUME Enter PROVE Kept(t)
  <2>1. /\ current_terminal' = current_terminal /\ b_buf' = b_buf
        /\ line' = [line EXCEPT ![shown] = <<>>]
    BY <1>4 DEF Enter
  <2>2. PICK d : Show(d)
    BY <1>4, Zenon DEF Enter
  <2> QED BY <2>1, <2>2, DrawingApart
<1>5. ASSUME Reset PROVE Kept(t)
  <2>1. current_terminal' = current_terminal /\ b_buf' = b_buf /\ line' = line
    BY <1>5 DEF Reset
  <2>2. PICK d : Show(d)
    BY <1>5, Zenon DEF Reset
  <2> QED BY <2>1, <2>2, DrawingApart
<1>6. ASSUME HelperClear PROVE Kept(t)
  <2>1. /\ current_terminal' = current_terminal /\ b_buf' = b_buf /\ line' = line
        /\ Show(Clear(Display))
    BY <1>6 DEF HelperClear
  <2> QED BY <2>1, DrawingApart
<1>7. ASSUME HelperPrint PROVE Kept(t)
  <2>1. current_terminal' = current_terminal /\ b_buf' = b_buf /\ line' = line
    BY <1>7 DEF HelperPrint
  <2>2. PICK d : Show(d)
    BY <1>7, Zenon DEF HelperPrint
  <2> QED BY <2>1, <2>2, DrawingApart
<1> QED BY <1>1, <1>2, <1>3, <1>4, <1>5, <1>6, <1>7

(* A switch from the terminal shown to u: the screen that goes is saved,    *)
(* the one that comes is what was saved of it.                              *)
LEMMA SavedApart ==
  ASSUME IInv, NEW u \in Terminals, u # shown, NEW t \in Terminals, t # u,
         current_terminal' = u, b_buf' = SavedScreens(u)
  PROVE  \A a \in ScreenCells : Screen(t)'[a] = Screen(t)[a]
<1>1. b_buf \in [Terminals -> [SavedCells -> Chars]]
  BY InvParts DEF SwitchOK
<1>2. PICK m : m = [a \in SavedCells |-> video_mem[a]]
  OBVIOUS
<1>3. PICK z : z = [a \in SavedCells |-> Blank]
  OBVIOUS
<1>4. b_buf' = [b_buf EXCEPT ![shown] = m, ![u] = z]
  BY <1>2, <1>3 DEF SavedScreens
<1>5. b_buf'[t] = IF t = shown THEN m ELSE b_buf[t]
  BY <1>1, <1>4
<1>6. \A a \in ScreenCells : Screen(t)'[a] = b_buf'[t][a]
  BY DEF Screen
<1>7. \A a \in ScreenCells :
        Screen(t)[a] = IF t = shown THEN video_mem[a] ELSE b_buf[t][a]
  BY DEF Screen, shown
<1>8. \A a \in ScreenCells : m[a] = video_mem[a]
  BY <1>2, Memory
<1> QED BY <1>5, <1>6, <1>7, <1>8

LEMMA SwitchApart ==
  ASSUME IInv, NEW u \in Terminals, Switch(u), NEW t \in Terminals
  PROVE  Kept(t)
<1>1. /\ u # shown /\ current_terminal' = u /\ b_buf' = SavedScreens(u)
      /\ video_mem' = LoadedScreen(u)
      /\ screen_x' = screen_x /\ screen_y' = screen_y /\ line' = line
  BY DEF Switch, shown
<1>2. CASE t = u
  <2>1. \A a \in ScreenCells : Screen(t)'[a] = video_mem'[a]
    BY <1>1, <1>2 DEF Screen
  <2>2. \A a \in ScreenCells : video_mem'[a] = b_buf[u][a]
    BY <1>1, Memory DEF LoadedScreen
  <2>3. \A a \in ScreenCells : Screen(t)[a] = b_buf[u][a]
    BY <1>1, <1>2 DEF Screen, shown
  <2> QED BY <1>1, <2>1, <2>2, <2>3 DEF Kept
<1>3. CASE t # u
  BY <1>1, <1>3, SavedApart DEF Kept
<1> QED BY <1>2, <1>3

(* ScreensApart: what is drawn changes the terminal on the screen only, and *)
(* a switch changes neither what the two terminals show nor their cursors   *)
(* and lines.                                                               *)
THEOREM SeparateScreens == Spec => ScreensApart
<1> DEFINE Moves(t) == t # current_terminal \/ t # current_terminal'
           Same(t) == /\ Screen(t)' = Screen(t)
                      /\ <<screen_x[t], screen_y[t], line[t]>>' =
                           <<screen_x[t], screen_y[t], line[t]>>
<1>1. ASSUME IInv, Next, NEW t \in Terminals, Moves(t) PROVE Kept(t)
  <2>1. CASE \E u \in Terminals : AltFn(u) \/ AltFnStranded(u)
    <3>1. PICK u \in Terminals : Switch(u)
      BY <2>1 DEF AltFn, AltFnStranded
    <3> QED BY <1>1, <3>1, SwitchApart
  <2>2. CASE \/ \E s \in WRITES : Write(s)
             \/ \E c \in KEYS : Key(c)
             \/ Backspace
             \/ Enter
             \/ Reset
             \/ HelperClear
             \/ HelperPrint
    <3>1. current_terminal' = current_terminal
      BY <2>2, Zenon DEF Write, Key, Backspace, Enter, Reset, HelperClear, HelperPrint
    <3>2. t # shown
      BY <1>1, <3>1 DEF shown
    <3> QED BY <1>1, <2>2, <3>2, DrawingKeeps
  <2> QED BY <1>1, <2>1, <2>2 DEF Next
<1>2. ASSUME NEW t \in Terminals, Kept(t) PROVE Same(t)
  <2>1. Screen(t)' = Screen(t)
    <3>1. \A a \in ScreenCells : Screen(t)'[a] = Screen(t)[a]
      BY <1>2 DEF Kept
    <3> QED BY <3>1 DEF Screen
  <2> QED BY <1>2, <2>1 DEF Kept
<1>3. IInv /\ [Next]_vars => [\A t \in Terminals : Moves(t) => Same(t)]_vars
  BY <1>1, <1>2
<1> QED BY <1>3, Invariance, PTL DEF Spec, ScreensApart
-----------------------------------------------------------------------------
(* What the screen shows is the text.  Video memory by rows: row NUM_ROWS   *)
(* lies behind the screen.                                                  *)
Cols == 0 .. NUM_COLS - 1

Cell(b, a) == NUM_COLS * a + b

LEMMA Product ==
  ASSUME NEW n \in Nat, NEW i \in Nat, NEW j \in Nat, i < j
  PROVE  n * i + n <= n * j
<1>1. PICK k \in Nat : j = i + 1 + k
  <2>1. j - (i + 1) \in Nat /\ j = i + 1 + (j - (i + 1))
    OBVIOUS
  <2> QED BY <2>1
<1>2. n * k \in Nat /\ n * i \in Nat
  OBVIOUS
<1>3. n * j = n * i + n + n * k
  BY <1>1
<1> QED BY <1>2, <1>3

(* No two columns and rows share a cell.                                    *)
LEMMA CellApart ==
  ASSUME NEW b \in Cols, NEW a \in Nat, NEW f \in Cols, NEW e \in Nat,
         Cell(b, a) = Cell(f, e)
  PROVE  b = f /\ a = e
<1>0. NUM_COLS \in Nat /\ NUM_COLS # 0
  BY ScreenAssumption
<1>1. PICK m \in Nat : m = NUM_COLS * a
  BY <1>0
<1>2. PICK n \in Nat : n = NUM_COLS * e
  BY <1>0
<1>3. m + b = n + f
  BY <1>1, <1>2 DEF Cell
<1>4. b \in 0 .. NUM_COLS - 1 /\ f \in 0 .. NUM_COLS - 1
  BY DEF Cols
<1>5. CASE a < e
  <2>1. m + NUM_COLS <= n
    BY <1>0, <1>1, <1>2, <1>5, Product
  <2> QED BY <1>0, <1>3, <1>4, <2>1
<1>6. CASE e < a
  <2>1. n + NUM_COLS <= m
    BY <1>0, <1>1, <1>2, <1>6, Product
  <2> QED BY <1>0, <1>3, <1>4, <2>1
<1>7. CASE a = e
  BY <1>1, <1>2, <1>3, <1>4, <1>7, <1>0
<1> QED BY <1>5, <1>6, <1>7

(* The rows of the screen are its cells, and the row behind it the others.  *)
LEMMA CellIn ==
  ASSUME NEW b \in Cols, NEW a \in 0 .. NUM_ROWS
  PROVE  /\ Cell(b, a) \in Cells
         /\ a \in Rows <=> Cell(b, a) \in ScreenCells
         /\ a \in Rows => Cell(b, a + 1) = Cell(b, a) + NUM_COLS
<1>0. /\ NUM_COLS \in Nat /\ NUM_COLS # 0 /\ NUM_ROWS \in Nat /\ a \in Nat
      /\ b \in Nat /\ b < NUM_COLS /\ a <= NUM_ROWS
  BY ScreenAssumption DEF Cols
<1>1. PICK m \in Nat : m = NUM_COLS * a
  BY <1>0
<1>2. PICK n \in Nat : n = NUM_COLS * NUM_ROWS
  BY <1>0
<1>3. Cells = 0 .. n + NUM_COLS - 1 /\ ScreenCells = 0 .. n - 1
  <2>1. NUM_COLS * (NUM_ROWS + 1) = n + NUM_COLS
    BY <1>0, <1>2
  <2> QED BY <1>0, <1>2, <2>1 DEF Cells, ScreenCells
<1>4. Cell(b, a) = m + b
  BY <1>1 DEF Cell
<1>5. a < NUM_ROWS => m + NUM_COLS <= n
  BY <1>0, <1>1, <1>2, Product
<1>6. a = NUM_ROWS => m = n
  BY <1>1, <1>2
<1>7. a \in Rows <=> a < NUM_ROWS
  BY <1>0 DEF Rows
<1>8. Cell(b, a + 1) = Cell(b, a) + NUM_COLS
  <2>1. NUM_COLS * (a + 1) = m + NUM_COLS
    BY <1>0, <1>1
  <2> QED BY <1>0, <1>1, <1>4, <2>1 DEF Cell
<1> QED BY <1>0, <1>3, <1>4, <1>5, <1>6, <1>7, <1>8

(* The text behind the last row.                                            *)
Behind(mem) == \A b \in Cols : mem[Cell(b, NUM_ROWS)] = Blank

LEMMA TidyBehind == Tidy <=> Behind(video_mem)
<1>0. NUM_COLS \in Nat /\ NUM_COLS # 0 /\ NUM_ROWS \in Nat
  BY ScreenAssumption
<1>1. PICK n \in Nat : n = NUM_COLS * NUM_ROWS
  BY <1>0
<1>2. Cells = 0 .. n + NUM_COLS - 1 /\ ScreenCells = 0 .. n - 1
  <2>1. NUM_COLS * (NUM_ROWS + 1) = n + NUM_COLS
    BY <1>0, <1>1
  <2> QED BY <1>0, <1>1, <2>1 DEF Cells, ScreenCells
<1>3. ASSUME NEW a \in Cells \ ScreenCells
      PROVE  \E b \in Cols : a = Cell(b, NUM_ROWS)
  <2>1. a - n \in Cols /\ a = n + (a - n)
    BY <1>0, <1>2 DEF Cols
  <2> QED BY <1>1, <2>1 DEF Cell
<1>4. ASSUME NEW b \in Cols
      PROVE  Cell(b, NUM_ROWS) \in Cells \ ScreenCells
  BY <1>0, <1>1, <1>2 DEF Cell, Cols
<1> QED BY <1>3, <1>4 DEF Tidy, Behind

(* The drawing routines, cell by cell.                                      *)
LEMMA GridColumns == Columns(Cols)
BY WideColumns DEF Cols

LEMMA OnGrid ==
  ASSUME NEW d \in Displays(Cols, Rows)
  PROVE  /\ d.x \in Cols /\ d.y \in Rows /\ d.y \in Nat /\ d.y \in 0 .. NUM_ROWS
         /\ d.x \in Nat /\ d \in Displays(Cols, Nat) /\ d.mem \in [Cells -> Chars]
BY ScreenAssumption DEF Displays, Cols, Rows

LEMMA PutCell ==
  ASSUME NEW d \in Displays(Cols, Rows), NEW c,
         NEW b \in Cols, NEW a \in 0 .. NUM_ROWS
  PROVE  Put(d, c).mem[Cell(b, a)] =
           IF b = d.x /\ a = d.y THEN c ELSE d.mem[Cell(b, a)]
<1>0. Cell(b, a) \in Cells /\ a \in Nat
  BY CellIn, ScreenAssumption
<1>1. Put(d, c).mem = [q \in Cells |-> IF q = NUM_COLS * d.y + d.x
                                       THEN c ELSE d.mem[q]]
  BY DEF Put, Displays
<1>2. Put(d, c).mem[Cell(b, a)] =
        IF Cell(b, a) = Cell(d.x, d.y) THEN c ELSE d.mem[Cell(b, a)]
  BY <1>0, <1>1 DEF Cell
<1>3. Cell(b, a) = Cell(d.x, d.y) => b = d.x /\ a = d.y
  BY <1>0, CellApart, OnGrid
<1> QED BY <1>2, <1>3

LEMMA NextCol ==
  ASSUME NEW x \in Cols
  PROVE  NextColumn(x) = (IF x + 1 = NUM_COLS THEN 0 ELSE x + 1)
         /\ NextColumn(x) \in Cols
<1>1. NUM_COLS \in Nat /\ NUM_COLS # 0 /\ x \in Nat /\ x + 1 <= NUM_COLS
  BY ScreenAssumption DEF Cols
<1>2. x + 1 = NUM_COLS => (x + 1) % NUM_COLS = 0
  BY <1>1
<1>3. x + 1 < NUM_COLS => (x + 1) % NUM_COLS = x + 1
  BY <1>1
<1> QED BY <1>1, <1>2, <1>3 DEF NextColumn, Cols

LEMMA PutCGrid ==
  ASSUME NEW d \in Displays(Cols, Rows), NEW c \in Chars, c # Newline
  PROVE  /\ PutC(d, c) \in Displays(Cols, Rows)
         /\ PutC(d, c).x = (IF d.x + 1 = NUM_COLS THEN 0 ELSE d.x + 1)
         /\ PutC(d, c).y = d.y
         /\ PutC(d, c).mem = Put(d, c).mem
<1>1. /\ PutC(d, c) \in Displays(Cols, Rows)
      /\ PutC(d, c).x = NextColumn(d.x)
      /\ PutC(d, c).y = d.y
  BY OnGrid, PutCDraws, GridColumns
<1>2. PutC(d, c).mem = Put(d, c).mem
  <2>1. Put(d, c) \in Displays(Cols, Rows)
    BY PutDraws
  <2>2. PutC(d, c) = [Put(d, c) EXCEPT !.x = NextColumn(@), !.y = @ % NUM_ROWS]
    BY DEF PutC
  <2> QED BY <2>1, <2>2 DEF Displays
<1> QED BY <1>1, <1>2, NextCol, OnGrid

LEMMA MoveGrid ==
  ASSUME NEW d \in Displays(Cols, Rows), NEW x \in Cols, NEW y \in Rows
  PROVE  /\ SetCoords(d, x, y) \in Displays(Cols, Rows)
         /\ SetCoords(d, x, y).x = x /\ SetCoords(d, x, y).y = y
         /\ SetCoords(d, x, y).mem = d.mem
<1>1. y \in Nat /\ y < NUM_ROWS /\ NUM_ROWS \in Nat
  BY ScreenAssumption DEF Rows
<1>2. SetCoords(d, x, y) = [d EXCEPT !.x = x, !.y = y]
  BY <1>1 DEF SetCoords
<1> QED BY <1>2 DEF Displays

LEMMA ScrollGrid ==
  ASSUME NEW d \in Displays(Cols, Rows), NEW x
  PROVE  /\ SetCoords(d, x, NUM_ROWS) \in Displays(Cols, Rows)
         /\ SetCoords(d, x, NUM_ROWS).x = 0
         /\ SetCoords(d, x, NUM_ROWS).y = NUM_ROWS - 1
         /\ 0 \in Cols /\ NUM_ROWS - 1 \in Rows
<1>1. SetCoords(d, x, NUM_ROWS) = Scroll(d)
  BY ScreenAssumption DEF SetCoords
<1>2. Scroll(d) \in Displays(Cols, Rows) /\ Scroll(d).y = NUM_ROWS - 1
  BY ScrollDraws, GridColumns
<1>3. Scroll(d).x = 0
  BY DEF Scroll
<1> QED BY <1>1, <1>2, <1>3, ScreenAssumption DEF Cols, Rows

LEMMA ScrollCell ==
  ASSUME NEW d \in Displays(Cols, Rows), NEW x,
         NEW b \in Cols, NEW a \in 0 .. NUM_ROWS
  PROVE  SetCoords(d, x, NUM_ROWS).mem[Cell(b, a)] =
           IF a \in Rows THEN d.mem[Cell(b, a + 1)] ELSE d.mem[Cell(b, a)]
<1>1. SetCoords(d, x, NUM_ROWS) = Scroll(d)
  BY ScreenAssumption DEF SetCoords
<1>2. Scroll(d).mem = [q \in Cells |-> IF q \in ScreenCells THEN d.mem[q + NUM_COLS]
                                                            ELSE d.mem[q]]
  BY DEF Scroll
<1>3. PICK q : q = Cell(b, a)
  OBVIOUS
<1>4. /\ q \in Cells
      /\ a \in Rows <=> q \in ScreenCells
      /\ a \in Rows => Cell(b, a + 1) = q + NUM_COLS
  BY <1>3, CellIn
<1> QED BY <1>1, <1>2, <1>3, <1>4

LEMMA ClearLineCell ==
  ASSUME NEW d \in Displays(Cols, Rows), NEW x \in Cols, NEW y \in Nat,
         NEW b \in Cols, NEW a \in 0 .. NUM_ROWS
  PROVE  /\ ClearLine(d, x, y).x = d.x /\ ClearLine(d, x, y).y = d.y
         /\ ClearLine(d, x, y).mem[Cell(b, a)] =
              IF (a = y /\ b >= x) \/ (a = y + 1 /\ b < x)
              THEN Blank ELSE d.mem[Cell(b, a)]
<1>0. /\ NUM_COLS \in Nat /\ NUM_COLS # 0 /\ a \in Nat /\ b \in Nat /\ x \in Nat
      /\ b < NUM_COLS /\ x < NUM_COLS
  BY ScreenAssumption DEF Cols
<1>1. PICK m \in Nat : m = NUM_COLS * y
  BY <1>0
<1>2. PICK n \in Nat : n = NUM_COLS * a
  BY <1>0
<1>3. PICK q : q = Cell(b, a)
  OBVIOUS
<1>4. q \in Cells /\ q = n + b
  BY <1>2, <1>3, CellIn DEF Cell
<1>5. /\ ClearLine(d, x, y).x = d.x /\ ClearLine(d, x, y).y = d.y
      /\ ClearLine(d, x, y).mem[q] =
           IF q \in m + x .. m + x + NUM_COLS - 1 THEN Blank ELSE d.mem[q]
  BY <1>1, <1>4 DEF ClearLine, Displays
<1>6. q \in m + x .. m + x + NUM_COLS - 1
        <=> (a = y /\ b >= x) \/ (a = y + 1 /\ b < x)
  <2>1. CASE a = y
    BY <1>0, <1>1, <1>2, <1>4, <2>1
  <2>2. CASE a = y + 1
    <3>1. n = m + NUM_COLS
      BY <1>0, <1>1, <1>2, <2>2
    <3> QED BY <1>0, <1>4, <2>2, <3>1
  <2>3. CASE a < y
    <3>1. n + NUM_COLS <= m
      BY <1>0, <1>1, <1>2, <2>3, Product
    <3> QED BY <1>0, <1>4, <2>3, <3>1
  <2>4. CASE a > y + 1
    <3>1. PICK k \in Nat : k = NUM_COLS * (y + 1)
      BY <1>0
    <3>2. k = m + NUM_COLS
      BY <1>0, <1>1, <3>1
    <3>3. k + NUM_COLS <= n
      BY <1>0, <1>2, <2>4, <3>1, Product
    <3> QED BY <1>0, <1>4, <2>4, <3>2, <3>3
  <2> QED BY <1>0, <2>1, <2>2, <2>3, <2>4
<1> QED BY <1>3, <1>5, <1>6

LEMMA ClearCell ==
  ASSUME NEW X, NEW Y, NEW d \in Displays(X, Y), NEW b \in Cols, NEW a \in Rows
  PROVE  Clear(d).mem[Cell(b, a)] = Blank
<1>1. a \in 0 .. NUM_ROWS
  BY ScreenAssumption DEF Rows
<1>2. Cell(b, a) \in Cells /\ Cell(b, a) \in ScreenCells
  BY <1>1, CellIn
<1> QED BY <1>2 DEF Clear, Displays
-----------------------------------------------------------------------------
(* The paper: what is printed in column b of row a, and that nothing is     *)
(* printed behind the place the next character goes to.                     *)
Ink(r, a, b) == IF <<a, b>> \in DOMAIN r.text THEN r.text[<<a, b>>] ELSE Blank

Texts == UNION {[S -> Chars] : S \in SUBSET (Nat \X Cols)}

Papers == {r \in [text : Texts, row : Nat, col : Cols] :
             \A a \in Nat : \A b \in Cols :
               (a > r.row \/ (a = r.row /\ b >= r.col)) => <<a, b>> \notin DOMAIN r.text}

LEMMA PaperType ==
  ASSUME NEW r \in Papers
  PROVE  /\ r.row \in Nat /\ r.col \in Cols /\ r.col \in Nat /\ r.col < NUM_COLS
         /\ r.text \in Texts
BY ScreenAssumption DEF Papers, Cols

(* Nothing is printed there yet.                                            *)
LEMMA Ahead ==
  ASSUME NEW r \in Papers, NEW a \in Nat, NEW b \in Cols,
         a > r.row \/ (a = r.row /\ b >= r.col)
  PROVE  Ink(r, a, b) = Blank
BY DEF Papers, Ink

LEMMA OnPaperStays ==
  ASSUME NEW r \in Papers, NEW c \in Chars
  PROVE  /\ OnPaper(r, c) \in Papers
         /\ c = Newline => /\ OnPaper(r, c).row = r.row + 1
                           /\ OnPaper(r, c).col = 0
         /\ c # Newline => /\ OnPaper(r, c).row = (IF r.col + 1 = NUM_COLS
                                                   THEN r.row + 1 ELSE r.row)
                           /\ OnPaper(r, c).col = (IF r.col + 1 = NUM_COLS
                                                   THEN 0 ELSE r.col + 1)
<1>1. /\ r \in [text : Texts, row : Nat, col : Cols]
      /\ r.row \in Nat /\ r.col \in Cols /\ r.col \in Nat /\ r.col < NUM_COLS
      /\ 0 \in Cols /\ NUM_COLS \in Nat
  BY PaperType, ScreenAssumption DEF Papers, Cols
<1>2. CASE c = Newline
  <2>1. OnPaper(r, c) = [r EXCEPT !.row = r.row + 1, !.col = 0]
    BY <1>1, <1>2 DEF OnPaper
  <2>2. PICK p : p = OnPaper(r, c)
    OBVIOUS
  <2>3. /\ p \in [text : Texts, row : Nat, col : Cols]
        /\ p.text = r.text /\ p.row = r.row + 1 /\ p.col = 0
    <3>1. r.row + 1 \in Nat
      BY <1>1
    <3>2. p \in [text : Texts, row : Nat, col : Cols]
      BY <1>1, <2>1, <2>2, <3>1
    <3>3. p.text = r.text /\ p.row = r.row + 1 /\ p.col = 0
      BY <1>1, <2>1, <2>2
    <3> QED BY <3>2, <3>3
  <2>4. \A a \in Nat : \A b \in Cols :
          (a > p.row \/ (a = p.row /\ b >= p.col)) => <<a, b>> \notin DOMAIN p.text
    <3> SUFFICES ASSUME NEW a \in Nat, NEW b \in Cols,
                        a > p.row \/ (a = p.row /\ b >= p.col)
                 PROVE  <<a, b>> \notin DOMAIN p.text
      OBVIOUS
    <3>1. a > r.row
      BY <1>1, <2>3
    <3> QED BY <2>3, <3>1 DEF Papers
  <2> QED BY <1>2, <2>2, <2>3, <2>4 DEF Papers
<1>3. CASE c # Newline
  <2>1. PICK x : x = <<r.row, r.col>>
    OBVIOUS
  <2>2. PICK f : f = [q \in DOMAIN r.text \cup {x} |-> IF q = x THEN c ELSE r.text[q]]
    OBVIOUS
  <2>3. f \in Texts
    <3>1. PICK S \in SUBSET (Nat \X Cols) : r.text \in [S -> Chars]
      BY PaperType DEF Texts
    <3>2. S \cup {x} \in SUBSET (Nat \X Cols)
      BY <1>1, <2>1
    <3>3. f \in [S \cup {x} -> Chars]
      BY <2>2, <3>1
    <3> QED BY <3>2, <3>3 DEF Texts
  <2>4. OnPaper(r, c) =
          [text |-> f,
           row  |-> IF r.col + 1 = NUM_COLS THEN r.row + 1 ELSE r.row,
           col  |-> IF r.col + 1 = NUM_COLS THEN 0 ELSE r.col + 1]
    BY <1>3, <2>1, <2>2 DEF OnPaper
  <2>5. PICK p : p = OnPaper(r, c)
    OBVIOUS
  <2>6. /\ p.text = f
        /\ p.row = (IF r.col + 1 = NUM_COLS THEN r.row + 1 ELSE r.row)
        /\ p.col = (IF r.col + 1 = NUM_COLS THEN 0 ELSE r.col + 1)
    BY <2>4, <2>5
  <2>7. p.row \in Nat /\ p.col \in Cols
    BY <1>1, <2>6 DEF Cols
  <2>8. p \in [text : Texts, row : Nat, col : Cols]
    BY <2>3, <2>4, <2>5, <2>6, <2>7
  <2>9. \A a \in Nat : \A b \in Cols :
          (a > p.row \/ (a = p.row /\ b >= p.col)) => <<a, b>> \notin DOMAIN p.text
    <3> SUFFICES ASSUME NEW a \in Nat, NEW b \in Cols,
                        a > p.row \/ (a = p.row /\ b >= p.col)
                 PROVE  <<a, b>> \notin DOMAIN p.text
      OBVIOUS
    <3>0. b \in Nat
      BY DEF Cols
    <3>1. a > r.row \/ (a = r.row /\ b > r.col)
      BY <1>1, <2>6, <3>0
    <3>2. <<a, b>> # x
      BY <1>1, <2>1, <3>0, <3>1
    <3>3. <<a, b>> \notin DOMAIN r.text
      BY <1>1, <3>0, <3>1 DEF Papers
    <3> QED BY <2>2, <2>6, <3>2, <3>3
  <2> QED BY <1>3, <2>5, <2>6, <2>8, <2>9 DEF Papers
<1> QED BY <1>2, <1>3

LEMMA OnPaperInk ==
  ASSUME NEW r \in Papers, NEW c \in Chars, NEW a \in Nat, NEW b \in Cols
  PROVE  Ink(OnPaper(r, c), a, b) =
           IF c # Newline /\ a = r.row /\ b = r.col THEN c ELSE Ink(r, a, b)
<1>1. CASE c = Newline
  <2>1. OnPaper(r, c).text = r.text
    BY <1>1 DEF OnPaper, Papers
  <2> QED BY <1>1, <2>1 DEF Ink
<1>2. CASE c # Newline
  <2>1. OnPaper(r, c).text =
          [q \in DOMAIN r.text \cup {<<r.row, r.col>>} |->
             IF q = <<r.row, r.col>> THEN c ELSE r.text[q]]
    BY <1>2 DEF OnPaper
  <2>2. <<a, b>> = <<r.row, r.col>> <=> a = r.row /\ b = r.col
    OBVIOUS
  <2> QED BY <1>2, <2>1, <2>2 DEF Ink
<1> QED BY <1>1, <1>2

(* Paper without text.                                                      *)
Unused == [text |-> <<>>, row |-> 0, col |-> 0]

LEMMA UnusedPaper ==
  /\ Unused \in Papers /\ Unused.row = 0 /\ Unused.col = 0
  /\ \A a, b : Ink(Unused, a, b) = Blank
<1>1. 0 \in Cols
  BY ScreenAssumption DEF Cols
<1>2. DOMAIN Unused.text = {}
  BY DEF Unused
<1>3. Unused.text \in [{} -> Chars]
  BY <1>2 DEF Unused
<1>4. Unused.text \in Texts
  BY <1>3 DEF Texts
<1>5. Unused \in [text : Texts, row : Nat, col : Cols]
  BY <1>1, <1>4 DEF Unused
<1> QED BY <1>2, <1>5 DEF Unused, Papers, Ink

(* A text is printed character by character.                                *)
Prints(r, s) == FoldLeft(OnPaper, r, s)

PrintsSteps(D, n, s) == [k \in 1 .. n |-> [e \in D |-> OnPaper(e, s[k])]]

LEMMA PrintsRuns ==
  ASSUME NEW D, NEW n \in Nat, NEW s, DOMAIN s = 1 .. n, NEW d \in D,
         PrintsSteps(D, n, s) \in [1 .. n -> [D -> D]]
  PROVE  Ends(Prints(d, s), n, D, d, PrintsSteps(D, n, s))
<1> DEFINE IsIt(it) == it = [S \in SUBSET (1 .. n) |->
                               IF S = {} THEN d
                               ELSE OnPaper(it[S \ {Max(S)}], s[Max(S)])]
<1>1. Prints(d, s) = (CHOOSE it : IsIt(it))[1 .. n]
  BY Zenon DEF Prints, FoldLeft, MapThenFoldSet
<1>2. PICK F : F = PrintsSteps(D, n, s)
  OBVIOUS
<1>3. F \in [1 .. n -> [D -> D]]
  BY <1>2
<1>4. \A k \in 1 .. n : \A e \in D : F[k][e] = OnPaper(e, s[k])
  BY <1>2 DEF PrintsSteps
<1>5. PICK u \in [SUBSET (1 .. n) -> D] : Folds(u, n, d, F)
  BY <1>3, FoldExists
<1>6. IsIt(u)
  <2>1. ASSUME NEW S \in SUBSET (1 .. n)
        PROVE  u[S] = IF S = {} THEN d
                      ELSE OnPaper(u[S \ {Max(S)}], s[Max(S)])
    <3>1. u[S] = IF S = {} THEN d ELSE F[Max(S)][u[S \ {Max(S)}]]
      BY <1>5 DEF Folds
    <3>2. S # {} => Max(S) \in 1 .. n /\ u[S \ {Max(S)}] \in D
      BY MaxIndex
    <3> QED BY <1>4, <3>1, <3>2
  <2>2. u = [S \in SUBSET (1 .. n) |-> u[S]]
    OBVIOUS
  <2> QED BY <2>1, <2>2
<1>7. PICK it : IsIt(it) /\ Prints(d, s) = it[1 .. n]
  BY <1>1, <1>6, Zenon
<1>8. it[{}] = d
  BY <1>7
<1>9. ASSUME NEW S \in SUBSET (1 .. n), S # {}, it[S \ {Max(S)}] \in D
      PROVE  it[S] = F[Max(S)][it[S \ {Max(S)}]]
  <2>1. Max(S) \in 1 .. n
    BY <1>9, MaxIndex
  <2>2. it[S] = OnPaper(it[S \ {Max(S)}], s[Max(S)])
    BY <1>7, <1>9, <2>1
  <2> QED BY <1>4, <1>9, <2>1, <2>2
<1>10. Unfolds(it, n, D, d, F)
  BY <1>3, <1>8, <1>9 DEF Unfolds
<1> QED BY <1>2, <1>7, <1>10, FoldRuns

PaperRun(g, r, s) ==
  /\ g \in [0 .. Len(s) -> Papers]
  /\ g[0] = r
  /\ \A k \in 1 .. Len(s) : g[k] = OnPaper(g[k - 1], s[k])

LEMMA PaperRunExists ==
  ASSUME NEW r \in Papers, NEW s \in Seq(Chars)
  PROVE  \E g : PaperRun(g, r, s) /\ Prints(r, s) = g[Len(s)]
<1>1. PICK n : n = Len(s)
  OBVIOUS
<1>2. n \in Nat /\ DOMAIN s = 1 .. n /\ \A k \in 1 .. n : s[k] \in Chars
  BY <1>1
<1>3. \A e \in Papers : \A k \in 1 .. n : OnPaper(e, s[k]) \in Papers
  BY <1>2, OnPaperStays
<1>4. PrintsSteps(Papers, n, s) \in [1 .. n -> [Papers -> Papers]]
  BY <1>3 DEF PrintsSteps
<1>5. Ends(Prints(r, s), n, Papers, r, PrintsSteps(Papers, n, s))
  BY <1>2, <1>4, PrintsRuns
<1>6. PICK g \in [0 .. n -> Papers] :
        Runs(g, n, r, PrintsSteps(Papers, n, s)) /\ Prints(r, s) = g[n]
  BY <1>5 DEF Ends
<1>7. ASSUME NEW k \in 1 .. n PROVE g[k] = OnPaper(g[k - 1], s[k])
  <2>1. g[k] = PrintsSteps(Papers, n, s)[k][g[k - 1]]
    BY <1>6 DEF Runs
  <2>2. g[k - 1] \in Papers
    BY <1>2, <1>6
  <2> QED BY <2>1, <2>2 DEF PrintsSteps
<1>8. PaperRun(g, r, s)
  BY <1>1, <1>6, <1>7 DEF PaperRun, Runs
<1> QED BY <1>1, <1>6, <1>8

LEMMA PaperRunEnds ==
  ASSUME NEW r \in Papers, NEW s \in Seq(Chars), NEW g, PaperRun(g, r, s)
  PROVE  Prints(r, s) = g[Len(s)] /\ Prints(r, s) \in Papers
<1>1. PICK h : PaperRun(h, r, s) /\ Prints(r, s) = h[Len(s)]
  BY PaperRunExists
<1>2. PICK n \in Nat : n = Len(s)
  OBVIOUS
<1>3. PICK G : G = [k \in 0 .. n |-> {h[k]}]
  OBVIOUS
<1>4. g[0] \in G[0]
  BY <1>1, <1>2, <1>3 DEF PaperRun
<1>5. ASSUME NEW k \in 1 .. n, g[k - 1] \in G[k - 1] PROVE g[k] \in G[k]
  <2>1. k - 1 \in 0 .. n /\ k \in 0 .. n
    BY <1>2
  <2>2. g[k - 1] = h[k - 1]
    BY <1>3, <1>5, <2>1
  <2>3. g[k] = OnPaper(g[k - 1], s[k]) /\ h[k] = OnPaper(h[k - 1], s[k])
    BY <1>1, <1>2 DEF PaperRun
  <2> QED BY <1>3, <2>1, <2>2, <2>3
<1>6. \A k \in 0 .. n : g[k] \in G[k]
  BY <1>2, <1>4, <1>5, RunStays
<1>7. n \in 0 .. n
  BY <1>2
<1>8. g[n] = h[n] /\ h[n] \in Papers
  BY <1>1, <1>2, <1>3, <1>6, <1>7 DEF PaperRun
<1> QED BY <1>1, <1>2, <1>8

LEMMA PrintsPaper ==
  ASSUME NEW r \in Papers, NEW s \in Seq(Chars)
  PROVE  Prints(r, s) \in Papers
<1>1. PICK g : PaperRun(g, r, s)
  BY PaperRunExists
<1> QED BY <1>1, PaperRunEnds

LEMMA PrintsNothing ==
  ASSUME NEW r \in Papers
  PROVE  Prints(r, <<>>) = r
<1>1. <<>> \in Seq(Chars) /\ Len(<<>>) = 0
  OBVIOUS
<1>2. PICK g : PaperRun(g, r, <<>>)
  BY <1>1, PaperRunExists
<1>3. Prints(r, <<>>) = g[Len(<<>>)]
  BY <1>1, <1>2, PaperRunEnds
<1> QED BY <1>1, <1>2, <1>3 DEF PaperRun

(* One text after another.                                                  *)
LEMMA PrintsConcat ==
  ASSUME NEW r \in Papers, NEW s \in Seq(Chars), NEW l \in Seq(Chars)
  PROVE  Prints(r, s \o l) = Prints(Prints(r, s), l)
<1>1. PICK w : w = s \o l
  OBVIOUS
<1>2. PICK m \in Nat : m = Len(s)
  OBVIOUS
<1>3. PICK n \in Nat : n = Len(l)
  OBVIOUS
<1>4. /\ w \in Seq(Chars) /\ Len(w) = m + n
      /\ \A k \in 1 .. m : w[k] = s[k]
      /\ \A k \in 1 .. n : w[m + k] = l[k]
  BY <1>1, <1>2, <1>3
<1>5. PICK h : PaperRun(h, r, w) /\ Prints(r, w) = h[Len(w)]
  BY <1>4, PaperRunExists
<1>6. /\ h \in [0 .. m + n -> Papers] /\ h[0] = r
      /\ \A k \in 1 .. m + n : h[k] = OnPaper(h[k - 1], w[k])
      /\ Prints(r, w) = h[m + n]
  BY <1>4, <1>5 DEF PaperRun
<1>7. PICK g : g = [k \in 0 .. m |-> h[k]]
  OBVIOUS
<1>8. PICK j : j = [k \in 0 .. n |-> h[m + k]]
  OBVIOUS
<1>9. PaperRun(g, r, s)
  <2>1. g \in [0 .. m -> Papers] /\ g[0] = r
    BY <1>6, <1>7
  <2>2. ASSUME NEW k \in 1 .. m PROVE g[k] = OnPaper(g[k - 1], s[k])
    <3>1. k \in 1 .. m + n /\ k - 1 \in 0 .. m /\ k \in 0 .. m
      OBVIOUS
    <3> QED BY <1>4, <1>6, <1>7, <3>1
  <2> QED BY <1>2, <2>1, <2>2 DEF PaperRun
<1>10. Prints(r, s) = h[m]
  <2>1. Prints(r, s) = g[Len(s)]
    BY <1>9, PaperRunEnds
  <2> QED BY <1>2, <1>7, <2>1
<1>11. PaperRun(j, h[m], l)
  <2>1. j \in [0 .. n -> Papers] /\ j[0] = h[m]
    BY <1>6, <1>8
  <2>2. ASSUME NEW k \in 1 .. n PROVE j[k] = OnPaper(j[k - 1], l[k])
    <3>1. /\ m + k \in 1 .. m + n /\ k - 1 \in 0 .. n /\ k \in 0 .. n
          /\ m + k - 1 = m + (k - 1)
      OBVIOUS
    <3>2. h[m + k] = OnPaper(h[m + k - 1], w[m + k])
      BY <1>6, <3>1
    <3>3. w[m + k] = l[k]
      BY <1>4
    <3> QED BY <1>8, <3>1, <3>2, <3>3
  <2> QED BY <1>3, <2>1, <2>2 DEF PaperRun
<1>12. h[m] \in Papers
  BY <1>6
<1>13. Prints(h[m], l) = h[m + n]
  <2>1. Prints(h[m], l) = j[Len(l)]
    BY <1>11, <1>12, PaperRunEnds
  <2> QED BY <1>3, <1>8, <2>1
<1> QED BY <1>1, <1>6, <1>10, <1>13

LEMMA PrintsOne ==
  ASSUME NEW r \in Papers, NEW c \in Chars
  PROVE  Prints(r, <<c>>) = OnPaper(r, c)
<1>1. <<c>> \in Seq(Chars) /\ Len(<<c>>) = 1 /\ <<c>>[1] = c
  OBVIOUS
<1>2. PICK g : PaperRun(g, r, <<c>>)
  BY <1>1, PaperRunExists
<1>3. Prints(r, <<c>>) = g[1]
  BY <1>1, <1>2, PaperRunEnds
<1>4. g[0] = r /\ g[1] = OnPaper(g[1 - 1], <<c>>[1])
  BY <1>1, <1>2 DEF PaperRun
<1> QED BY <1>1, <1>3, <1>4

LEMMA PrintsAppend ==
  ASSUME NEW r \in Papers, NEW s \in Seq(Chars), NEW c \in Chars
  PROVE  Prints(r, Append(s, c)) = OnPaper(Prints(r, s), c)
<1>1. Append(s, c) = s \o <<c>> /\ <<c>> \in Seq(Chars)
  OBVIOUS
<1>2. Prints(r, s \o <<c>>) = Prints(Prints(r, s), <<c>>)
  BY <1>1, PrintsConcat
<1>3. Prints(Prints(r, s), <<c>>) = OnPaper(Prints(r, s), c)
  BY PrintsPaper, PrintsOne
<1> QED BY <1>1, <1>2, <1>3

(* Roll prints on unused paper.                                             *)
LEMMA RollPrints ==
  ASSUME NEW p \in Seq(Chars)
  PROVE  /\ Roll(p) = Prints(Unused, p) /\ Roll(p) \in Papers
         /\ \A l \in Seq(Chars) : Roll(p \o l) = Prints(Roll(p), l)
         /\ \A c \in Chars : Roll(Append(p, c)) = OnPaper(Roll(p), c)
<1>1. \A s : Roll(s) = Prints(Unused, s)
  BY Zenon DEF Roll, Prints, Unused
<1>2. Roll(p) \in Papers
  BY <1>1, PrintsPaper, UnusedPaper
<1>3. ASSUME NEW l \in Seq(Chars) PROVE Roll(p \o l) = Prints(Roll(p), l)
  BY <1>1, PrintsConcat, UnusedPaper
<1>4. ASSUME NEW c \in Chars PROVE Roll(Append(p, c)) = OnPaper(Roll(p), c)
  BY <1>1, PrintsAppend, UnusedPaper
<1> QED BY <1>1, <1>2, <1>3, <1>4
-----------------------------------------------------------------------------
(* A line of at most two rows: what row a has in column b, when k           *)
(* characters of it start in row y and column x, and v was there before.    *)
OnLine(y, x, l, k, a, b, v) ==
  IF a = y /\ b >= x /\ b < x + k THEN l[b - x + 1]
  ELSE IF a = y + 1 /\ b + NUM_COLS < x + k THEN l[b + NUM_COLS - x + 1]
  ELSE v

(* Where the character after it goes.                                       *)
LineRow(y, x, k) ==
  IF x + k < NUM_COLS THEN y ELSE IF x + k < 2 * NUM_COLS THEN y + 1 ELSE y + 2
LineCol(x, k) ==
  IF x + k < NUM_COLS THEN x + k
  ELSE IF x + k < 2 * NUM_COLS THEN x + k - NUM_COLS ELSE 0

LEMMA NoLine ==
  ASSUME NEW y \in Nat, NEW x \in Cols, NEW l, NEW v, NEW a \in Nat, NEW b \in Cols
  PROVE  /\ OnLine(y, x, l, 0, a, b, v) = v
         /\ LineRow(y, x, 0) = y /\ LineCol(x, 0) = x
BY ScreenAssumption DEF OnLine, Cols, LineRow, LineCol

LEMMA LineStep ==
  ASSUME NEW y \in Nat, NEW x \in Cols, NEW l, NEW v, NEW a \in Nat, NEW b \in Cols,
         NEW k \in Nat \ {0}, x + k <= 2 * NUM_COLS
  PROVE  /\ OnLine(y, x, l, k, a, b, v) =
              IF a = LineRow(y, x, k - 1) /\ b = LineCol(x, k - 1)
              THEN l[k] ELSE OnLine(y, x, l, k - 1, a, b, v)
         /\ LineCol(x, k - 1) \in Cols
         /\ LineRow(y, x, k - 1) = (IF k - 1 >= NUM_COLS - x THEN y + 1 ELSE y)
         /\ LineCol(x, k) = (IF LineCol(x, k - 1) + 1 = NUM_COLS
                             THEN 0 ELSE LineCol(x, k - 1) + 1)
         /\ LineRow(y, x, k) = (IF LineCol(x, k - 1) + 1 = NUM_COLS
                                THEN LineRow(y, x, k - 1) + 1 ELSE LineRow(y, x, k - 1))
<1>0. /\ NUM_COLS \in Nat /\ NUM_COLS # 0 /\ x \in Nat /\ x < NUM_COLS
      /\ b \in Nat /\ b < NUM_COLS
  BY ScreenAssumption DEF Cols
<1>1. CASE x + k - 1 < NUM_COLS
  <2>1. LineRow(y, x, k - 1) = y /\ LineCol(x, k - 1) = x + k - 1
    BY <1>0, <1>1 DEF LineRow, LineCol
  <2>2. OnLine(y, x, l, k, a, b, v) =
          IF a = y /\ b = x + k - 1 THEN l[k] ELSE OnLine(y, x, l, k - 1, a, b, v)
    <3>1. CASE a = y /\ b = x + k - 1
      <4>1. b - x + 1 = k /\ b >= x /\ b < x + k
        BY <1>0, <3>1
      <4> QED BY <3>1, <4>1 DEF OnLine
    <3>2. CASE ~ (a = y /\ b = x + k - 1)
      <4>1. /\ a = y => (b < x + k <=> b < x + (k - 1))
            /\ ~ (b + NUM_COLS < x + k) /\ ~ (b + NUM_COLS < x + (k - 1))
        BY <1>0, <1>1, <3>2
      <4> QED BY <3>2, <4>1 DEF OnLine
    <3> QED BY <3>1, <3>2
  <2>3. /\ LineCol(x, k) = (IF x + k - 1 + 1 = NUM_COLS THEN 0 ELSE x + k - 1 + 1)
        /\ LineRow(y, x, k) = (IF x + k - 1 + 1 = NUM_COLS THEN y + 1 ELSE y)
    BY <1>0, <1>1 DEF LineRow, LineCol
  <2>4. x + k - 1 \in Cols /\ ~ (k - 1 >= NUM_COLS - x)
    BY <1>0, <1>1 DEF Cols
  <2> QED BY <2>1, <2>2, <2>3, <2>4
<1>2. CASE x + k - 1 >= NUM_COLS
  <2>1. LineRow(y, x, k - 1) = y + 1 /\ LineCol(x, k - 1) = x + k - 1 - NUM_COLS
    BY <1>0, <1>2 DEF LineRow, LineCol
  <2>2. OnLine(y, x, l, k, a, b, v) =
          IF a = y + 1 /\ b = x + k - 1 - NUM_COLS
          THEN l[k] ELSE OnLine(y, x, l, k - 1, a, b, v)
    <3>1. CASE a = y + 1 /\ b = x + k - 1 - NUM_COLS
      <4>1. b + NUM_COLS - x + 1 = k /\ b + NUM_COLS < x + k /\ a # y
        BY <1>0, <3>1
      <4> QED BY <3>1, <4>1 DEF OnLine
    <3>2. CASE ~ (a = y + 1 /\ b = x + k - 1 - NUM_COLS)
      <4>1. /\ b < x + k /\ b < x + (k - 1)
            /\ a = y + 1 => (b + NUM_COLS < x + k <=> b + NUM_COLS < x + (k - 1))
        BY <1>0, <1>2, <3>2
      <4> QED BY <3>2, <4>1 DEF OnLine
    <3> QED BY <3>1, <3>2
  <2>3. PICK z : z = x + k - 1 - NUM_COLS
    OBVIOUS
  <2>4. /\ LineCol(x, k) = (IF z + 1 = NUM_COLS THEN 0 ELSE z + 1)
        /\ LineRow(y, x, k) = (IF z + 1 = NUM_COLS THEN y + 1 + 1 ELSE y + 1)
    <3>1. z \in Nat /\ x + k = z + 1 + NUM_COLS /\ z + 1 <= NUM_COLS
      BY <1>0, <1>2, <2>3
    <3>2. CASE z + 1 = NUM_COLS
      BY <1>0, <3>1, <3>2 DEF LineRow, LineCol
    <3>3. CASE z + 1 < NUM_COLS
      BY <1>0, <3>1, <3>3 DEF LineRow, LineCol
    <3> QED BY <1>0, <3>1, <3>2, <3>3
  <2>5. z \in Cols /\ k - 1 >= NUM_COLS - x
    BY <1>0, <1>2, <2>3 DEF Cols
  <2> QED BY <2>1, <2>2, <2>3, <2>4, <2>5
<1> QED BY <1>0, <1>1, <1>2

(* Such a line on paper.                                                    *)
LinePaper(r, l, k) ==
  {e \in Papers : /\ e.row = LineRow(r.row, r.col, k)
                  /\ e.col = LineCol(r.col, k)
                  /\ \A a \in Nat : \A b \in Cols :
                       Ink(e, a, b) = OnLine(r.row, r.col, l, k, a, b, Ink(r, a, b))}

LEMMA LinePrinted ==
  ASSUME NEW r \in Papers, NEW l \in Seq(KEYS), r.col + Len(l) <= 2 * NUM_COLS
  PROVE  Prints(r, l) \in LinePaper(r, l, Len(l))
<1>0. /\ l \in Seq(Chars) /\ r.row \in Nat /\ r.col \in Cols /\ r.col \in Nat
      /\ NUM_COLS \in Nat
  BY Characters, PaperType, ScreenAssumption
<1>1. PICK g : PaperRun(g, r, l) /\ Prints(r, l) = g[Len(l)]
  BY <1>0, PaperRunExists
<1>2. PICK n \in Nat : n = Len(l)
  OBVIOUS
<1>3. PICK G : G = [k \in 0 .. n |-> LinePaper(r, l, k)]
  OBVIOUS
<1>4. g[0] \in G[0]
  <2>1. g[0] = r /\ 0 \in 0 .. n
    BY <1>1 DEF PaperRun
  <2>2. r \in LinePaper(r, l, 0)
    <3>1. r.row = LineRow(r.row, r.col, 0) /\ r.col = LineCol(r.col, 0)
      BY <1>0, NoLine
    <3>2. ASSUME NEW a \in Nat, NEW b \in Cols
          PROVE  Ink(r, a, b) = OnLine(r.row, r.col, l, 0, a, b, Ink(r, a, b))
      BY <1>0, NoLine
    <3> QED BY <3>1, <3>2 DEF LinePaper
  <2> QED BY <1>3, <2>1, <2>2
<1>5. ASSUME NEW k \in 1 .. n, g[k - 1] \in G[k - 1] PROVE g[k] \in G[k]
  <2>1. k - 1 \in 0 .. n /\ k \in 0 .. n /\ k \in Nat \ {0} /\ r.col + k <= 2 * NUM_COLS
    BY <1>0, <1>2
  <2>2. PICK e : e = g[k - 1]
    OBVIOUS
  <2>3. e \in LinePaper(r, l, k - 1)
    BY <1>3, <1>5, <2>1, <2>2
  <2>4. /\ e \in Papers
        /\ e.row = LineRow(r.row, r.col, k - 1)
        /\ e.col = LineCol(r.col, k - 1)
        /\ \A a \in Nat : \A b \in Cols :
             Ink(e, a, b) = OnLine(r.row, r.col, l, k - 1, a, b, Ink(r, a, b))
    BY <2>3 DEF LinePaper
  <2>5. g[k] = OnPaper(e, l[k])
    BY <1>1, <1>2, <2>2 DEF PaperRun
  <2>6. l[k] \in Chars /\ l[k] # Newline
    BY <1>2, Characters, TextAssumption
  <2>7. PICK f : f = OnPaper(e, l[k])
    OBVIOUS
  <2>8. /\ f \in Papers
        /\ f.row = (IF e.col + 1 = NUM_COLS THEN e.row + 1 ELSE e.row)
        /\ f.col = (IF e.col + 1 = NUM_COLS THEN 0 ELSE e.col + 1)
    BY <2>4, <2>6, <2>7, OnPaperStays
  <2>9. f.row = LineRow(r.row, r.col, k) /\ f.col = LineCol(r.col, k)
    BY <1>0, <2>1, <2>4, <2>8, LineStep
  <2>10. ASSUME NEW a \in Nat, NEW b \in Cols
         PROVE  Ink(f, a, b) = OnLine(r.row, r.col, l, k, a, b, Ink(r, a, b))
    <3>1. Ink(f, a, b) = IF a = e.row /\ b = e.col THEN l[k] ELSE Ink(e, a, b)
      BY <2>4, <2>6, <2>7, OnPaperInk
    <3> QED BY <1>0, <2>1, <2>4, <3>1, LineStep
  <2>11. f \in LinePaper(r, l, k)
    BY <2>8, <2>9, <2>10 DEF LinePaper
  <2> QED BY <1>3, <2>1, <2>5, <2>7, <2>11
<1>6. \A k \in 0 .. n : g[k] \in G[k]
  BY <1>4, <1>5, RunStays
<1>7. n \in 0 .. n
  OBVIOUS
<1> QED BY <1>1, <1>2, <1>3, <1>6, <1>7
-----------------------------------------------------------------------------
(* The screen shows the paper from row T on, and nothing is printed behind  *)
(* its last row.                                                            *)
Agrees(mem, r, T) ==
  \A a \in 0 .. NUM_ROWS : \A b \in Cols : mem[Cell(b, a)] = Ink(r, T + a, b)

Above(r, T) ==
  \A a \in Nat : \A b \in Cols : a >= T + NUM_ROWS => Ink(r, a, b) = Blank

(* The first row on the screen when row a has to be on it.                  *)
Higher(T, a) == IF a - (NUM_ROWS - 1) > T THEN a - (NUM_ROWS - 1) ELSE T

(* The cursor goes down a row, on the screen or by scrolling it.            *)
LEMMA DownAgrees ==
  ASSUME NEW d \in Displays(Cols, Rows), NEW r, NEW T \in Nat,
         Agrees(d.mem, r, T), Above(r, T), NEW U, U = Higher(T, T + d.y + 1),
         NEW e, e = SetCoords(d, 0, d.y + 1)
  PROVE  /\ e \in Displays(Cols, Rows) /\ e.x = 0
         /\ U \in Nat /\ U >= T /\ U + e.y = T + d.y + 1
         /\ Agrees(e.mem, r, U)
<1>0. /\ NUM_ROWS \in Nat /\ d.y \in Nat /\ d.y < NUM_ROWS /\ 0 \in Cols
      /\ NUM_ROWS # 0 /\ NUM_COLS # 0
  BY OnGrid, ScreenAssumption DEF Rows, Cols
<1>1. CASE d.y + 1 < NUM_ROWS
  <2>1. U = T
    BY <1>0, <1>1 DEF Higher
  <2>2. d.y + 1 \in Rows
    BY <1>0, <1>1 DEF Rows
  <2>3. e \in Displays(Cols, Rows) /\ e.x = 0 /\ e.y = d.y + 1 /\ e.mem = d.mem
    BY <1>0, <2>2, MoveGrid
  <2> QED BY <1>0, <2>1, <2>3
<1>2. CASE d.y + 1 = NUM_ROWS
  <2>1. U = T + 1
    BY <1>0, <1>2 DEF Higher
  <2>2. e = SetCoords(d, 0, NUM_ROWS)
    BY <1>2
  <2>3. e \in Displays(Cols, Rows) /\ e.x = 0 /\ e.y = NUM_ROWS - 1
    BY <2>2, ScrollGrid
  <2>4. ASSUME NEW a \in 0 .. NUM_ROWS, NEW b \in Cols
        PROVE  e.mem[Cell(b, a)] = Ink(r, T + 1 + a, b)
    <3>1. e.mem[Cell(b, a)] = IF a \in Rows THEN d.mem[Cell(b, a + 1)]
                                            ELSE d.mem[Cell(b, a)]
      BY <2>2, ScrollCell
    <3>2. CASE a \in Rows
      <4>1. a + 1 \in 0 .. NUM_ROWS /\ T + (a + 1) = T + 1 + a
        BY <1>0, <3>2 DEF Rows
      <4>2. d.mem[Cell(b, a + 1)] = Ink(r, T + (a + 1), b)
        BY <4>1 DEF Agrees
      <4> QED BY <3>1, <3>2, <4>1, <4>2
    <3>3. CASE a \notin Rows
      <4>1. /\ T + a \in Nat /\ T + a >= T + NUM_ROWS
            /\ T + 1 + a \in Nat /\ T + 1 + a >= T + NUM_ROWS
        BY <1>0, <3>3 DEF Rows
      <4>2. d.mem[Cell(b, a)] = Ink(r, T + a, b)
        BY DEF Agrees
      <4>3. Ink(r, T + a, b) = Blank
        BY <4>1 DEF Above
      <4>4. Ink(r, T + 1 + a, b) = Blank
        BY <4>1 DEF Above
      <4> QED BY <3>1, <3>3, <4>2, <4>3, <4>4
    <3> QED BY <3>2, <3>3
  <2>5. Agrees(e.mem, r, U)
    BY <2>1, <2>4 DEF Agrees
  <2> QED BY <1>0, <1>2, <2>1, <2>3, <2>5
<1> QED BY <1>0, <1>1, <1>2

(* The cursor is where the next character is printed, too.                  *)
Matches(d, r, T) ==
  /\ d \in Displays(Cols, Rows) /\ r \in Papers /\ T \in Nat
  /\ d.x = r.col /\ T + d.y = r.row
  /\ Agrees(d.mem, r, T)

LEMMA MatchesAbove ==
  ASSUME NEW d, NEW r, NEW T, Matches(d, r, T)
  PROVE  Above(r, T)
<1>1. /\ r \in Papers /\ T \in Nat /\ d.y \in Nat /\ d.y < NUM_ROWS
      /\ NUM_ROWS \in Nat /\ T + d.y = r.row
  BY OnGrid, ScreenAssumption DEF Matches, Rows
<1>2. ASSUME NEW a \in Nat, NEW b \in Cols, a >= T + NUM_ROWS
      PROVE  Ink(r, a, b) = Blank
  <2>1. a > r.row
    BY <1>1, <1>2
  <2> QED BY <1>1, <2>1, Ahead
<1> QED BY <1>2 DEF Above

LEMMA PutAgrees ==
  ASSUME NEW d, NEW r, NEW T, Matches(d, r, T), NEW c \in Chars, c # Newline
  PROVE  Agrees(Put(d, c).mem, OnPaper(r, c), T)
<1>1. /\ d \in Displays(Cols, Rows) /\ r \in Papers /\ T \in Nat
      /\ d.x = r.col /\ T + d.y = r.row /\ r.row \in Nat
      /\ d.y \in Nat /\ NUM_ROWS \in Nat
  BY PaperType, OnGrid, ScreenAssumption DEF Matches
<1>2. ASSUME NEW a \in 0 .. NUM_ROWS, NEW b \in Cols
      PROVE  Put(d, c).mem[Cell(b, a)] = Ink(OnPaper(r, c), T + a, b)
  <2>1. Put(d, c).mem[Cell(b, a)] = IF b = d.x /\ a = d.y THEN c ELSE d.mem[Cell(b, a)]
    BY <1>1, PutCell
  <2>2. T + a \in Nat /\ (a = d.y <=> T + a = r.row)
    BY <1>1
  <2>3. Ink(OnPaper(r, c), T + a, b) =
          IF T + a = r.row /\ b = r.col THEN c ELSE Ink(r, T + a, b)
    BY <1>1, <2>2, OnPaperInk
  <2>4. d.mem[Cell(b, a)] = Ink(r, T + a, b)
    BY DEF Matches, Agrees
  <2> QED BY <1>1, <2>1, <2>2, <2>3, <2>4
<1> QED BY <1>2 DEF Agrees

(* Term_putc prints a character.                                            *)
LEMMA TermPutCMatches ==
  ASSUME NEW d, NEW r, NEW T, Matches(d, r, T), NEW c \in Chars,
         NEW q, q = OnPaper(r, c)
  PROVE  Matches(TermPutC(d, c), q, Higher(T, q.row))
<1>1. /\ d \in Displays(Cols, Rows) /\ r \in Papers /\ T \in Nat
      /\ d.x = r.col /\ T + d.y = r.row /\ r.row \in Nat /\ d.x \in Cols
      /\ d.y \in Nat /\ d.y < NUM_ROWS /\ NUM_ROWS \in Nat /\ Agrees(d.mem, r, T)
  BY PaperType, OnGrid, ScreenAssumption DEF Matches, Rows
<1>2. q \in Papers
  BY <1>1, OnPaperStays
<1>3. CASE c = Newline
  <2>1. q.row = T + d.y + 1 /\ q.col = 0
    BY <1>1, <1>3, OnPaperStays
  <2>2. PICK e : e = SetCoords(d, 0, d.y + 1)
    OBVIOUS
  <2>3. TermPutC(d, c) = e
    BY <1>3, <2>2 DEF TermPutC
  <2>4. PICK U : U = Higher(T, T + d.y + 1)
    OBVIOUS
  <2>5. /\ e \in Displays(Cols, Rows) /\ e.x = 0
        /\ U \in Nat /\ U >= T /\ U + e.y = T + d.y + 1
        /\ Agrees(e.mem, r, U)
    BY <1>1, <2>2, <2>4, DownAgrees, MatchesAbove
  <2>6. Agrees(e.mem, q, U)
    <3>1. ASSUME NEW a \in 0 .. NUM_ROWS, NEW b \in Cols
          PROVE  e.mem[Cell(b, a)] = Ink(q, U + a, b)
      <4>1. U + a \in Nat
        BY <1>1, <2>5
      <4>2. Ink(q, U + a, b) = Ink(r, U + a, b)
        BY <1>1, <1>3, <4>1, OnPaperInk
      <4> QED BY <2>5, <4>2 DEF Agrees
    <3> QED BY <3>1 DEF Agrees
  <2> QED BY <1>2, <2>1, <2>3, <2>4, <2>5, <2>6 DEF Matches
<1>4. CASE c # Newline /\ d.x + 1 = NUM_COLS
  <2>1. q.row = T + d.y + 1 /\ q.col = 0
    BY <1>1, <1>4, OnPaperStays
  <2>2. PICK p : p = Put(d, c)
    OBVIOUS
  <2>3. p \in Displays(Cols, Rows) /\ p.y = d.y /\ Agrees(p.mem, q, T)
    BY <1>1, <1>4, <2>2, PutDraws, PutAgrees
  <2>4. PICK e : e = SetCoords(p, 0, p.y + 1)
    OBVIOUS
  <2>5. TermPutC(d, c) = e
    BY <1>4, <2>2, <2>3, <2>4 DEF TermPutC
  <2>6. PICK U : U = Higher(T, T + p.y + 1)
    OBVIOUS
  <2>7. Above(q, T)
    <3>1. ASSUME NEW a \in Nat, NEW b \in Cols, a >= T + NUM_ROWS
          PROVE  Ink(q, a, b) = Blank
      <4>1. a > q.row \/ (a = q.row /\ b >= q.col)
        BY <1>1, <2>1, <3>1, ScreenAssumption DEF Cols
      <4> QED BY <1>2, <4>1, Ahead
    <3> QED BY <3>1 DEF Above
  <2>8. /\ e \in Displays(Cols, Rows) /\ e.x = 0
        /\ U \in Nat /\ U >= T /\ U + e.y = T + p.y + 1
        /\ Agrees(e.mem, q, U)
    BY <1>1, <2>3, <2>4, <2>6, <2>7, DownAgrees
  <2> QED BY <1>2, <2>1, <2>3, <2>5, <2>6, <2>8 DEF Matches
<1>5. CASE c # Newline /\ d.x + 1 # NUM_COLS
  <2>1. q.row = r.row /\ q.col = r.col + 1
    BY <1>1, <1>5, OnPaperStays
  <2>2. PICK p : p = Put(d, c)
    OBVIOUS
  <2>3. /\ p \in Displays(Cols, Rows) /\ p.y = d.y /\ p.x = d.x
        /\ Agrees(p.mem, q, T)
    BY <1>1, <1>5, <2>2, PutDraws, PutAgrees
  <2>4. NextColumn(d.x) = d.x + 1 /\ NextColumn(d.x) \in Cols
    BY <1>1, <1>5, NextCol
  <2>5. TermPutC(d, c) = [p EXCEPT !.x = d.x + 1]
    BY <1>5, <2>2, <2>3, <2>4 DEF TermPutC, Displays
  <2>6. PICK e : e = TermPutC(d, c)
    OBVIOUS
  <2>7. /\ e \in Displays(Cols, Rows) /\ e.x = d.x + 1 /\ e.y = d.y
        /\ e.mem = p.mem
    BY <2>3, <2>4, <2>5, <2>6 DEF Displays
  <2>8. Higher(T, q.row) = T
    BY <1>1, <2>1 DEF Higher
  <2> QED BY <1>1, <1>2, <2>1, <2>3, <2>6, <2>7, <2>8 DEF Matches
<1> QED BY <1>3, <1>4, <1>5

LEMMA HigherTwice ==
  ASSUME NEW T \in Nat, NEW i \in Nat, NEW j \in Nat, i <= j
  PROVE  Higher(Higher(T, i), j) = Higher(T, j) /\ Higher(T, j) \in Nat
BY ScreenAssumption DEF Higher

LEMMA MatchesHigher ==
  ASSUME NEW d, NEW r, NEW T, Matches(d, r, T)
  PROVE  Higher(T, r.row) = T
<1>1. /\ T \in Nat /\ d.y \in Nat /\ d.y < NUM_ROWS
      /\ NUM_ROWS \in Nat /\ T + d.y = r.row
  BY OnGrid, ScreenAssumption DEF Matches, Rows
<1> QED BY <1>1 DEF Higher

(* One more character, when the rows above row T have left the screen.      *)
LEMMA NextMatches ==
  ASSUME NEW T \in Nat, NEW d, NEW r, Matches(d, r, Higher(T, r.row)),
         NEW c \in Chars
  PROVE  Matches(TermPutC(d, c), OnPaper(r, c), Higher(T, OnPaper(r, c).row))
<1>1. PICK q : q = OnPaper(r, c)
  OBVIOUS
<1>2. PICK U : U = Higher(T, r.row)
  OBVIOUS
<1>3. r \in Papers /\ r.row \in Nat /\ r.row <= q.row /\ q.row \in Nat
  <2>1. r \in Papers
    BY DEF Matches
  <2>2. r.row \in Nat
    BY <2>1, PaperType
  <2>3. q \in Papers /\ (q.row = r.row \/ q.row = r.row + 1)
    BY <1>1, <2>1, OnPaperStays
  <2> QED BY <2>1, <2>2, <2>3
<1>4. Matches(TermPutC(d, c), q, Higher(U, q.row))
  BY <1>1, <1>2, TermPutCMatches
<1>5. Higher(U, q.row) = Higher(T, q.row)
  BY <1>2, <1>3, HigherTwice
<1> QED BY <1>1, <1>4, <1>5

LEMMA PrintkMatches ==
  ASSUME NEW d, NEW r, NEW T, Matches(d, r, T), NEW s \in Seq(Chars)
  PROVE  Matches(Printk(d, s), Prints(r, s), Higher(T, Prints(r, s).row))
<1>0. d \in Displays(Cols, Rows) /\ r \in Papers /\ T \in Nat
  BY DEF Matches
<1>1. PICK n : n = Len(s)
  OBVIOUS
<1>2. n \in Nat /\ DOMAIN s = 1 .. n /\ \A k \in 1 .. n : s[k] \in Chars
  BY <1>1
<1>3. PICK D : D = Displays(Cols, Rows)
  OBVIOUS
<1>4. \A e \in D : \A k \in 1 .. n : TermPutC(e, s[k]) \in D
  BY <1>2, <1>3, TermPutCDraws, GridColumns
<1>5. PrintkSteps(D, n, s) \in [1 .. n -> [D -> D]]
  BY <1>4 DEF PrintkSteps
<1>6. Ends(Printk(d, s), n, D, d, PrintkSteps(D, n, s))
  BY <1>0, <1>2, <1>3, <1>5, PrintkRuns
<1>7. PICK g \in [0 .. n -> D] :
        Runs(g, n, d, PrintkSteps(D, n, s)) /\ Printk(d, s) = g[n]
  BY <1>6 DEF Ends
<1>8. PICK h : PaperRun(h, r, s) /\ Prints(r, s) = h[n]
  BY <1>0, <1>1, PaperRunExists
<1>9. PICK S : S = {e \in D \X Papers : Matches(e[1], e[2], Higher(T, e[2].row))}
  OBVIOUS
<1>10. PICK j : j = [k \in 0 .. n |-> <<g[k], h[k]>>]
  OBVIOUS
<1>11. PICK G : G = [k \in 0 .. n |-> S]
  OBVIOUS
<1>12. j[0] \in G[0]
  <2>1. 0 \in 0 .. n /\ g[0] = d /\ h[0] = r
    BY <1>2, <1>7, <1>8 DEF Runs, PaperRun
  <2>2. Matches(d, r, Higher(T, r.row))
    BY MatchesHigher
  <2> QED BY <1>0, <1>3, <1>9, <1>10, <1>11, <2>1, <2>2
<1>13. ASSUME NEW k \in 1 .. n, j[k - 1] \in G[k - 1] PROVE j[k] \in G[k]
  <2>1. k - 1 \in 0 .. n /\ k \in 0 .. n
    BY <1>2
  <2>2. PICK e \in D : e = g[k - 1]
    BY <1>7, <2>1
  <2>3. PICK f : f = h[k - 1]
    OBVIOUS
  <2>4. f \in Papers /\ Matches(e, f, Higher(T, f.row))
    BY <1>9, <1>10, <1>11, <1>13, <2>1, <2>2, <2>3
  <2>5. g[k] = TermPutC(e, s[k])
    <3>1. g[k] = PrintkSteps(D, n, s)[k][g[k - 1]]
      BY <1>7 DEF Runs
    <3> QED BY <2>2, <3>1 DEF PrintkSteps
  <2>6. h[k] = OnPaper(f, s[k])
    BY <1>1, <1>8, <2>3 DEF PaperRun
  <2>7. s[k] \in Chars
    BY <1>2
  <2>8. Matches(g[k], h[k], Higher(T, h[k].row))
    BY <1>0, <2>4, <2>5, <2>6, <2>7, NextMatches
  <2>9. g[k] \in D /\ h[k] \in Papers
    BY <1>3, <2>8 DEF Matches
  <2> QED BY <1>9, <1>10, <1>11, <2>1, <2>8, <2>9
<1>14. \A k \in 0 .. n : j[k] \in G[k]
  BY <1>2, <1>12, <1>13, RunStays
<1>15. n \in 0 .. n
  BY <1>2
<1> QED BY <1>7, <1>8, <1>9, <1>10, <1>11, <1>14, <1>15

(* What terminal_write leaves of the newlines.                              *)
Type(q, c) == IF c = Newline /\ Roll(q).col = 0 THEN q ELSE Append(q, c)

Types(p, s) == FoldLeft(Type, p, s)

TypeSteps(D, n, s) == [k \in 1 .. n |-> [e \in D |-> Type(e, s[k])]]

LEMMA WrittenTypes == \A p, s : Written(p, s) = Types(p, s)
BY Zenon DEF Written, Types, Type

LEMMA TypeRuns ==
  ASSUME NEW D, NEW n \in Nat, NEW s, DOMAIN s = 1 .. n, NEW d \in D,
         TypeSteps(D, n, s) \in [1 .. n -> [D -> D]]
  PROVE  Ends(Types(d, s), n, D, d, TypeSteps(D, n, s))
<1> DEFINE IsIt(it) == it = [S \in SUBSET (1 .. n) |->
                               IF S = {} THEN d
                               ELSE Type(it[S \ {Max(S)}], s[Max(S)])]
<1>1. Types(d, s) = (CHOOSE it : IsIt(it))[1 .. n]
  BY Zenon DEF Types, FoldLeft, MapThenFoldSet
<1>2. PICK F : F = TypeSteps(D, n, s)
  OBVIOUS
<1>3. F \in [1 .. n -> [D -> D]]
  BY <1>2
<1>4. \A k \in 1 .. n : \A e \in D : F[k][e] = Type(e, s[k])
  BY <1>2 DEF TypeSteps
<1>5. PICK u \in [SUBSET (1 .. n) -> D] : Folds(u, n, d, F)
  BY <1>3, FoldExists
<1>6. IsIt(u)
  <2>1. ASSUME NEW S \in SUBSET (1 .. n)
        PROVE  u[S] = IF S = {} THEN d
                      ELSE Type(u[S \ {Max(S)}], s[Max(S)])
    <3>1. u[S] = IF S = {} THEN d ELSE F[Max(S)][u[S \ {Max(S)}]]
      BY <1>5 DEF Folds
    <3>2. S # {} => Max(S) \in 1 .. n /\ u[S \ {Max(S)}] \in D
      BY MaxIndex
    <3> QED BY <1>4, <3>1, <3>2
  <2>2. u = [S \in SUBSET (1 .. n) |-> u[S]]
    OBVIOUS
  <2> QED BY <2>1, <2>2
<1>7. PICK it : IsIt(it) /\ Types(d, s) = it[1 .. n]
  BY <1>1, <1>6, Zenon
<1>8. it[{}] = d
  BY <1>7
<1>9. ASSUME NEW S \in SUBSET (1 .. n), S # {}, it[S \ {Max(S)}] \in D
      PROVE  it[S] = F[Max(S)][it[S \ {Max(S)}]]
  <2>1. Max(S) \in 1 .. n
    BY <1>9, MaxIndex
  <2>2. it[S] = Type(it[S \ {Max(S)}], s[Max(S)])
    BY <1>7, <1>9, <2>1
  <2> QED BY <1>4, <1>9, <2>1, <2>2
<1>10. Unfolds(it, n, D, d, F)
  BY <1>3, <1>8, <1>9 DEF Unfolds
<1> QED BY <1>2, <1>7, <1>10, FoldRuns

LEMMA WriteMatches ==
  ASSUME NEW d, NEW p \in Seq(Chars), NEW T, Matches(d, Roll(p), T),
         NEW s \in Seq(Chars), NEW w, w = Written(p, s)
  PROVE  /\ w \in Seq(Chars)
         /\ Matches(Writes(d, s), Roll(w), Higher(T, Roll(w).row))
<1>0. d \in Displays(Cols, Rows) /\ Roll(p) \in Papers /\ T \in Nat
  BY DEF Matches
<1>1. PICK n : n = Len(s)
  OBVIOUS
<1>2. n \in Nat /\ DOMAIN s = 1 .. n /\ \A k \in 1 .. n : s[k] \in Chars
  BY <1>1
<1>3. PICK D : D = Displays(Cols, Rows)
  OBVIOUS
<1>4. \A e \in D : \A k \in 1 .. n : WriteStep(e, s[k]) \in D
  BY <1>2, <1>3, WriteStepDraws, GridColumns
<1>5. WriteSteps(D, n, s) \in [1 .. n -> [D -> D]]
  BY <1>4 DEF WriteSteps
<1>6. Ends(Writes(d, s), n, D, d, WriteSteps(D, n, s))
  BY <1>0, <1>2, <1>3, <1>5, WriteRuns
<1>7. PICK g \in [0 .. n -> D] :
        Runs(g, n, d, WriteSteps(D, n, s)) /\ Writes(d, s) = g[n]
  BY <1>6 DEF Ends
<1>8. PICK h \in [0 .. n -> Seq(Chars)] :
        Runs(h, n, p, TypeSteps(Seq(Chars), n, s)) /\ w = h[n]
  <2>1. \A q \in Seq(Chars) : \A k \in 1 .. n : Type(q, s[k]) \in Seq(Chars)
    BY <1>2 DEF Type
  <2>2. TypeSteps(Seq(Chars), n, s) \in [1 .. n -> [Seq(Chars) -> Seq(Chars)]]
    BY <2>1 DEF TypeSteps
  <2>3. Ends(Types(p, s), n, Seq(Chars), p, TypeSteps(Seq(Chars), n, s))
    BY <1>2, <2>2, TypeRuns
  <2> QED BY <2>3, WrittenTypes DEF Ends
<1>9. PICK S : S = {e \in D \X Seq(Chars) :
                      Matches(e[1], Roll(e[2]), Higher(T, Roll(e[2]).row))}
  OBVIOUS
<1>10. PICK j : j = [k \in 0 .. n |-> <<g[k], h[k]>>]
  OBVIOUS
<1>11. PICK G : G = [k \in 0 .. n |-> S]
  OBVIOUS
<1>12. j[0] \in G[0]
  <2>1. 0 \in 0 .. n /\ g[0] = d /\ h[0] = p
    BY <1>2, <1>7, <1>8 DEF Runs
  <2>2. Matches(d, Roll(p), Higher(T, Roll(p).row))
    BY MatchesHigher
  <2> QED BY <1>0, <1>3, <1>9, <1>10, <1>11, <2>1, <2>2
<1>13. ASSUME NEW k \in 1 .. n, j[k - 1] \in G[k - 1] PROVE j[k] \in G[k]
  <2>1. k - 1 \in 0 .. n /\ k \in 0 .. n
    BY <1>2
  <2>2. PICK e \in D : e = g[k - 1]
    BY <1>7, <2>1
  <2>3. PICK q \in Seq(Chars) : q = h[k - 1]
    BY <1>8, <2>1
  <2>4. Matches(e, Roll(q), Higher(T, Roll(q).row))
    BY <1>9, <1>10, <1>11, <1>13, <2>1, <2>2, <2>3
  <2>5. g[k] = WriteStep(e, s[k])
    <3>1. g[k] = WriteSteps(D, n, s)[k][g[k - 1]]
      BY <1>7 DEF Runs
    <3> QED BY <2>2, <3>1 DEF WriteSteps
  <2>6. h[k] = Type(q, s[k])
    <3>1. h[k] = TypeSteps(Seq(Chars), n, s)[k][h[k - 1]]
      BY <1>8 DEF Runs
    <3> QED BY <2>3, <3>1 DEF TypeSteps
  <2>7. s[k] \in Chars /\ e.x = Roll(q).col
    BY <1>2, <2>4 DEF Matches
  <2>8. Matches(g[k], Roll(h[k]), Higher(T, Roll(h[k]).row))
    <3>1. CASE s[k] = Newline /\ e.x = 0
      BY <2>4, <2>5, <2>6, <2>7, <3>1 DEF WriteStep, Type
    <3>2. CASE ~ (s[k] = Newline /\ e.x = 0)
      <4>1. g[k] = TermPutC(e, s[k]) /\ h[k] = Append(q, s[k])
        BY <2>5, <2>6, <2>7, <3>2 DEF WriteStep, Type
      <4>2. Roll(h[k]) = OnPaper(Roll(q), s[k])
        BY <2>7, <4>1, RollPrints
      <4> QED BY <1>0, <2>4, <2>7, <4>1, <4>2, NextMatches
    <3> QED BY <3>1, <3>2
  <2>9. g[k] \in D /\ h[k] \in Seq(Chars)
    BY <1>7, <1>8, <2>1
  <2> QED BY <1>9, <1>10, <1>11, <2>1, <2>8, <2>9
<1>14. \A k \in 0 .. n : j[k] \in G[k]
  BY <1>2, <1>12, <1>13, RunStays
<1>15. n \in 0 .. n
  BY <1>2
<1>16. w \in Seq(Chars)
  BY <1>8, <1>15
<1> QED BY <1>7, <1>8, <1>9, <1>10, <1>11, <1>14, <1>15, <1>16
-----------------------------------------------------------------------------
(* The line being typed, drawn from where the cursor is in d: the first k   *)
(* characters, without scrolling.                                           *)
LineDrawn(e, d, l, k) ==
  /\ e \in Displays(Cols, Rows)
  /\ e.x = LineCol(d.x, k) /\ e.y = d.y
  /\ \A a \in 0 .. NUM_ROWS : \A b \in Cols :
       e.mem[Cell(b, a)] = OnLine(d.y, d.x, l, k, a, b, d.mem[Cell(b, a)])

LEMMA LineDrawnStep ==
  ASSUME NEW d \in Displays(Cols, Rows), NEW l, NEW k \in Nat \ {0}, l[k] \in KEYS,
         d.x + k <= 2 * NUM_COLS, d.x + k <= NUM_COLS \/ d.y + 1 < NUM_ROWS,
         NEW e, LineDrawn(e, d, l, k - 1)
  PROVE  LineDrawn(RedrawStep(e, l, k, d.x), d, l, k)
<1>0. /\ d.x \in Cols /\ d.x \in Nat /\ d.y \in Nat /\ d.y \in Rows
      /\ NUM_COLS \in Nat /\ NUM_ROWS \in Nat
      /\ l[k] \in Chars /\ l[k] # Newline
  BY OnGrid, ScreenAssumption, Characters, TextAssumption
<1>1. /\ e \in Displays(Cols, Rows) /\ e.x \in Cols /\ e.y \in Rows
      /\ e.x = LineCol(d.x, k - 1) /\ e.y = d.y
  BY OnGrid DEF LineDrawn
<1>2. PICK f : f = RedrawStep(e, l, k, d.x)
  OBVIOUS
<1>3. /\ f \in Displays(Cols, Rows)
      /\ f.x = (IF e.x + 1 = NUM_COLS THEN 0 ELSE e.x + 1) /\ f.y = d.y
      /\ \A a \in 0 .. NUM_ROWS : \A b \in Cols :
           f.mem[Cell(b, a)] =
             IF b = e.x /\ a = (IF k - 1 >= NUM_COLS - d.x THEN d.y + 1 ELSE d.y)
             THEN l[k] ELSE e.mem[Cell(b, a)]
  <2>1. CASE k - 1 >= NUM_COLS - d.x
    <3>1. d.y + 1 \in Rows
      BY <1>0, <2>1 DEF Rows
    <3>2. PICK m : m = SetCoords(e, e.x, e.y + 1)
      OBVIOUS
    <3>3. m \in Displays(Cols, Rows) /\ m.x = e.x /\ m.y = d.y + 1 /\ m.mem = e.mem
      BY <1>1, <3>1, <3>2, MoveGrid
    <3>4. PICK p : p = PutC(m, l[k])
      OBVIOUS
    <3>5. /\ p \in Displays(Cols, Rows) /\ p.x \in Cols
          /\ p.x = (IF e.x + 1 = NUM_COLS THEN 0 ELSE e.x + 1)
          /\ p.y = d.y + 1 /\ p.mem = Put(m, l[k]).mem
      BY <1>0, <3>3, <3>4, PutCGrid, OnGrid
    <3>6. f = SetCoords(p, p.x, p.y - 1)
      BY <1>2, <2>1, <3>2, <3>4 DEF RedrawStep
    <3>7. p.y - 1 = d.y
      BY <1>0, <3>5
    <3>8. /\ f \in Displays(Cols, Rows) /\ f.x = p.x /\ f.y = d.y
          /\ f.mem = Put(m, l[k]).mem
      BY <1>0, <3>5, <3>6, <3>7, MoveGrid
    <3>9. ASSUME NEW a \in 0 .. NUM_ROWS, NEW b \in Cols
          PROVE  f.mem[Cell(b, a)] = IF b = e.x /\ a = d.y + 1
                                     THEN l[k] ELSE e.mem[Cell(b, a)]
      BY <3>3, <3>8, PutCell
    <3> QED BY <2>1, <3>5, <3>8, <3>9
  <2>2. CASE ~ (k - 1 >= NUM_COLS - d.x)
    <3>1. f = PutC(e, l[k])
      BY <1>2, <2>2 DEF RedrawStep
    <3>2. /\ f \in Displays(Cols, Rows)
          /\ f.x = (IF e.x + 1 = NUM_COLS THEN 0 ELSE e.x + 1) /\ f.y = d.y
          /\ f.mem = Put(e, l[k]).mem
      BY <1>0, <1>1, <3>1, PutCGrid
    <3>3. ASSUME NEW a \in 0 .. NUM_ROWS, NEW b \in Cols
          PROVE  f.mem[Cell(b, a)] = IF b = e.x /\ a = d.y
                                     THEN l[k] ELSE e.mem[Cell(b, a)]
      BY <1>1, <3>2, PutCell
    <3> QED BY <2>2, <3>2, <3>3
  <2> QED BY <2>1, <2>2
<1>4. f.x = LineCol(d.x, k)
  <2>1. LineCol(d.x, k) = (IF LineCol(d.x, k - 1) + 1 = NUM_COLS
                           THEN 0 ELSE LineCol(d.x, k - 1) + 1)
    BY <1>0, LineStep
  <2> QED BY <1>1, <1>3, <2>1
<1>5. ASSUME NEW a \in 0 .. NUM_ROWS, NEW b \in Cols
      PROVE  f.mem[Cell(b, a)] = OnLine(d.y, d.x, l, k, a, b, d.mem[Cell(b, a)])
  <2>1. PICK v : v = d.mem[Cell(b, a)]
    OBVIOUS
  <2>2. a \in Nat
    BY <1>0
  <2>3. /\ OnLine(d.y, d.x, l, k, a, b, v) =
             IF a = LineRow(d.y, d.x, k - 1) /\ b = LineCol(d.x, k - 1)
             THEN l[k] ELSE OnLine(d.y, d.x, l, k - 1, a, b, v)
        /\ LineRow(d.y, d.x, k - 1) = (IF k - 1 >= NUM_COLS - d.x THEN d.y + 1 ELSE d.y)
    <3>1. PICK y \in Nat : y = d.y
      BY <1>0
    <3>2. PICK x \in Cols : x = d.x
      BY <1>0
    <3>3. x + k <= 2 * NUM_COLS
      BY <3>2
    <3>4. /\ OnLine(y, x, l, k, a, b, v) =
               IF a = LineRow(y, x, k - 1) /\ b = LineCol(x, k - 1)
               THEN l[k] ELSE OnLine(y, x, l, k - 1, a, b, v)
          /\ LineRow(y, x, k - 1) = (IF k - 1 >= NUM_COLS - x THEN y + 1 ELSE y)
      BY <2>2, <3>3, LineStep
    <3> QED BY <3>1, <3>2, <3>4, Zenon
  <2>4. e.mem[Cell(b, a)] = OnLine(d.y, d.x, l, k - 1, a, b, v)
    BY <2>1 DEF LineDrawn
  <2>5. f.mem[Cell(b, a)] =
          IF b = e.x /\ a = (IF k - 1 >= NUM_COLS - d.x THEN d.y + 1 ELSE d.y)
          THEN l[k] ELSE e.mem[Cell(b, a)]
    BY <1>3
  <2> QED BY <1>1, <2>1, <2>3, <2>4, <2>5
<1> QED BY <1>2, <1>3, <1>4, <1>5 DEF LineDrawn

(* A run of such steps.                                                     *)
LineRun(g, d, l) ==
  /\ g \in [0 .. Len(l) -> Displays(Cols, Rows)]
  /\ \A k \in 1 .. Len(l) : g[k] = RedrawStep(g[k - 1], l, k, d.x)
  /\ \A k \in 0 .. Len(l) :
       (d.x + k <= NUM_COLS \/ d.y + 1 < NUM_ROWS) => LineDrawn(g[k], d, l, k)

LEMMA LineRunExists ==
  ASSUME NEW d \in Displays(Cols, Rows), NEW l \in Seq(KEYS),
         d.x + Len(l) <= 2 * NUM_COLS
  PROVE  \E g : LineRun(g, d, l) /\ Redrawn(d, l, d.x) = g[Len(l)]
<1>0. d.x \in Cols /\ d.x \in Nat /\ d.y \in Nat /\ NUM_COLS \in Nat /\ NUM_ROWS \in Nat
  BY OnGrid, ScreenAssumption
<1>1. PICK n \in Nat : n = Len(l)
  OBVIOUS
<1>2. DOMAIN l = 1 .. n /\ \A k \in 1 .. n : l[k] \in KEYS
  BY <1>1
<1>3. PICK D : D = Displays(Cols, Rows)
  OBVIOUS
<1>4. \A e \in D : \A k \in 1 .. n : RedrawStep(e, l, k, d.x) \in D
  BY <1>2, <1>3, RedrawStepDraws, GridColumns
<1>5. RedrawSteps(D, n, l, d.x) \in [1 .. n -> [D -> D]]
  BY <1>4 DEF RedrawSteps
<1>6. Ends(Redrawn(d, l, d.x), n, D, d, RedrawSteps(D, n, l, d.x))
  BY <1>2, <1>3, <1>5, RedrawnRuns
<1>7. PICK g \in [0 .. n -> D] :
        Runs(g, n, d, RedrawSteps(D, n, l, d.x)) /\ Redrawn(d, l, d.x) = g[n]
  BY <1>6 DEF Ends
<1>8. ASSUME NEW k \in 1 .. n PROVE g[k] = RedrawStep(g[k - 1], l, k, d.x)
  <2>1. g[k] = RedrawSteps(D, n, l, d.x)[k][g[k - 1]]
    BY <1>7 DEF Runs
  <2>2. g[k - 1] \in D
    BY <1>7
  <2> QED BY <2>1, <2>2 DEF RedrawSteps
<1>9. PICK G : G = [k \in 0 .. n |->
                      {e \in D : (d.x + k <= NUM_COLS \/ d.y + 1 < NUM_ROWS)
                                   => LineDrawn(e, d, l, k)}]
  OBVIOUS
<1>10. g[0] \in G[0]
  <2>1. g[0] = d /\ 0 \in 0 .. n
    BY <1>7 DEF Runs
  <2>2. d.x = LineCol(d.x, 0)
    BY <1>0, NoLine
  <2>3. ASSUME NEW a \in 0 .. NUM_ROWS, NEW b \in Cols
        PROVE  d.mem[Cell(b, a)] = OnLine(d.y, d.x, l, 0, a, b, d.mem[Cell(b, a)])
    <3>1. a \in Nat
      BY <1>0
    <3> QED BY <1>0, <3>1, NoLine
  <2>4. LineDrawn(d, d, l, 0)
    BY <2>2, <2>3 DEF LineDrawn
  <2> QED BY <1>3, <1>9, <2>1, <2>4
<1>11. ASSUME NEW k \in 1 .. n, g[k - 1] \in G[k - 1] PROVE g[k] \in G[k]
  <2>1. /\ k - 1 \in 0 .. n /\ k \in 0 .. n /\ k \in Nat \ {0}
        /\ d.x + k <= 2 * NUM_COLS
    BY <1>0, <1>1
  <2>2. g[k] \in D
    BY <1>7, <2>1
  <2>3. ASSUME d.x + k <= NUM_COLS \/ d.y + 1 < NUM_ROWS
        PROVE  LineDrawn(g[k], d, l, k)
    <3>1. d.x + (k - 1) <= NUM_COLS \/ d.y + 1 < NUM_ROWS
      BY <1>0, <2>1, <2>3
    <3>2. LineDrawn(g[k - 1], d, l, k - 1)
      BY <1>9, <1>11, <2>1, <3>1
    <3>3. LineDrawn(RedrawStep(g[k - 1], l, k, d.x), d, l, k)
      BY <1>2, <2>1, <2>3, <3>2, LineDrawnStep
    <3> QED BY <1>8, <3>3
  <2> QED BY <1>9, <2>1, <2>2, <2>3
<1>12. \A k \in 0 .. n : g[k] \in G[k]
  BY <1>10, <1>11, RunStays
<1>13. \A k \in 0 .. n :
         (d.x + k <= NUM_COLS \/ d.y + 1 < NUM_ROWS) => LineDrawn(g[k], d, l, k)
  BY <1>9, <1>12
<1>14. LineRun(g, d, l)
  BY <1>1, <1>3, <1>7, <1>8, <1>13 DEF LineRun
<1> QED BY <1>1, <1>7, <1>14
-----------------------------------------------------------------------------
(* A screen with cursor x, y shows the text p and the line l behind it from *)
(* row T of the paper on; the line takes at most two rows, both on the      *)
(* screen, and the handler's column w is not left of where it starts.       *)
LastRow(r, n) == IF r.col + n <= NUM_COLS THEN r.row ELSE r.row + 1

Placed(x, y, p, l, T) ==
  /\ p \in Seq(Chars) /\ l \in Seq(KEYS) /\ T \in Nat /\ y \in Int
  /\ x = Roll(p).col /\ T + y = Roll(p).row
  /\ x + Len(l) <= 2 * NUM_COLS

Sound(mem, x, y, p, l, w, T) ==
  /\ Placed(x, y, p, l, T)
  /\ l # <<>> => x <= w
  /\ LastRow(Roll(p), Len(l)) <= T + NUM_ROWS - 1
  /\ \A a \in Rows : \A b \in Cols : mem[Cell(b, a)] = Ink(Roll(p \o l), T + a, b)

LEMMA MaxOfTwo ==
  ASSUME NEW i \in Int, NEW j \in Int
  PROVE  Max({i, j}) = IF i >= j THEN i ELSE j
<1>1. PICK S : S = {i, j}
  OBVIOUS
<1>2. CASE i >= j
  <2>1. i \in S /\ \A y \in S : y \in Int /\ i >= y
    BY <1>1, <1>2
  <2> QED BY <1>1, <1>2, <2>1, MaxIs
<1>3. CASE ~ (i >= j)
  <2>1. j \in S /\ \A y \in S : y \in Int /\ j >= y
    BY <1>1, <1>3
  <2> QED BY <1>1, <1>3, <2>1, MaxIs
<1> QED BY <1>2, <1>3

LEMMA LineOnPaper ==
  ASSUME NEW p \in Seq(Chars), NEW l \in Seq(KEYS),
         Roll(p).col + Len(l) <= 2 * NUM_COLS
  PROVE  /\ Roll(p) \in Papers
         /\ Roll(p \o l) \in LinePaper(Roll(p), l, Len(l))
         /\ Roll(p \o l) \in Papers
<1>1. l \in Seq(Chars)
  BY Characters
<1>2. Roll(p) \in Papers /\ Roll(p \o l) = Prints(Roll(p), l)
  BY <1>1, RollPrints
<1>3. Roll(p \o l) \in LinePaper(Roll(p), l, Len(l))
  BY <1>2, LinePrinted
<1> QED BY <1>2, <1>3 DEF LinePaper

(* The rows that must have left the screen for the end of the line.         *)
LEMMA TopForIs ==
  ASSUME NEW p \in Seq(Chars), NEW l \in Seq(KEYS),
         Roll(p).col + Len(l) <= 2 * NUM_COLS
  PROVE  TopFor(p, l) = Higher(0, LastRow(Roll(p), Len(l)))
<1>1. PICK r : r = Roll(p)
  OBVIOUS
<1>2. PICK n \in Nat : n = Len(l)
  OBVIOUS
<1>3. PICK q : q = Roll(p \o l)
  OBVIOUS
<1>4. r \in Papers /\ r.row \in Nat /\ r.col \in Nat /\ r.col < NUM_COLS
  BY <1>1, LineOnPaper, PaperType
<1>5. q.row = LineRow(r.row, r.col, n) /\ q.col = LineCol(r.col, n)
  <2>1. q \in LinePaper(r, l, n)
    BY <1>1, <1>2, <1>3, LineOnPaper
  <2> QED BY <2>1 DEF LinePaper
<1>6. l # <<>> <=> n > 0
  BY <1>2
<1>7. (IF l # <<>> /\ q.col = 0 THEN q.row - 1 ELSE q.row) = LastRow(r, n)
  <2>0. r.col + n <= 2 * NUM_COLS /\ NUM_COLS \in Nat /\ NUM_COLS # 0
    BY <1>1, <1>2, ScreenAssumption
  <2>1. CASE r.col + n < NUM_COLS
    BY <1>4, <1>5, <1>6, <2>0, <2>1 DEF LineRow, LineCol, LastRow
  <2>2. CASE r.col + n = NUM_COLS
    BY <1>4, <1>5, <1>6, <2>0, <2>2 DEF LineRow, LineCol, LastRow
  <2>3. CASE r.col + n > NUM_COLS /\ r.col + n < 2 * NUM_COLS
    BY <1>4, <1>5, <1>6, <2>0, <2>3 DEF LineRow, LineCol, LastRow
  <2>4. CASE r.col + n = 2 * NUM_COLS
    BY <1>4, <1>5, <1>6, <2>0, <2>4 DEF LineRow, LineCol, LastRow
  <2> QED BY <1>4, <2>0, <2>1, <2>2, <2>3, <2>4
<1>8. PICK z : z = LastRow(r, n)
  OBVIOUS
<1>9. z \in Nat /\ NUM_ROWS \in Nat
  BY <1>4, <1>8, ScreenAssumption DEF LastRow
<1>10. TopFor(p, l) = Max({0, z - (NUM_ROWS - 1)})
  BY <1>3, <1>7, <1>8 DEF TopFor
<1>11. Max({0, z - (NUM_ROWS - 1)}) = IF 0 >= z - (NUM_ROWS - 1) THEN 0 ELSE z - (NUM_ROWS - 1)
  BY <1>9, MaxOfTwo
<1> QED BY <1>1, <1>2, <1>8, <1>9, <1>10, <1>11 DEF Higher

LEMMA TopMax ==
  ASSUME NEW T \in Nat, NEW a \in Nat
  PROVE  Max({T, Higher(0, a)}) = Higher(T, a)
<1>1. Higher(0, a) \in Int /\ NUM_ROWS \in Nat
  BY ScreenAssumption DEF Higher
<1>2. Max({T, Higher(0, a)}) = IF T >= Higher(0, a) THEN T ELSE Higher(0, a)
  BY <1>1, MaxOfTwo
<1> QED BY <1>1, <1>2 DEF Higher

(* The row Record counts from.                                              *)
LEMMA TopIs ==
  ASSUME NEW p \in Seq(Chars), NEW l \in Seq(KEYS), NEW T \in Nat,
         Roll(p).col + Len(l) <= 2 * NUM_COLS
  PROVE  Max({T, TopFor(p, l)}) = Higher(T, LastRow(Roll(p), Len(l)))
<1>1. LastRow(Roll(p), Len(l)) \in Nat
  BY LineOnPaper, PaperType DEF LastRow
<1> QED BY <1>1, TopForIs, TopMax

LEMMA LineInk ==
  ASSUME NEW x, NEW y, NEW p, NEW l, NEW T, Placed(x, y, p, l, T),
         NEW a \in Nat, NEW b \in Cols
  PROVE  Ink(Roll(p \o l), T + a, b) =
           OnLine(y, x, l, Len(l), a, b, Ink(Roll(p), T + a, b))
<1>0. /\ p \in Seq(Chars) /\ l \in Seq(KEYS) /\ T \in Nat /\ y \in Int
      /\ x = Roll(p).col /\ T + y = Roll(p).row
      /\ Roll(p).col + Len(l) <= 2 * NUM_COLS
  BY DEF Placed
<1>1. T + a \in Nat
  BY <1>0
<1>2. Roll(p \o l) \in LinePaper(Roll(p), l, Len(l))
  BY <1>0, LineOnPaper
<1>3. Ink(Roll(p \o l), T + a, b) =
        OnLine(T + y, x, l, Len(l), T + a, b, Ink(Roll(p), T + a, b))
  BY <1>0, <1>1, <1>2 DEF LinePaper
<1>4. PICK v : v = Ink(Roll(p), T + a, b)
  OBVIOUS
<1>5. PICK k : k = Len(l)
  OBVIOUS
<1>6. OnLine(T + y, x, l, k, T + a, b, v) = OnLine(y, x, l, k, a, b, v)
  BY <1>0 DEF OnLine
<1> QED BY <1>3, <1>4, <1>5, <1>6, Zenon

(* Inside the line it does not matter what was there before.                *)
InLine(y, x, k, a, b) ==
  (a = y /\ b >= x /\ b < x + k) \/ (a = y + 1 /\ b + NUM_COLS < x + k)

LEMMA LineOver ==
  ASSUME NEW y, NEW x, NEW l, NEW k, NEW a, NEW b, NEW v, NEW u
  PROVE  /\ InLine(y, x, k, a, b) => OnLine(y, x, l, k, a, b, v) = OnLine(y, x, l, k, a, b, u)
         /\ ~ InLine(y, x, k, a, b) => OnLine(y, x, l, k, a, b, v) = v
BY DEF InLine, OnLine

LEMMA InLonger ==
  ASSUME NEW y \in Nat, NEW x \in Nat, NEW k \in Nat, NEW a \in Nat, NEW b \in Nat,
         InLine(y, x, k, a, b)
  PROVE  InLine(y, x, k + 1, a, b)
BY ScreenAssumption DEF InLine

(* The screen of the terminal shown.                                        *)
LEMMA SoundAgrees ==
  ASSUME NEW d \in Displays(Cols, Rows), NEW p, NEW l \in Seq(KEYS), NEW w, NEW T,
         Sound(d.mem, d.x, d.y, p, l, w, T), Behind(d.mem)
  PROVE  /\ Roll(p \o l) \in Papers
         /\ Agrees(d.mem, Roll(p \o l), T) /\ Above(Roll(p \o l), T)
<1>0. /\ Placed(d.x, d.y, p, l, T)
      /\ p \in Seq(Chars) /\ T \in Nat /\ d.x = Roll(p).col /\ T + d.y = Roll(p).row
      /\ d.x + Len(l) <= 2 * NUM_COLS
      /\ LastRow(Roll(p), Len(l)) <= T + NUM_ROWS - 1
      /\ d.x \in Cols /\ d.x \in Nat /\ d.y \in Nat /\ d.y < NUM_ROWS /\ NUM_ROWS \in Nat
      /\ Len(l) \in Nat /\ NUM_COLS \in Nat
  BY OnGrid, ScreenAssumption DEF Sound, Placed, Rows
<1>1. Roll(p) \in Papers /\ Roll(p \o l) \in Papers
  BY <1>0, LineOnPaper
<1>2. ASSUME NEW a \in Nat, NEW b \in Cols, a >= T + NUM_ROWS
      PROVE  Ink(Roll(p \o l), a, b) = Blank
  <2>1. a - T \in Nat /\ T + (a - T) = a /\ b \in Nat
    BY <1>0, <1>2 DEF Cols
  <2>2. PICK v : v = Ink(Roll(p), a, b)
    OBVIOUS
  <2>3. v = Blank
    BY <1>0, <1>1, <1>2, <2>2, Ahead
  <2>4. Ink(Roll(p \o l), T + (a - T), b) =
          OnLine(d.y, d.x, l, Len(l), a - T, b, Ink(Roll(p), T + (a - T), b))
    BY <1>0, <2>1, LineInk
  <2>5. ~ InLine(d.y, d.x, Len(l), a - T, b)
    <3>1. a - T # d.y
      BY <1>0, <1>2
    <3>2. a - T = d.y + 1 => d.x + Len(l) <= NUM_COLS
      BY <1>0, <1>2 DEF LastRow
    <3> QED BY <1>0, <2>1, <3>1, <3>2 DEF InLine
  <2>6. OnLine(d.y, d.x, l, Len(l), a - T, b, v) = v
    BY <2>5, LineOver
  <2>7. Ink(Roll(p \o l), a, b) = OnLine(d.y, d.x, l, Len(l), a - T, b, v)
    BY <2>1, <2>2, <2>4, Zenon
  <2> QED BY <2>3, <2>6, <2>7, Zenon
<1>3. Above(Roll(p \o l), T)
  BY <1>2 DEF Above
<1>4. ASSUME NEW a \in 0 .. NUM_ROWS, NEW b \in Cols
      PROVE  d.mem[Cell(b, a)] = Ink(Roll(p \o l), T + a, b)
  <2>1. CASE a \in Rows
    BY <2>1 DEF Sound
  <2>2. CASE a \notin Rows
    <3>1. a = NUM_ROWS
      BY <1>0, <2>2 DEF Rows
    <3>2. d.mem[Cell(b, a)] = Blank
      BY <3>1 DEF Behind
    <3>3. T + a \in Nat /\ T + a >= T + NUM_ROWS
      BY <1>0, <3>1
    <3> QED BY <1>2, <3>2, <3>3
  <2> QED BY <2>1, <2>2
<1> QED BY <1>1, <1>3, <1>4 DEF Agrees

LEMMA MatchesSound ==
  ASSUME NEW p \in Seq(Chars), NEW d, NEW T, Matches(d, Roll(p), T), NEW w
  PROVE  Sound(d.mem, d.x, d.y, p, <<>>, w, T)
<1>0. /\ d \in Displays(Cols, Rows) /\ Roll(p) \in Papers /\ T \in Nat
      /\ d.x = Roll(p).col /\ T + d.y = Roll(p).row
      /\ d.x \in Nat /\ d.x < NUM_COLS /\ d.y \in Nat /\ d.y < NUM_ROWS
      /\ NUM_COLS \in Nat /\ NUM_ROWS \in Nat
      /\ Agrees(d.mem, Roll(p), T)
  BY OnGrid, ScreenAssumption, PaperType DEF Matches, Rows
<1>1. p \o <<>> = p /\ Len(<<>>) = 0
  OBVIOUS
<1>2. d.x + Len(<<>>) <= 2 * NUM_COLS
  BY <1>0, <1>1
<1>3. LastRow(Roll(p), Len(<<>>)) <= T + NUM_ROWS - 1
  BY <1>0, <1>1 DEF LastRow
<1>4. \A a \in Rows : \A b \in Cols :
        d.mem[Cell(b, a)] = Ink(Roll(p \o <<>>), T + a, b)
  BY <1>0, <1>1 DEF Agrees, Rows
<1> QED BY <1>0, <1>2, <1>3, <1>4 DEF Sound, Placed
-----------------------------------------------------------------------------
(* What the screen shows after each step that draws.  A screen on which a   *)
(* line has been drawn over the text shows it.                              *)
Drawn(mem, x, y, p, l, T) ==
  \A a \in Rows : \A b \in Cols :
    mem[Cell(b, a)] = OnLine(y, x, l, Len(l), a, b, Ink(Roll(p), T + a, b))

LEMMA DrawnSound ==
  ASSUME NEW f \in Displays(Cols, Rows), NEW p, NEW l, NEW T,
         Placed(f.x, f.y, p, l, T), NEW w, f.x <= w,
         LastRow(Roll(p), Len(l)) <= T + NUM_ROWS - 1,
         Drawn(f.mem, f.x, f.y, p, l, T)
  PROVE  Sound(f.mem, f.x, f.y, p, l, w, T)
<1>1. ASSUME NEW a \in Rows, NEW b \in Cols
      PROVE  f.mem[Cell(b, a)] = Ink(Roll(p \o l), T + a, b)
  <2>1. a \in Nat
    BY ScreenAssumption DEF Rows
  <2>2. Ink(Roll(p \o l), T + a, b) =
          OnLine(f.y, f.x, l, Len(l), a, b, Ink(Roll(p), T + a, b))
    BY <2>1, LineInk
  <2>3. f.mem[Cell(b, a)] = OnLine(f.y, f.x, l, Len(l), a, b, Ink(Roll(p), T + a, b))
    BY DEF Drawn
  <2> QED BY <2>2, <2>3, Zenon
<1> QED BY <1>1 DEF Sound

(* The line with one more character drawn over the line.                    *)
LEMMA LongerLine ==
  ASSUME NEW y \in Nat, NEW x \in Nat, NEW n \in Nat, NEW l, NEW q,
         NEW a \in Nat, NEW b \in Nat, NEW v
  PROVE  OnLine(y, x, q, n + 1, a, b, OnLine(y, x, l, n, a, b, v)) =
           OnLine(y, x, q, n + 1, a, b, v)
<1>1. PICK u : u = OnLine(y, x, l, n, a, b, v)
  OBVIOUS
<1>2. CASE InLine(y, x, n + 1, a, b)
  <2>1. OnLine(y, x, q, n + 1, a, b, u) = OnLine(y, x, q, n + 1, a, b, v)
    BY <1>2, LineOver
  <2> QED BY <1>1, <2>1, Zenon
<1>3. CASE ~ InLine(y, x, n + 1, a, b)
  <2>1. ~ InLine(y, x, n, a, b)
    BY <1>3, InLonger
  <2>2. u = v
    BY <1>1, <2>1, LineOver
  <2> QED BY <1>1, <2>2, Zenon
<1> QED BY <1>2, <1>3

LEMMA LowerLine ==
  ASSUME NEW y \in Nat, NEW x, NEW l, NEW k, NEW a \in Nat, NEW b, NEW v,
         NEW z, z = y + 1, NEW e, e = a + 1
  PROVE  OnLine(z, x, l, k, e, b, v) = OnLine(y, x, l, k, a, b, v)
<1>1. (e = z <=> a = y) /\ (e = z + 1 <=> a = y + 1)
  OBVIOUS
<1> QED BY <1>1 DEF OnLine

(* A character that is the first of the second row.                         *)
StartsRow(y, x, l, m, a, b, v, k, o) ==
  OnLine(y, x, l, k, a, b, v) =
    IF b = 0 /\ a = o THEN l[k] ELSE OnLine(y, x, l, m, a, b, v)

LEMMA FirstBelow ==
  ASSUME NEW y \in Nat, NEW x \in Cols, NEW l, NEW v, NEW a \in Nat, NEW b \in Cols,
         NEW m \in Nat, x + m = NUM_COLS, NEW k, k = m + 1, NEW o, o = y + 1
  PROVE  StartsRow(y, x, l, m, a, b, v, k, o)
<1>0. /\ NUM_COLS \in Nat /\ NUM_COLS # 0 /\ x \in Nat /\ x < NUM_COLS
      /\ b \in Nat /\ b < NUM_COLS
  BY ScreenAssumption DEF Cols
<1>1. CASE b = 0 /\ a = o
  <2>1. a # y /\ a = y + 1 /\ b + NUM_COLS < x + k /\ b + NUM_COLS - x + 1 = k
    BY <1>0, <1>1
  <2> QED BY <1>1, <2>1 DEF OnLine, StartsRow
<1>2. CASE ~ (b = 0 /\ a = o)
  <2>1. /\ a = y => b < x + k /\ b < x + m
        /\ a = y + 1 => ~ (b + NUM_COLS < x + k) /\ ~ (b + NUM_COLS < x + m)
    BY <1>0, <1>2
  <2> QED BY <1>2, <2>1 DEF OnLine, StartsRow
<1> QED BY <1>1, <1>2

(* A character key.                                                         *)
LEMMA KeySound ==
  ASSUME NEW d \in Displays(Cols, Rows), NEW p, NEW l, NEW w, NEW T,
         Sound(d.mem, d.x, d.y, p, l, w, T), Behind(d.mem),
         NEW c \in KEYS, NEW q, q = Append(l, c), d.x + Len(q) <= 2 * NUM_COLS,
         NEW e, e = Redrawn(d, q, d.x), NEW f, f = SetCoords(e, d.x, e.y),
         NEW U, U = Higher(T, LastRow(Roll(p), Len(q)))
  PROVE  Sound(f.mem, f.x, f.y, p, q, d.x, U)
<1>0. /\ d.x \in Cols /\ d.x \in Nat /\ d.x < NUM_COLS
      /\ d.y \in Nat /\ d.y < NUM_ROWS /\ d.y \in Rows
      /\ NUM_COLS \in Nat /\ NUM_ROWS \in Nat /\ NUM_ROWS >= 2 /\ NUM_COLS # 0
  BY OnGrid, ScreenAssumption DEF Rows, Cols
<1>1. /\ Placed(d.x, d.y, p, l, T)
      /\ p \in Seq(Chars) /\ l \in Seq(KEYS) /\ T \in Nat
      /\ d.x = Roll(p).col /\ T + d.y = Roll(p).row
      /\ LastRow(Roll(p), Len(l)) <= T + NUM_ROWS - 1
  BY DEF Sound, Placed
<1>2. PICK m \in Nat : m = Len(l)
  BY <1>1
<1>3. q \in Seq(KEYS) /\ Len(q) = m + 1 /\ q[m + 1] = c
  BY <1>1, <1>2
<1>4. d.x + (m + 1) <= 2 * NUM_COLS /\ U = Higher(T, LastRow(Roll(p), m + 1))
      /\ LastRow(Roll(p), m) <= T + NUM_ROWS - 1
  BY <1>1, <1>2, <1>3
<1>5. PICK g : LineRun(g, d, q) /\ e = g[m + 1]
  BY <1>3, LineRunExists
<1>6. ASSUME NEW a \in 0 .. NUM_ROWS, NEW b \in Cols
      PROVE  d.mem[Cell(b, a)] = OnLine(d.y, d.x, l, m, a, b, Ink(Roll(p), T + a, b))
  <2>1. a \in Nat
    BY <1>0
  <2>2. Ink(Roll(p \o l), T + a, b) =
          OnLine(d.y, d.x, l, Len(l), a, b, Ink(Roll(p), T + a, b))
    BY <1>1, <2>1, LineInk
  <2>3. Agrees(d.mem, Roll(p \o l), T)
    BY <1>1, SoundAgrees
  <2>4. d.mem[Cell(b, a)] = Ink(Roll(p \o l), T + a, b)
    BY <2>3 DEF Agrees
  <2> QED BY <1>2, <2>2, <2>4, Zenon
<1>7. CASE d.x + (m + 1) <= NUM_COLS \/ d.y + 1 < NUM_ROWS
  <2>1. LineDrawn(e, d, q, m + 1)
    BY <1>3, <1>5, <1>7 DEF LineRun
  <2>2. e \in Displays(Cols, Rows) /\ e.y = d.y
    BY <2>1 DEF LineDrawn
  <2>3. /\ f \in Displays(Cols, Rows) /\ f.x = d.x /\ f.y = d.y /\ f.mem = e.mem
    BY <1>0, <2>2, MoveGrid
  <2>4. LastRow(Roll(p), m + 1) <= T + NUM_ROWS - 1
    BY <1>0, <1>1, <1>7 DEF LastRow
  <2>5. U = T
    <3>1. LastRow(Roll(p), m + 1) \in Int
      BY <1>0, <1>1 DEF LastRow
    <3> QED BY <1>0, <1>1, <1>4, <2>4, <3>1 DEF Higher
  <2>6. ASSUME NEW a \in Rows, NEW b \in Cols
        PROVE  f.mem[Cell(b, a)] =
                 OnLine(f.y, f.x, q, Len(q), a, b, Ink(Roll(p), T + a, b))
    <3>1. a \in 0 .. NUM_ROWS /\ a \in Nat /\ b \in Nat
      BY <1>0 DEF Rows, Cols
    <3>2. PICK v : v = Ink(Roll(p), T + a, b)
      OBVIOUS
    <3>3. d.mem[Cell(b, a)] = OnLine(d.y, d.x, l, m, a, b, v)
      BY <1>6, <3>1, <3>2
    <3>4. e.mem[Cell(b, a)] = OnLine(d.y, d.x, q, m + 1, a, b, d.mem[Cell(b, a)])
      BY <2>1, <3>1 DEF LineDrawn
    <3>5. OnLine(d.y, d.x, q, m + 1, a, b, OnLine(d.y, d.x, l, m, a, b, v)) =
            OnLine(d.y, d.x, q, m + 1, a, b, v)
      BY <1>0, <3>1, LongerLine
    <3> QED BY <1>3, <2>3, <3>2, <3>3, <3>4, <3>5, Zenon
  <2>7. Placed(f.x, f.y, p, q, T)
    BY <1>1, <1>3, <1>4, <2>3 DEF Placed
  <2>8. LastRow(Roll(p), Len(q)) <= T + NUM_ROWS - 1 /\ f.x <= d.x
    BY <1>0, <1>3, <2>3, <2>4
  <2>9. Drawn(f.mem, f.x, f.y, p, q, T)
    BY <2>6 DEF Drawn
  <2> QED BY <2>3, <2>5, <2>7, <2>8, <2>9, DrawnSound
<1>8. CASE ~ (d.x + (m + 1) <= NUM_COLS \/ d.y + 1 < NUM_ROWS)
  <2>0. PICK r : r = Roll(p)
    OBVIOUS
  <2>01. r.col = d.x /\ r.row = T + d.y /\ r.row \in Nat /\ r.col \in Nat
    BY <1>0, <1>1, <2>0
  <2>02. LastRow(r, m) <= T + NUM_ROWS - 1
    BY <1>4, <2>0
  <2>1. d.y = NUM_ROWS - 1 /\ d.x + m = NUM_COLS
    <3>1. d.y = NUM_ROWS - 1 /\ d.x + m >= NUM_COLS
      BY <1>0, <1>8
    <3>2. r.col + m <= NUM_COLS
      BY <1>0, <1>1, <2>01, <2>02, <3>1 DEF LastRow
    <3> QED BY <1>0, <2>01, <3>1, <3>2
  <2>2. U = T + 1 /\ LastRow(Roll(p), m + 1) = T + d.y + 1
    <3>1. LastRow(r, m + 1) = T + d.y + 1
      BY <1>0, <1>1, <2>01, <2>1 DEF LastRow
    <3>2. PICK z : z = LastRow(r, m + 1)
      OBVIOUS
    <3>3. z = T + NUM_ROWS /\ U = Higher(T, z)
      BY <1>0, <1>1, <1>4, <2>0, <2>1, <3>1, <3>2
    <3>4. U = T + 1
      BY <1>0, <1>1, <3>3 DEF Higher
    <3> QED BY <2>0, <3>1, <3>4
  <2>3. PICK e0 : e0 = g[m]
    OBVIOUS
  <2>4. LineDrawn(e0, d, q, m)
    <3>1. m \in 0 .. Len(q) /\ d.x + m <= NUM_COLS
      BY <1>0, <1>3, <2>1
    <3> QED BY <1>5, <2>3, <3>1 DEF LineRun
  <2>5. /\ e0 \in Displays(Cols, Rows) /\ e0.x = 0 /\ e0.y = NUM_ROWS - 1
    BY <1>0, <2>1, <2>4 DEF LineDrawn, LineCol
  <2>6. e = RedrawStep(e0, q, m + 1, d.x)
    <3>1. m + 1 \in 1 .. Len(q) /\ m + 1 - 1 = m
      BY <1>3
    <3> QED BY <1>5, <2>3, <3>1 DEF LineRun
  <2>7. PICK i : i = SetCoords(e0, e0.x, NUM_ROWS)
    OBVIOUS
  <2>8. PICK j : j = PutC(i, c)
    OBVIOUS
  <2>9. e = SetCoords(j, j.x, j.y - 1)
    <3>1. m + 1 - 1 >= NUM_COLS - d.x /\ e0.y + 1 = NUM_ROWS
      BY <1>0, <2>1, <2>5
    <3> QED BY <1>3, <2>6, <2>7, <2>8, <3>1 DEF RedrawStep
  <2>10. i \in Displays(Cols, Rows) /\ i.x = 0 /\ i.y = NUM_ROWS - 1
    BY <2>5, <2>7, ScrollGrid
  <2>11. c \in Chars /\ c # Newline
    BY Characters, TextAssumption
  <2>12. /\ j \in Displays(Cols, Rows) /\ j.x \in Cols
         /\ j.y = NUM_ROWS - 1 /\ j.mem = Put(i, c).mem
    BY <2>8, <2>10, <2>11, PutCGrid, OnGrid
  <2>13. NUM_ROWS - 2 \in Rows /\ j.y - 1 = NUM_ROWS - 2
    BY <1>0, <2>12 DEF Rows
  <2>14. e \in Displays(Cols, Rows) /\ e.y = NUM_ROWS - 2 /\ e.mem = Put(i, c).mem
    BY <2>9, <2>12, <2>13, MoveGrid
  <2>15. /\ f \in Displays(Cols, Rows) /\ f.x = d.x /\ f.y = NUM_ROWS - 2
         /\ f.mem = Put(i, c).mem
    BY <1>0, <2>13, <2>14, MoveGrid
  <2>16. ASSUME NEW a \in Rows, NEW b \in Cols
         PROVE  f.mem[Cell(b, a)] =
                  OnLine(f.y, f.x, q, Len(q), a, b, Ink(Roll(p), U + a, b))
    <3>1. /\ a \in 0 .. NUM_ROWS /\ a + 1 \in 0 .. NUM_ROWS /\ a \in Nat /\ b \in Nat
          /\ a + 1 \in Nat /\ T + (a + 1) = U + a
      BY <1>0, <1>1, <2>2 DEF Rows, Cols
    <3>2. PICK v : v = Ink(Roll(p), U + a, b)
      OBVIOUS
    <3>3. f.mem[Cell(b, a)] = IF b = 0 /\ a = NUM_ROWS - 1 THEN c
                              ELSE e0.mem[Cell(b, a + 1)]
      <4>1. Put(i, c).mem[Cell(b, a)] = IF b = i.x /\ a = i.y THEN c
                                        ELSE i.mem[Cell(b, a)]
        BY <2>10, <3>1, PutCell
      <4>2. i.mem[Cell(b, a)] = e0.mem[Cell(b, a + 1)]
        BY <2>5, <2>7, <3>1, ScrollCell
      <4> QED BY <2>10, <2>15, <4>1, <4>2
    <3>4. d.mem[Cell(b, a + 1)] = OnLine(d.y, d.x, l, m, a + 1, b, v)
      BY <1>6, <3>1, <3>2
    <3>5. e0.mem[Cell(b, a + 1)] = OnLine(d.y, d.x, q, m, a + 1, b, d.mem[Cell(b, a + 1)])
      BY <2>4, <3>1 DEF LineDrawn
    <3>6. e0.mem[Cell(b, a + 1)] = OnLine(d.y, d.x, q, m, a + 1, b, v)
      <4>1. PICK u : u = OnLine(d.y, d.x, l, m, a + 1, b, v)
        OBVIOUS
      <4>2. OnLine(d.y, d.x, q, m, a + 1, b, u) = OnLine(d.y, d.x, q, m, a + 1, b, v)
        <5>1. CASE InLine(d.y, d.x, m, a + 1, b)
          BY <5>1, LineOver
        <5>2. CASE ~ InLine(d.y, d.x, m, a + 1, b)
          <6>1. u = v
            BY <4>1, <5>2, LineOver
          <6> QED BY <6>1
        <5> QED BY <5>1, <5>2
      <4> QED BY <3>4, <3>5, <4>1, <4>2, Zenon
    <3>7. OnLine(d.y, d.x, q, m, a + 1, b, v) = OnLine(NUM_ROWS - 2, d.x, q, m, a, b, v)
      <4>1. PICK y \in Nat : y = NUM_ROWS - 2
        BY <1>0
      <4>2. PICK z : z = d.y
        OBVIOUS
      <4>4. PICK o : o = a + 1
        OBVIOUS
      <4>5. z = y + 1
        BY <1>0, <2>1, <4>1, <4>2
      <4>3. OnLine(z, d.x, q, m, o, b, v) = OnLine(y, d.x, q, m, a, b, v)
        BY <3>1, <4>4, <4>5, LowerLine
      <4> QED BY <4>1, <4>2, <4>3, <4>4, Zenon
    <3>8. OnLine(NUM_ROWS - 2, d.x, q, m + 1, a, b, v) =
            IF b = 0 /\ a = NUM_ROWS - 1 THEN c ELSE OnLine(NUM_ROWS - 2, d.x, q, m, a, b, v)
      <4>1. PICK y \in Nat : y = NUM_ROWS - 2
        BY <1>0
      <4>2. PICK x \in Cols : x = d.x
        BY <1>0
      <4>3. PICK k : k = m + 1
        OBVIOUS
      <4>4. PICK o : o = y + 1
        OBVIOUS
      <4>5. x + m = NUM_COLS /\ o = NUM_ROWS - 1 /\ q[k] = c /\ a \in Nat
        BY <1>0, <1>3, <2>1, <3>1, <4>1, <4>2, <4>3, <4>4
      <4>6. StartsRow(y, x, q, m, a, b, v, k, o)
        BY <4>3, <4>4, <4>5, FirstBelow
      <4>7. OnLine(y, x, q, k, a, b, v) =
              IF b = 0 /\ a = o THEN c ELSE OnLine(y, x, q, m, a, b, v)
        BY <4>5, <4>6 DEF StartsRow
      <4> QED BY <4>1, <4>2, <4>3, <4>5, <4>7, Zenon
    <3>9. f.mem[Cell(b, a)] = OnLine(NUM_ROWS - 2, d.x, q, m + 1, a, b, v)
      BY <3>3, <3>6, <3>7, <3>8
    <3> QED BY <1>3, <2>15, <3>2, <3>9, Zenon
  <2>17. Placed(f.x, f.y, p, q, U)
    <3>1. /\ U \in Nat /\ f.y \in Int /\ U + f.y = T + d.y
          /\ f.x + Len(q) <= 2 * NUM_COLS
      <4>1. U = T + 1 /\ f.y = NUM_ROWS - 2 /\ d.y = NUM_ROWS - 1
        BY <2>1, <2>2, <2>15
      <4>2. f.x + Len(q) <= 2 * NUM_COLS
        BY <1>3, <1>4, <2>15
      <4>3. T \in Nat /\ NUM_ROWS \in Nat
        BY <1>0, <1>1
      <4>4. U \in Nat /\ f.y \in Int /\ U + f.y = T + d.y
        BY <4>1, <4>3
      <4> QED BY <4>2, <4>4
    <3> QED BY <1>1, <1>3, <2>15, <3>1 DEF Placed
  <2>18. LastRow(Roll(p), Len(q)) <= U + NUM_ROWS - 1 /\ f.x <= d.x
    <3>1. LastRow(Roll(p), Len(q)) = T + d.y + 1
      BY <1>3, <2>2
    <3>2. T + d.y + 1 <= U + NUM_ROWS - 1
      BY <1>0, <1>1, <2>1, <2>2
    <3> QED BY <1>0, <2>15, <3>1, <3>2
  <2>19. Drawn(f.mem, f.x, f.y, p, q, U)
    BY <2>16 DEF Drawn
  <2> QED BY <2>15, <2>17, <2>18, <2>19, DrawnSound
<1> QED BY <1>7, <1>8
-----------------------------------------------------------------------------
(* Backspace clears up to where the line ends, and draws the rest again.    *)
Cleared(d, k) ==
  IF k >= NUM_COLS - d.x THEN ClearLine(d, 0, d.y + 1) ELSE ClearLine(d, d.x, d.y)

LEMMA ClearedCell ==
  ASSUME NEW d \in Displays(Cols, Rows), NEW k,
         NEW b \in Cols, NEW a \in 0 .. NUM_ROWS
  PROVE  Cleared(d, k).mem[Cell(b, a)] =
           IF k >= NUM_COLS - d.x
           THEN IF a = d.y + 1 THEN Blank ELSE d.mem[Cell(b, a)]
           ELSE IF (a = d.y /\ b >= d.x) \/ (a = d.y + 1 /\ b < d.x)
                THEN Blank ELSE d.mem[Cell(b, a)]
<1>0. /\ 0 \in Cols /\ d.x \in Cols /\ d.y \in Nat /\ d.y + 1 \in Nat
      /\ b \in Nat /\ ~ (b < 0) /\ b >= 0
  BY OnGrid, ScreenAssumption DEF Cols
<1>1. CASE k >= NUM_COLS - d.x
  <2>1. PICK y \in Nat : y = d.y + 1
    BY <1>0
  <2>2. ClearLine(d, 0, y).mem[Cell(b, a)] =
          IF (a = y /\ b >= 0) \/ (a = y + 1 /\ b < 0)
          THEN Blank ELSE d.mem[Cell(b, a)]
    BY <1>0, ClearLineCell
  <2>3. Cleared(d, k) = ClearLine(d, 0, y)
    BY <1>1, <2>1 DEF Cleared
  <2> QED BY <1>0, <1>1, <2>1, <2>2, <2>3
<1>2. CASE ~ (k >= NUM_COLS - d.x)
  <2>1. ClearLine(d, d.x, d.y).mem[Cell(b, a)] =
          IF (a = d.y /\ b >= d.x) \/ (a = d.y + 1 /\ b < d.x)
          THEN Blank ELSE d.mem[Cell(b, a)]
    BY <1>0, ClearLineCell
  <2> QED BY <1>2, <2>1 DEF Cleared
<1> QED BY <1>1, <1>2

LEMMA ClearedGrid ==
  ASSUME NEW d \in Displays(Cols, Rows), NEW k
  PROVE  /\ Cleared(d, k) \in Displays(Cols, Rows)
         /\ Cleared(d, k).x = d.x /\ Cleared(d, k).y = d.y
<1>1. \A x, y : /\ ClearLine(d, x, y) \in Displays(Cols, Rows)
                /\ ClearLine(d, x, y).x = d.x /\ ClearLine(d, x, y).y = d.y
  BY ClearLineDraws DEF ClearLine, Displays
<1> QED BY <1>1 DEF Cleared

(* Of a line with a character less, what is not drawn again is not there.   *)
Erased(d, l, n, k, a, b, v) ==
  /\ (n = 0 /\ k = 0) \/ n = k + 1
  /\ a = d.y /\ b >= d.x => v = Blank
  /\ a = d.y + 1 => v = Blank
  /\ d.mem[Cell(b, a)] = OnLine(d.y, d.x, l, n, a, b, v)
  /\ ~ InLine(d.y, d.x, k, a, b)

LEMMA ClearedLine ==
  ASSUME NEW d \in Displays(Cols, Rows), NEW l, NEW n \in Nat, NEW k \in Nat,
         NEW b \in Cols, NEW a \in Rows, NEW v, Erased(d, l, n, k, a, b, v)
  PROVE  Cleared(d, k).mem[Cell(b, a)] = v
<1> USE DEF Erased
<1>0. /\ a \in 0 .. NUM_ROWS /\ a \in Nat /\ b \in Nat /\ b < NUM_COLS
      /\ d.x \in Nat /\ d.x < NUM_COLS /\ d.y \in Nat /\ NUM_COLS \in Nat
  BY OnGrid, ScreenAssumption DEF Rows, Cols
<1>1. CASE InLine(d.y, d.x, n, a, b)
  <2>1. n = k + 1
    BY <1>1, <1>0 DEF InLine
  <2>2. CASE k >= NUM_COLS - d.x
    <3>1. a = d.y + 1
      BY <1>0, <1>1, <2>1, <2>2 DEF InLine
    <3>2. Cleared(d, k).mem[Cell(b, a)] = Blank
      BY <1>0, <2>2, <3>1, ClearedCell
    <3> QED BY <3>1, <3>2
  <2>3. CASE ~ (k >= NUM_COLS - d.x)
    <3>1. a = d.y /\ b >= d.x
      BY <1>0, <1>1, <2>1, <2>3 DEF InLine
    <3>2. Cleared(d, k).mem[Cell(b, a)] = Blank
      BY <1>0, <2>3, <3>1, ClearedCell
    <3> QED BY <3>1, <3>2
  <2> QED BY <2>2, <2>3
<1>2. CASE ~ InLine(d.y, d.x, n, a, b)
  <2>1. d.mem[Cell(b, a)] = v
    BY <1>2, LineOver
  <2>2. \/ Cleared(d, k).mem[Cell(b, a)] = d.mem[Cell(b, a)]
        \/ /\ Cleared(d, k).mem[Cell(b, a)] = Blank
           /\ (a = d.y /\ b >= d.x) \/ a = d.y + 1
    BY <1>0, ClearedCell
  <2> QED BY <2>1, <2>2
<1> QED BY <1>1, <1>2

LEMMA BackspaceSound ==
  ASSUME NEW d \in Displays(Cols, Rows), NEW p, NEW l, NEW w, NEW T,
         Sound(d.mem, d.x, d.y, p, l, w, T),
         NEW q, q = IF l = <<>> THEN <<>> ELSE Front(l),
         NEW s, s = Cleared(d, Len(q)),
         NEW e, e = Redrawn(s, q, d.x), NEW f, f = SetCoords(e, d.x, e.y),
         NEW U, U = Higher(T, LastRow(Roll(p), Len(q)))
  PROVE  Sound(f.mem, f.x, f.y, p, q, d.x, U)
<1>0. /\ d.x \in Cols /\ d.x \in Nat /\ d.x < NUM_COLS
      /\ d.y \in Nat /\ d.y < NUM_ROWS /\ d.y \in Rows
      /\ NUM_COLS \in Nat /\ NUM_ROWS \in Nat
  <2>1. d.x \in Cols /\ d.x \in Nat /\ d.y \in Nat /\ d.y \in Rows
    BY OnGrid
  <2> QED BY <2>1, ScreenAssumption DEF Rows, Cols
<1>1. /\ Placed(d.x, d.y, p, l, T)
      /\ p \in Seq(Chars) /\ l \in Seq(KEYS) /\ T \in Nat
      /\ d.x = Roll(p).col /\ T + d.y = Roll(p).row
      /\ LastRow(Roll(p), Len(l)) <= T + NUM_ROWS - 1
      /\ d.x + Len(l) <= 2 * NUM_COLS
  BY DEF Sound, Placed
<1>2. PICK n \in Nat : n = Len(l)
  BY <1>1
<1>3. q \in Seq(KEYS) /\ ((n = 0 /\ Len(q) = 0) \/ n = Len(q) + 1)
  <2>1. CASE l = <<>>
    BY <1>2, <2>1
  <2>2. CASE l # <<>>
    <3>1. n # 0
      BY <1>1, <1>2, <2>2
    <3>2. Front(l) \in Seq(KEYS) /\ Len(Front(l)) = n - 1
      BY <1>1, <1>2, <2>2, <3>1 DEF Front
    <3>3. q = Front(l)
      BY <2>2
    <3> QED BY <1>2, <3>1, <3>2, <3>3
  <2> QED BY <2>1, <2>2
<1>4. PICK k \in Nat : k = Len(q)
  BY <1>3
<1>5. d.x + k <= 2 * NUM_COLS /\ d.x + n <= 2 * NUM_COLS
      /\ ((n = 0 /\ k = 0) \/ n = k + 1)
  BY <1>0, <1>1, <1>2, <1>3, <1>4
<1>6. PICK r : r = Roll(p)
  OBVIOUS
<1>7. r \in Papers /\ r.row = T + d.y /\ r.col = d.x
  BY <1>1, <1>6, LineOnPaper
<1>8. LastRow(r, n) <= T + NUM_ROWS - 1
  BY <1>1, <1>2, <1>6
<1>9. /\ LastRow(r, k) <= T + NUM_ROWS - 1 /\ LastRow(r, k) \in Int
      /\ d.x + k <= NUM_COLS \/ d.y + 1 < NUM_ROWS
  <2>1. d.x \in Nat /\ d.y \in Nat /\ d.y < NUM_ROWS /\ T \in Nat /\ NUM_ROWS \in Nat
    BY <1>0, <1>1
  <2>2. LastRow(r, k) = IF d.x + k <= NUM_COLS THEN T + d.y ELSE T + d.y + 1
    BY <1>7 DEF LastRow
  <2>3. LastRow(r, n) = IF d.x + n <= NUM_COLS THEN T + d.y ELSE T + d.y + 1
    BY <1>7 DEF LastRow
  <2>4. d.x + k > NUM_COLS => d.x + n > NUM_COLS
    BY <1>0, <1>5
  <2> QED BY <1>0, <1>8, <2>1, <2>2, <2>3, <2>4
<1>10. U = T
  <2>1. U = Higher(T, LastRow(r, k))
    BY <1>4, <1>6
  <2> QED BY <1>0, <1>1, <1>9, <2>1 DEF Higher
<1>11. s \in Displays(Cols, Rows) /\ s.x = d.x /\ s.y = d.y
  BY <1>4, ClearedGrid
<1>12. LineDrawn(e, s, q, k)
  <2>0. e = Redrawn(s, q, s.x) /\ s.x + Len(q) <= 2 * NUM_COLS
    BY <1>4, <1>5, <1>11
  <2>01. s \in Displays(Cols, Rows) /\ q \in Seq(KEYS)
    BY <1>3, <1>11
  <2>02. s.x + Len(q) <= 2 * NUM_COLS
    BY <2>0
  <2>1. PICK g : LineRun(g, s, q) /\ e = g[k]
    <3>1. \E g : LineRun(g, s, q) /\ Redrawn(s, q, s.x) = g[Len(q)]
      BY <2>01, <2>02, LineRunExists, Zenon
    <3> QED BY <1>4, <2>0, <3>1, Zenon
  <2>2. k \in 0 .. Len(q) /\ (s.x + k <= NUM_COLS \/ s.y + 1 < NUM_ROWS)
    BY <1>4, <1>9, <1>11
  <2> QED BY <2>1, <2>2 DEF LineRun
<1>13. e \in Displays(Cols, Rows) /\ e.y = d.y
  BY <1>11, <1>12 DEF LineDrawn
<1>14. f \in Displays(Cols, Rows) /\ f.x = d.x /\ f.y = d.y /\ f.mem = e.mem
  BY <1>0, <1>13, MoveGrid
<1>15. ASSUME NEW a \in Rows, NEW b \in Cols
       PROVE  f.mem[Cell(b, a)] =
                OnLine(f.y, f.x, q, Len(q), a, b, Ink(Roll(p), T + a, b))
  <2>1. a \in 0 .. NUM_ROWS /\ a \in Nat /\ T + a \in Nat
    BY <1>0, <1>1 DEF Rows
  <2>2. PICK v : v = Ink(r, T + a, b)
    OBVIOUS
  <2>3. /\ a = d.y /\ b >= d.x => v = Blank
        /\ a = d.y + 1 => v = Blank
    <3>1. /\ a = d.y /\ b >= d.x => T + a = r.row /\ b >= r.col
          /\ a = d.y + 1 => T + a > r.row
      BY <1>0, <1>1, <1>7
    <3> QED BY <1>7, <2>1, <2>2, <3>1, Ahead
  <2>4. d.mem[Cell(b, a)] = OnLine(d.y, d.x, l, n, a, b, v)
    <3>1. Ink(Roll(p \o l), T + a, b) =
            OnLine(d.y, d.x, l, Len(l), a, b, Ink(Roll(p), T + a, b))
      BY <1>1, <2>1, LineInk
    <3>2. d.mem[Cell(b, a)] = Ink(Roll(p \o l), T + a, b)
      BY DEF Sound
    <3> QED BY <1>2, <1>6, <2>2, <3>1, <3>2, Zenon
  <2>5. PICK u : u = s.mem[Cell(b, a)]
    OBVIOUS
  <2>6. e.mem[Cell(b, a)] = OnLine(d.y, d.x, q, k, a, b, u)
    BY <1>11, <1>12, <2>1, <2>5 DEF LineDrawn
  <2>7. OnLine(d.y, d.x, q, k, a, b, u) = OnLine(d.y, d.x, q, k, a, b, v)
    <3>1. CASE InLine(d.y, d.x, k, a, b)
      BY <3>1, LineOver
    <3>2. CASE ~ InLine(d.y, d.x, k, a, b)
      <4>1. Cleared(d, k).mem[Cell(b, a)] = v
        <5>1. Erased(d, l, n, k, a, b, v)
          BY <1>5, <2>3, <2>4, <3>2 DEF Erased
        <5> QED BY <5>1, ClearedLine
      <4>2. u = v
        BY <1>4, <2>5, <4>1
      <4> QED BY <4>2
    <3> QED BY <3>1, <3>2
  <2> QED BY <1>4, <1>6, <1>14, <2>2, <2>6, <2>7, Zenon
<1>16. Drawn(f.mem, f.x, f.y, p, q, T)
  BY <1>15 DEF Drawn
<1>17. Placed(f.x, f.y, p, q, T)
  BY <1>0, <1>1, <1>3, <1>4, <1>5, <1>14 DEF Placed
<1>18. LastRow(Roll(p), Len(q)) <= T + NUM_ROWS - 1 /\ f.x <= d.x
  BY <1>0, <1>4, <1>6, <1>9, <1>14
<1> QED BY <1>10, <1>14, <1>16, <1>17, <1>18, DrawnSound
-----------------------------------------------------------------------------
(* Enter: the newlines of the handler are the one that ends the line.       *)
Down(d) == SetCoords(d, 0, d.y + 1)

LEMMA PrintkDown ==
  ASSUME NEW d \in Displays(Cols, Rows)
  PROVE  /\ Printk(d, <<Newline>>) = Down(d)
         /\ Printk(d, <<Newline, Newline>>) = Down(Down(d))
<1>1. PICK D : D = Displays(Cols, Rows)
  OBVIOUS
<1>2. ASSUME NEW s \in Seq(Chars)
      PROVE  \E g : /\ g[0] = d /\ Printk(d, s) = g[Len(s)]
                    /\ \A k \in 1 .. Len(s) : g[k] = TermPutC(g[k - 1], s[k])
  <2>1. PICK n : n = Len(s)
    OBVIOUS
  <2>2. n \in Nat /\ DOMAIN s = 1 .. n /\ \A k \in 1 .. n : s[k] \in Chars
    BY <2>1
  <2>3. \A e \in D : \A k \in 1 .. n : TermPutC(e, s[k]) \in D
    BY <1>1, <2>2, TermPutCDraws, GridColumns
  <2>4. PrintkSteps(D, n, s) \in [1 .. n -> [D -> D]]
    BY <2>3 DEF PrintkSteps
  <2>5. Ends(Printk(d, s), n, D, d, PrintkSteps(D, n, s))
    BY <1>1, <2>2, <2>4, PrintkRuns
  <2>6. PICK g \in [0 .. n -> D] :
          Runs(g, n, d, PrintkSteps(D, n, s)) /\ Printk(d, s) = g[n]
    BY <2>5 DEF Ends
  <2>7. ASSUME NEW k \in 1 .. n PROVE g[k] = TermPutC(g[k - 1], s[k])
    <3>1. g[k] = PrintkSteps(D, n, s)[k][g[k - 1]]
      BY <2>6 DEF Runs
    <3>2. g[k - 1] \in D
      BY <2>2, <2>6
    <3> QED BY <3>1, <3>2 DEF PrintkSteps
  <2>8. g[0] = d
    BY <2>6 DEF Runs
  <2> QED BY <2>1, <2>6, <2>7, <2>8
<1>3. \A e : TermPutC(e, Newline) = Down(e)
  BY DEF TermPutC, Down
<1>4. Printk(d, <<Newline>>) = Down(d)
  <2>1. PICK s : s = <<Newline>>
    OBVIOUS
  <2>2. s \in Seq(Chars) /\ Len(s) = 1 /\ s[1] = Newline
    BY <2>1, Characters
  <2>3. PICK g : /\ g[0] = d /\ Printk(d, s) = g[Len(s)]
                 /\ \A k \in 1 .. Len(s) : g[k] = TermPutC(g[k - 1], s[k])
    BY <1>2, <2>2
  <2>4. g[1] = TermPutC(g[0], s[1])
    BY <2>2, <2>3
  <2> QED BY <1>3, <2>1, <2>2, <2>3, <2>4
<1>5. Printk(d, <<Newline, Newline>>) = Down(Down(d))
  <2>1. PICK s : s = <<Newline, Newline>>
    OBVIOUS
  <2>2. s \in Seq(Chars) /\ Len(s) = 2 /\ s[1] = Newline /\ s[2] = Newline
    BY <2>1, Characters
  <2>3. PICK g : /\ g[0] = d /\ Printk(d, s) = g[Len(s)]
                 /\ \A k \in 1 .. Len(s) : g[k] = TermPutC(g[k - 1], s[k])
    BY <1>2, <2>2
  <2>4. g[1] = TermPutC(g[0], s[1]) /\ g[2] = TermPutC(g[1], s[2])
    BY <2>2, <2>3
  <2> QED BY <1>3, <2>1, <2>2, <2>3, <2>4
<1> QED BY <1>4, <1>5

(* The text with a line entered ends at the start of a row.                 *)
LEMMA EnteredPaper ==
  ASSUME NEW p \in Seq(Chars), NEW l \in Seq(KEYS),
         Roll(p).col + Len(l) <= 2 * NUM_COLS, NEW q, q = Entered(p, l)
  PROVE  /\ q \in Seq(Chars) /\ Roll(q) \in Papers
         /\ Roll(q).col = 0
         /\ Roll(q).row = IF Roll(p).col + Len(l) <= NUM_COLS
                          THEN Roll(p).row + 1 ELSE Roll(p).row + 2
         /\ \A a \in Nat : \A b \in Cols :
              Ink(Roll(q), a, b) = Ink(Roll(p \o l), a, b)
<1>1. PICK z : z = p \o l
  OBVIOUS
<1>2. PICK R : R = Roll(z)
  OBVIOUS
<1>3. PICK r : r = Roll(p)
  OBVIOUS
<1>4. PICK n \in Nat : n = Len(l)
  OBVIOUS
<1>5. /\ z \in Seq(Chars) /\ R \in Papers /\ r \in Papers
      /\ R.row = LineRow(r.row, r.col, n) /\ R.col = LineCol(r.col, n)
  <2>1. l \in Seq(Chars)
    BY Characters
  <2>2. R \in LinePaper(r, l, n) /\ R \in Papers /\ r \in Papers
    BY <1>1, <1>2, <1>3, <1>4, LineOnPaper
  <2> QED BY <1>1, <2>1, <2>2 DEF LinePaper
<1>6. /\ r.row \in Nat /\ r.col \in Nat /\ r.col < NUM_COLS /\ NUM_COLS \in Nat
      /\ NUM_COLS # 0 /\ r.col + n <= 2 * NUM_COLS /\ (l # <<>> <=> n > 0)
  BY <1>3, <1>4, <1>5, PaperType, ScreenAssumption
<1>7. PICK down \in {0, 1} : down = IF l # <<>> /\ R.col = 0 THEN 0 ELSE 1
  OBVIOUS
<1>8. R.row + down = IF r.col + n <= NUM_COLS THEN r.row + 1 ELSE r.row + 2
  <2>1. CASE r.col + n < NUM_COLS
    BY <1>5, <1>6, <1>7, <2>1 DEF LineRow, LineCol
  <2>2. CASE r.col + n = NUM_COLS
    BY <1>5, <1>6, <1>7, <2>2 DEF LineRow, LineCol
  <2>3. CASE r.col + n > NUM_COLS /\ r.col + n < 2 * NUM_COLS
    BY <1>5, <1>6, <1>7, <2>3 DEF LineRow, LineCol
  <2>4. CASE r.col + n = 2 * NUM_COLS
    BY <1>5, <1>6, <1>7, <2>4 DEF LineRow, LineCol
  <2> QED BY <1>6, <2>1, <2>2, <2>3, <2>4
<1>9. CASE l # <<>> /\ R.col = 0
  <2>1. q = z /\ down = 0
    BY <1>1, <1>2, <1>7, <1>9 DEF Entered
  <2>2. R.row + down = R.row
    BY <1>5, <2>1, PaperType
  <2> QED BY <1>1, <1>2, <1>3, <1>4, <1>5, <1>8, <1>9, <2>1, <2>2
<1>10. CASE ~ (l # <<>> /\ R.col = 0)
  <2>1. q = Append(z, Newline) /\ down = 1
    BY <1>1, <1>2, <1>7, <1>10 DEF Entered
  <2>2. Newline \in Chars
    BY Characters
  <2>3. Roll(q) = OnPaper(R, Newline) /\ q \in Seq(Chars)
    BY <1>2, <1>5, <2>1, <2>2, RollPrints
  <2>4. /\ OnPaper(R, Newline) \in Papers
        /\ OnPaper(R, Newline).row = R.row + 1 /\ OnPaper(R, Newline).col = 0
    BY <1>5, <2>2, OnPaperStays
  <2>5. \A a \in Nat : \A b \in Cols : Ink(OnPaper(R, Newline), a, b) = Ink(R, a, b)
    BY <1>5, <2>2, OnPaperInk
  <2> QED BY <1>1, <1>2, <1>3, <1>4, <1>8, <2>1, <2>3, <2>4, <2>5
<1> QED BY <1>9, <1>10

LEMMA DownTwice ==
  ASSUME NEW d \in Displays(Cols, Rows), NEW r, NEW T \in Nat,
         Agrees(d.mem, r, T), Above(r, T), NEW m \in {1, 2},
         NEW e, e = IF m = 1 THEN Down(d) ELSE Down(Down(d)),
         NEW U, U = Higher(T, T + d.y + m)
  PROVE  /\ e \in Displays(Cols, Rows) /\ e.x = 0
         /\ U \in Nat /\ U + e.y = T + d.y + m
         /\ Agrees(e.mem, r, U)
<1>0. d.y \in Nat /\ T + d.y + 1 \in Nat /\ T + d.y + 2 \in Nat
  BY OnGrid
<1>1. PICK V : V = Higher(T, T + d.y + 1)
  OBVIOUS
<1>2. PICK f : f = Down(d)
  OBVIOUS
<1>3. /\ f \in Displays(Cols, Rows) /\ f.x = 0
      /\ V \in Nat /\ V >= T /\ V + f.y = T + d.y + 1
      /\ Agrees(f.mem, r, V)
  BY <1>1, <1>2, DownAgrees DEF Down
<1>4. CASE m = 1
  BY <1>1, <1>2, <1>3, <1>4
<1>5. CASE m = 2
  <2>1. e = SetCoords(f, 0, f.y + 1)
    BY <1>2, <1>5 DEF Down
  <2>2. Above(r, V)
    BY <1>3, ScreenAssumption DEF Above
  <2>3. PICK W : W = Higher(V, V + f.y + 1)
    OBVIOUS
  <2>4. /\ e \in Displays(Cols, Rows) /\ e.x = 0
        /\ W \in Nat /\ W >= V /\ W + e.y = V + f.y + 1
        /\ Agrees(e.mem, r, W)
    BY <1>3, <2>1, <2>2, <2>3, DownAgrees
  <2>5. f.y \in Nat /\ V + f.y + 1 = T + d.y + 2
    BY <1>0, <1>3, OnGrid
  <2>6. W = U
    <3>1. PICK i : i = T + d.y + 1
      OBVIOUS
    <3>2. PICK j : j = T + d.y + 2
      OBVIOUS
    <3>3. i \in Nat /\ j \in Nat /\ i <= j
      BY <1>0, <3>1, <3>2
    <3>4. Higher(Higher(T, i), j) = Higher(T, j)
      BY <3>3, HigherTwice
    <3>5. W = Higher(V, j) /\ V = Higher(T, i) /\ U = Higher(T, j)
      BY <1>1, <1>5, <2>3, <2>5, <3>1, <3>2
    <3> QED BY <3>4, <3>5
  <2> QED BY <1>5, <2>4, <2>5, <2>6
<1> QED BY <1>4, <1>5

LEMMA EnterSound ==
  ASSUME NEW d \in Displays(Cols, Rows), NEW p, NEW l, NEW w \in Int, NEW T,
         Sound(d.mem, d.x, d.y, p, l, w, T), Behind(d.mem),
         NEW s, s = IF Len(l) + 1 + w > NUM_COLS + 1 THEN <<Newline, Newline>>
                                                     ELSE <<Newline>>,
         w = d.x \/ s = <<Newline>>,
         NEW e, e = Printk(d, s), NEW q, q = Entered(p, l),
         NEW U, U = Higher(T, Roll(q).row)
  PROVE  Sound(e.mem, e.x, e.y, q, <<>>, w, U)
<1>0. /\ d.x \in Nat /\ d.x < NUM_COLS /\ d.y \in Nat
      /\ NUM_COLS \in Nat /\ NUM_ROWS \in Nat
  BY OnGrid, ScreenAssumption DEF Cols
<1>1. /\ p \in Seq(Chars) /\ l \in Seq(KEYS) /\ T \in Nat
      /\ d.x = Roll(p).col /\ T + d.y = Roll(p).row
      /\ d.x + Len(l) <= 2 * NUM_COLS
      /\ l # <<>> => d.x <= w
  BY DEF Sound, Placed
<1>2. PICK n \in Nat : n = Len(l)
  BY <1>1
<1>3. PICK m \in {1, 2} : m = IF d.x + n <= NUM_COLS THEN 1 ELSE 2
  OBVIOUS
<1>4. e = IF m = 1 THEN Down(d) ELSE Down(Down(d))
  <2>1. s = IF n + 1 + w > NUM_COLS + 1 THEN <<Newline, Newline>> ELSE <<Newline>>
    BY <1>2
  <2>2. n = 0 \/ d.x <= w
    BY <1>1, <1>2
  <2>3. <<Newline, Newline>> # <<Newline>>
    OBVIOUS
  <2>4. n + 1 + w > NUM_COLS + 1 => w = d.x
    BY <2>1, <2>3
  <2>5. m = 2 <=> n + 1 + w > NUM_COLS + 1
    BY <1>0, <1>3, <2>2, <2>4
  <2>6. s = IF m = 1 THEN <<Newline>> ELSE <<Newline, Newline>>
    BY <1>3, <2>1, <2>5
  <2> QED BY <2>6, PrintkDown
<1>5. PICK R : R = Roll(p \o l)
  OBVIOUS
<1>6. R \in Papers /\ Agrees(d.mem, R, T) /\ Above(R, T)
  BY <1>1, <1>5, SoundAgrees
<1>7. PICK r : r = Roll(q)
  OBVIOUS
<1>8. /\ q \in Seq(Chars) /\ r \in Papers /\ r.col = 0
      /\ r.row = T + d.y + m
      /\ \A a \in Nat : \A b \in Cols : Ink(r, a, b) = Ink(R, a, b)
  <2>1. Roll(p).col + Len(l) <= 2 * NUM_COLS
    BY <1>1
  <2>2. /\ q \in Seq(Chars) /\ r \in Papers /\ r.col = 0
        /\ r.row = IF Roll(p).col + Len(l) <= NUM_COLS
                   THEN Roll(p).row + 1 ELSE Roll(p).row + 2
        /\ \A a \in Nat : \A b \in Cols : Ink(r, a, b) = Ink(R, a, b)
    BY <1>1, <1>5, <1>7, <2>1, EnteredPaper
  <2>3. r.row = IF d.x + n <= NUM_COLS THEN T + d.y + 1 ELSE T + d.y + 2
    BY <1>1, <1>2, <2>2
  <2>4. r.row = T + d.y + m
    BY <1>3, <2>3
  <2> QED BY <2>2, <2>4
<1>9. U = Higher(T, T + d.y + m)
  BY <1>7, <1>8
<1>10. /\ e \in Displays(Cols, Rows) /\ e.x = 0
       /\ U \in Nat /\ U + e.y = T + d.y + m
       /\ Agrees(e.mem, R, U)
  BY <1>1, <1>4, <1>6, <1>9, DownTwice
<1>11. Agrees(e.mem, r, U)
  <2>1. \A a \in 0 .. NUM_ROWS : U + a \in Nat
    BY <1>0, <1>10
  <2> QED BY <1>8, <1>10, <2>1 DEF Agrees
<1>12. Matches(e, Roll(q), U)
  BY <1>7, <1>8, <1>10, <1>11 DEF Matches
<1> QED BY <1>8, <1>12, MatchesSound
-----------------------------------------------------------------------------
(* Ctrl+L: less than a row of characters printed from the top of a cleared  *)
(* screen; with fewer newlines than there are rows they land on it.         *)
Within(d, r, k) ==
  /\ d \in Displays(Cols, Nat) /\ r \in Papers /\ r.col <= k
  /\ r.row < NUM_ROWS =>
       /\ d.x = r.col /\ d.y = r.row
       /\ \A a \in Rows : \A b \in Cols : d.mem[Cell(b, a)] = Ink(r, a, b)

LEMMA WithinStep ==
  ASSUME NEW d, NEW r, NEW k \in Nat, Within(d, r, k),
         NEW j, j = k + 1, j < NUM_COLS, NEW c \in Chars,
         NEW e, e = PutC(d, c), NEW q, q = OnPaper(r, c)
  PROVE  Within(e, q, j)
<1>0. /\ d \in Displays(Cols, Nat) /\ r \in Papers /\ r.col <= k
      /\ r.row \in Nat /\ r.col \in Nat /\ NUM_COLS \in Nat /\ NUM_ROWS \in Nat
      /\ r.col + 1 # NUM_COLS
  <2>1. d \in Displays(Cols, Nat) /\ r \in Papers /\ r.col <= k
    BY DEF Within
  <2>2. r.row \in Nat /\ r.col \in Nat /\ NUM_COLS \in Nat /\ NUM_ROWS \in Nat
    BY <2>1, PaperType, ScreenAssumption
  <2> QED BY <2>1, <2>2
<1>1. e \in Displays(Cols, Nat)
  BY <1>0, PutCDraws, GridColumns
<1>2. /\ q \in Papers
      /\ c = Newline => q.row = r.row + 1 /\ q.col = 0
      /\ c # Newline => q.row = r.row /\ q.col = r.col + 1
  BY <1>0, OnPaperStays
<1>3. q.col <= j
  BY <1>0, <1>2
<1>4. ASSUME q.row < NUM_ROWS
      PROVE  /\ e.x = q.col /\ e.y = q.row
             /\ \A a \in Rows : \A b \in Cols : e.mem[Cell(b, a)] = Ink(q, a, b)
  <2>0. r.row < NUM_ROWS
    BY <1>0, <1>2, <1>4
  <2>1. /\ d.x = r.col /\ d.y = r.row
        /\ \A a \in Rows : \A b \in Cols : d.mem[Cell(b, a)] = Ink(r, a, b)
    BY <2>0 DEF Within
  <2>2. \A a \in Rows : a \in Nat /\ a \in 0 .. NUM_ROWS
    BY <1>0 DEF Rows
  <2>3. CASE c = Newline
    <3>1. e = [d EXCEPT !.x = 0, !.y = @ + 1]
      BY <2>3 DEF PutC
    <3>2. e.x = 0 /\ e.y = d.y + 1 /\ e.mem = d.mem
      BY <1>0, <3>1 DEF Displays
    <3>3. \A a \in Rows : \A b \in Cols : Ink(q, a, b) = Ink(r, a, b)
      BY <1>0, <2>2, <2>3, OnPaperInk
    <3> QED BY <1>2, <2>1, <2>3, <3>2, <3>3
  <2>4. CASE c # Newline
    <3>1. d \in Displays(Cols, Rows)
      <4>1. d.y \in Rows
        BY <1>0, <2>0, <2>1 DEF Rows
      <4> QED BY <1>0, <4>1 DEF Displays
    <3>2. /\ e.x = d.x + 1 /\ e.y = d.y /\ e.mem = Put(d, c).mem
      BY <1>0, <2>1, <2>4, <3>1, PutCGrid
    <3>3. ASSUME NEW a \in Rows, NEW b \in Cols
          PROVE  e.mem[Cell(b, a)] = Ink(q, a, b)
      <4>1. Put(d, c).mem[Cell(b, a)] =
              IF b = d.x /\ a = d.y THEN c ELSE d.mem[Cell(b, a)]
        BY <2>2, <3>1, PutCell
      <4>2. Ink(q, a, b) = IF a = r.row /\ b = r.col THEN c ELSE Ink(r, a, b)
        BY <1>0, <2>2, <2>4, OnPaperInk
      <4> QED BY <2>1, <3>2, <4>1, <4>2
    <3> QED BY <1>2, <2>1, <2>4, <3>2, <3>3
  <2> QED BY <2>3, <2>4
<1> QED BY <1>1, <1>2, <1>3, <1>4 DEF Within

LEMMA PutCsWithin ==
  ASSUME NEW d, Within(d, Unused, 0), NEW s \in Seq(Chars), Len(s) < NUM_COLS
  PROVE  Within(PutCs(d, s), Roll(s), Len(s))
<1>0. d \in Displays(Cols, Nat) /\ Unused \in Papers /\ NUM_COLS \in Nat
  BY UnusedPaper, ScreenAssumption DEF Within
<1>1. PICK n : n = Len(s)
  OBVIOUS
<1>2. n \in Nat /\ DOMAIN s = 1 .. n /\ \A k \in 1 .. n : s[k] \in Chars
  BY <1>1
<1>3. PICK D : D = Displays(Cols, Nat)
  OBVIOUS
<1>4. \A e \in D : \A k \in 1 .. n : PutC(e, s[k]) \in D
  BY <1>2, <1>3, PutCDraws, GridColumns
<1>5. PutCSteps(D, n, s) \in [1 .. n -> [D -> D]]
  BY <1>4 DEF PutCSteps
<1>6. Ends(PutCs(d, s), n, D, d, PutCSteps(D, n, s))
  BY <1>0, <1>2, <1>3, <1>5, PutCRuns
<1>7. PICK g \in [0 .. n -> D] :
        Runs(g, n, d, PutCSteps(D, n, s)) /\ PutCs(d, s) = g[n]
  BY <1>6 DEF Ends
<1>8. PICK h : PaperRun(h, Unused, s) /\ Prints(Unused, s) = h[n]
  BY <1>0, <1>1, PaperRunExists
<1>9. PICK j : j = [k \in 0 .. n |-> <<g[k], h[k]>>]
  OBVIOUS
<1>10. PICK G : G = [k \in 0 .. n |-> {e \in D \X Papers : Within(e[1], e[2], k)}]
  OBVIOUS
<1>11. j[0] \in G[0]
  <2>1. 0 \in 0 .. n /\ g[0] = d /\ h[0] = Unused
    BY <1>2, <1>7, <1>8 DEF Runs, PaperRun
  <2> QED BY <1>0, <1>3, <1>9, <1>10, <2>1
<1>12. ASSUME NEW k \in 1 .. n, j[k - 1] \in G[k - 1] PROVE j[k] \in G[k]
  <2>1. k - 1 \in 0 .. n /\ k \in 0 .. n /\ k - 1 \in Nat /\ k = k - 1 + 1 /\ k < NUM_COLS
    BY <1>0, <1>1, <1>2
  <2>2. PICK e \in D : e = g[k - 1]
    BY <1>7, <2>1
  <2>3. PICK f : f = h[k - 1]
    OBVIOUS
  <2>4. Within(e, f, k - 1)
    BY <1>9, <1>10, <1>12, <2>1, <2>2, <2>3
  <2>5. g[k] = PutC(e, s[k])
    <3>1. g[k] = PutCSteps(D, n, s)[k][g[k - 1]]
      BY <1>7 DEF Runs
    <3> QED BY <2>2, <3>1 DEF PutCSteps
  <2>6. h[k] = OnPaper(f, s[k])
    BY <1>1, <1>8, <2>3 DEF PaperRun
  <2>7. s[k] \in Chars
    BY <1>2
  <2>8. Within(g[k], h[k], k)
    BY <2>1, <2>4, <2>5, <2>6, <2>7, WithinStep
  <2>9. g[k] \in D /\ h[k] \in Papers
    BY <1>3, <2>8 DEF Within
  <2> QED BY <1>9, <1>10, <2>1, <2>8, <2>9
<1>13. \A k \in 0 .. n : j[k] \in G[k]
  BY <1>2, <1>11, <1>12, RunStays
<1>14. n \in 0 .. n
  BY <1>2
<1>15. Within(g[n], h[n], n)
  BY <1>9, <1>10, <1>13, <1>14
<1>16. Roll(s) = h[n]
  BY <1>8, RollPrints
<1> QED BY <1>1, <1>7, <1>15, <1>16

LEMMA ClearedWithin ==
  ASSUME NEW X, NEW Y, NEW d \in Displays(X, Y)
  PROVE  Within(SetCoords(Clear(d), 0, 0), Unused, 0)
<1>0. 0 \in Cols /\ 0 \in Rows /\ 0 \in Nat /\ NUM_ROWS \in Nat /\ 0 < NUM_ROWS
  BY ScreenAssumption DEF Cols, Rows
<1>1. PICK e \in Displays(X, Y) : e = Clear(d)
  BY ClearDraws
<1>2. PICK f : f = SetCoords(e, 0, 0)
  OBVIOUS
<1>3. f = [e EXCEPT !.x = 0, !.y = 0]
  BY <1>0, <1>2 DEF SetCoords
<1>4. f \in Displays(Cols, Nat) /\ f.x = 0 /\ f.y = 0 /\ f.mem = e.mem
  BY <1>0, <1>3 DEF Displays
<1>5. \A a \in Rows : \A b \in Cols : f.mem[Cell(b, a)] = Ink(Unused, a, b)
  BY <1>1, <1>4, ClearCell, UnusedPaper
<1>6. Unused.col <= 0
  BY UnusedPaper
<1> QED BY <1>1, <1>2, <1>4, <1>5, <1>6, UnusedPaper DEF Within

(* The line and the blank behind it take no second row.                     *)
Short(p, l, z) ==
  /\ Roll(z).row = Roll(p).row /\ Roll(z).col = Roll(p).col + Len(l) + 1
  /\ LastRow(Roll(p), Len(l)) = Roll(p).row
  /\ \A a \in Nat : \A b \in Cols : Ink(Roll(z), a, b) = Ink(Roll(p \o l), a, b)

LEMMA ShortRow ==
  ASSUME NEW p \in Seq(Chars), NEW l \in Seq(KEYS),
         Roll(p).col + Len(l) + 1 < NUM_COLS,
         NEW z, z = p \o Append(l, Blank)
  PROVE  Short(p, l, z)
<1>0. /\ l \in Seq(Chars) /\ Blank \in Chars /\ Blank # Newline
  BY Characters DEF Blank, Newline
<1>1. PICK r \in Papers : r = Roll(p)
  BY RollPrints
<1>2. PICK n \in Nat : n = Len(l)
  OBVIOUS
<1>3. r.row \in Nat /\ r.col \in Nat /\ NUM_COLS \in Nat /\ r.col + n + 1 < NUM_COLS
  BY <1>1, <1>2, PaperType, ScreenAssumption
<1>4. PICK R \in Papers : R = Roll(p \o l)
  <2>1. p \o l \in Seq(Chars)
    BY <1>0
  <2>2. Roll(p \o l) \in Papers
    BY <2>1, RollPrints
  <2> QED BY <2>2
<1>5. R.row = r.row /\ R.col = r.col + n
  <2>1. Roll(p).col + Len(l) <= 2 * NUM_COLS
    BY <1>1, <1>2, <1>3
  <2>2. R \in LinePaper(r, l, n)
    BY <1>1, <1>2, <1>4, <2>1, LineOnPaper
  <2> QED BY <1>3, <2>2 DEF LinePaper, LineRow, LineCol
<1>6. Roll(z) = OnPaper(R, Blank)
  <2>1. Append(l, Blank) \in Seq(Chars)
    BY <1>0
  <2>2. Roll(z) = Prints(r, Append(l, Blank))
    BY <1>1, <2>1, RollPrints
  <2>3. Prints(r, Append(l, Blank)) = OnPaper(Prints(r, l), Blank)
    BY <1>0, PrintsAppend
  <2>4. R = Prints(r, l)
    BY <1>0, <1>1, <1>4, RollPrints
  <2> QED BY <2>2, <2>3, <2>4
<1>7. PICK q : q = OnPaper(R, Blank)
  OBVIOUS
<1>8. q.row = r.row /\ q.col = r.col + n + 1
  <2>1. /\ q.row = (IF R.col + 1 = NUM_COLS THEN R.row + 1 ELSE R.row)
        /\ q.col = (IF R.col + 1 = NUM_COLS THEN 0 ELSE R.col + 1)
    BY <1>0, <1>7, OnPaperStays
  <2> QED BY <1>3, <1>5, <2>1
<1>9. ASSUME NEW a \in Nat, NEW b \in Cols
      PROVE  Ink(q, a, b) = Ink(R, a, b)
  <2>1. Ink(q, a, b) = IF a = R.row /\ b = R.col THEN Blank ELSE Ink(R, a, b)
    BY <1>0, <1>7, OnPaperInk
  <2>2. a = R.row /\ b = R.col => Ink(R, a, b) = Blank
    <3>1. a = R.row /\ b = R.col => b >= R.col
      BY <1>3, <1>5
    <3> QED BY <3>1, Ahead
  <2> QED BY <2>1, <2>2
<1>10. LastRow(r, n) = r.row
  BY <1>3 DEF LastRow
<1> QED BY <1>1, <1>2, <1>4, <1>6, <1>7, <1>8, <1>9, <1>10 DEF Short

LEMMA ResetSound ==
  ASSUME NEW X, NEW Y, NEW d \in Displays(X, Y),
         NEW p \in Seq(Chars), NEW l \in Seq(KEYS), NEW z, z = p \o Append(l, Blank),
         Len(p) + Len(l) + 1 < NUM_COLS, Roll(p).row < NUM_ROWS,
         NEW e, e = PutCs(SetCoords(Clear(d), 0, 0), z),
         NEW f, f = SetCoords(e, e.x - Len(l) - 1, e.y),
         NEW U, U = Higher(0, LastRow(Roll(p), Len(l)))
  PROVE  Sound(f.mem, f.x, f.y, p, l, Len(p), U)
<1>0. Blank \in Chars /\ NUM_ROWS \in Nat /\ NUM_COLS \in Nat
  BY Characters, ScreenAssumption
<1>1. PICK n \in Nat : n = Len(l)
  OBVIOUS
<1>2. PICK m \in Nat : m = Len(p)
  OBVIOUS
<1>3. z \in Seq(Chars) /\ Len(z) = m + n + 1
  <2>1. Append(l, Blank) \in Seq(Chars) /\ Len(Append(l, Blank)) = n + 1
    BY <1>0, <1>1, Characters
  <2>2. z \in Seq(Chars) /\ Len(z) = Len(p) + Len(Append(l, Blank))
    BY <2>1
  <2> QED BY <1>2, <2>1, <2>2
<1>4. PICK r : r = Roll(p)
  OBVIOUS
<1>5. PICK s : s = SetCoords(Clear(d), 0, 0)
  OBVIOUS
<1>6. Within(s, Unused, 0)
  BY <1>5, ClearedWithin
<1>7. /\ r \in Papers /\ r.row \in Nat /\ r.col \in Cols /\ r.col \in Nat /\ r.col <= m
  <2>1. Within(PutCs(s, p), r, m)
    <3>1. Len(p) < NUM_COLS
      BY <1>0, <1>1, <1>2
    <3> QED BY <1>2, <1>4, <1>6, <3>1, PutCsWithin
  <2>2. r \in Papers /\ r.col <= m
    BY <2>1 DEF Within
  <2> QED BY <2>2, PaperType
<1>8. r.col + n + 1 < NUM_COLS
  BY <1>0, <1>1, <1>2, <1>7
<1>9. PICK R : R = Roll(z)
  OBVIOUS
<1>10. /\ R.row = r.row /\ R.col = r.col + n + 1
       /\ LastRow(r, n) = r.row
       /\ \A a \in Nat : \A b \in Cols : Ink(R, a, b) = Ink(Roll(p \o l), a, b)
  <2>1. Roll(p).col + Len(l) + 1 < NUM_COLS
    BY <1>1, <1>4, <1>8
  <2>2. Short(p, l, z)
    BY <2>1, ShortRow
  <2> QED BY <1>1, <1>4, <1>9, <2>2 DEF Short
<1>11. Within(e, R, m + n + 1)
  <2>1. Len(z) < NUM_COLS
    BY <1>1, <1>2, <1>3
  <2> QED BY <1>3, <1>5, <1>6, <1>9, <2>1, PutCsWithin
<1>12. /\ e \in Displays(Cols, Nat) /\ e.x = r.col + n + 1 /\ e.y = r.row
       /\ \A a \in Rows : \A b \in Cols : e.mem[Cell(b, a)] = Ink(R, a, b)
  BY <1>4, <1>10, <1>11 DEF Within
<1>13. f.x = r.col /\ f.y = r.row /\ f.mem = e.mem
  <2>1. e.x - Len(l) - 1 = r.col /\ ~ (e.y >= NUM_ROWS)
    BY <1>0, <1>1, <1>4, <1>7, <1>12
  <2>2. f = [e EXCEPT !.x = r.col]
    BY <1>12, <2>1 DEF SetCoords, Displays
  <2> QED BY <1>12, <2>2 DEF Displays
<1>14. U = 0
  BY <1>0, <1>1, <1>4, <1>7, <1>10 DEF Higher
<1>15. Placed(f.x, f.y, p, l, U)
  <2>1. /\ U \in Nat /\ f.y \in Int /\ U + f.y = r.row
        /\ f.x = r.col /\ f.x + n <= 2 * NUM_COLS
    BY <1>0, <1>7, <1>8, <1>13, <1>14
  <2> QED BY <1>1, <1>4, <2>1 DEF Placed
<1>16. f.x <= Len(p) /\ LastRow(Roll(p), Len(l)) <= U + NUM_ROWS - 1
  BY <1>0, <1>1, <1>2, <1>4, <1>7, <1>10, <1>13, <1>14
<1>17. ASSUME NEW a \in Rows, NEW b \in Cols
       PROVE  f.mem[Cell(b, a)] = Ink(Roll(p \o l), U + a, b)
  <2>1. a \in Nat /\ U + a = a
    BY <1>0, <1>14 DEF Rows
  <2> QED BY <1>10, <1>12, <1>13, <2>1
<1> QED BY <1>15, <1>16, <1>17 DEF Sound
-----------------------------------------------------------------------------
(* The inductive invariant of ScreenIsText: the screen of every terminal    *)
(* that is not spoiled shows its text, with nothing behind the last row.    *)
Good(t) ==
  /\ Tidy
  /\ Sound(Screen(t), screen_x[t], screen_y[t], paper[t], line[t],
           writeindex[t], top[t])

Papered == DOMAIN paper = Terminals /\ DOMAIN top = Terminals

SInv ==
  /\ Papered
  /\ \A t \in Terminals : spoiled[t] = 0 => Good(t)

LEMMA SoundSame ==
  ASSUME NEW M, NEW N, NEW x, NEW y, NEW p, NEW l, NEW w, NEW T,
         Sound(M, x, y, p, l, w, T), \A a \in ScreenCells : N[a] = M[a]
  PROVE  Sound(N, x, y, p, l, w, T)
<1>1. ASSUME NEW a \in Rows, NEW b \in Cols
      PROVE  N[Cell(b, a)] = Ink(Roll(p \o l), T + a, b)
  <2>1. a \in 0 .. NUM_ROWS
    BY ScreenAssumption DEF Rows
  <2>2. Cell(b, a) \in ScreenCells
    BY <2>1, CellIn
  <2>3. M[Cell(b, a)] = Ink(Roll(p \o l), T + a, b)
    BY DEF Sound
  <2> QED BY <2>2, <2>3
<1> QED BY <1>1 DEF Sound

(* A screen that shows its text: the one on display.                        *)
LEMMA ShownGood ==
  ASSUME IInv, SInv, spoiled[shown] = 0, NEW d, d = Display
  PROVE  /\ d \in Displays(Cols, Rows) /\ Behind(d.mem)
         /\ d.x = screen_x[shown] /\ d.y = screen_y[shown]
         /\ Sound(d.mem, d.x, d.y, paper[shown], line[shown], writeindex[shown],
                  top[shown])
         /\ paper[shown] \in Seq(Chars) /\ top[shown] \in Nat
         /\ line[shown] \in Seq(KEYS)
<1>0. shown \in Terminals /\ d.x = screen_x[shown] /\ d.y = screen_y[shown]
      /\ d.mem = video_mem
  BY Shown DEF Display
<1>1. Good(shown)
  BY <1>0 DEF SInv
<1>2. PICK M : M = Screen(shown)
  OBVIOUS
<1>3. Sound(M, d.x, d.y, paper[shown], line[shown], writeindex[shown], top[shown])
  BY <1>0, <1>1, <1>2 DEF Good
<1>4. \A a \in ScreenCells : d.mem[a] = M[a]
  BY <1>0, <1>2 DEF Screen, shown
<1>5. Sound(d.mem, d.x, d.y, paper[shown], line[shown], writeindex[shown], top[shown])
  BY <1>3, <1>4, SoundSame
<1>6. /\ paper[shown] \in Seq(Chars) /\ line[shown] \in Seq(KEYS)
      /\ top[shown] \in Nat /\ d.x = Roll(paper[shown]).col
  BY <1>3 DEF Sound, Placed
<1>7. d.x \in Cols
  BY <1>6, RollPrints, PaperType
<1>8. screen_y[shown] \in 0 .. NUM_ROWS - 1
  BY <1>0 DEF IInv, TypeOK
<1>9. OnScreen(shown)
  BY <1>0, <1>7, <1>8 DEF OnScreen, Cols
<1>10. d \in Displays(Cols, Rows)
  BY <1>9, Shown DEF Cols
<1>11. Behind(d.mem)
  BY <1>0, <1>1, TidyBehind DEF Good
<1> QED BY <1>0, <1>5, <1>6, <1>10, <1>11

(* Spoiled screens stay spoiled, but for Ctrl+L.                            *)
LEMMA SpoilZero ==
  ASSUME IInv, NEW t \in Terminals, NEW ok, Spoil(t, ok) = 0
  PROVE  ok /\ spoiled[t] = 0
<1>1. spoiled[t] \in Nat
  BY TextAssumption DEF IInv, TypeOK
<1>2. Max({spoiled[t], 1}) # 0
  <2>1. Max({spoiled[t], 1}) = IF spoiled[t] >= 1 THEN spoiled[t] ELSE 1
    BY <1>1, MaxOfTwo
  <2> QED BY <1>1, <2>1
<1> QED BY <1>2 DEF Spoil

LEMMA RecordZero ==
  ASSUME IInv, NEW p, NEW l, NEW from, NEW ok, Record(p, l, from, ok),
         NEW t \in Terminals, spoiled'[t] = 0
  PROVE  /\ Tidy'
         /\ t = shown => ok
         /\ t # shown => spoiled[t] = 0
<1>1. spoiled'[t] = IF t # shown THEN Spoil(t, Tidy')
                    ELSE IF ok /\ Tidy' THEN 0
                    ELSE IF Followed THEN spoiled[t] + 1 ELSE SPOILED
  BY DEF Record
<1>2. CASE t # shown
  <2>1. Spoil(t, Tidy') = 0
    BY <1>1, <1>2
  <2> QED BY <1>2, <2>1, SpoilZero
<1>3. CASE t = shown
  <2>1. spoiled[t] \in Nat /\ SPOILED # 0
    BY TextAssumption DEF IInv, TypeOK
  <2>2. spoiled[t] + 1 # 0
    BY <2>1
  <2> QED BY <1>1, <1>3, <2>1, <2>2
<1> QED BY <1>2, <1>3

LEMMA Recorded ==
  ASSUME IInv, SInv, NEW p, NEW l, NEW from, NEW ok, Record(p, l, from, ok)
  PROVE  /\ Papered'
         /\ paper'[shown] = p
         /\ top'[shown] = Max({from, TopFor(p, l)})
         /\ \A t \in Terminals : t # shown => paper'[t] = paper[t] /\ top'[t] = top[t]
<1>1. shown \in Terminals /\ DOMAIN paper = Terminals /\ DOMAIN top = Terminals
  BY Shown DEF SInv, Papered
<1>2. /\ paper' = [paper EXCEPT ![shown] = p]
      /\ top' = [top EXCEPT ![shown] = Max({from, TopFor(p, l)})]
  BY DEF Record
<1> QED BY <1>1, <1>2 DEF Papered

(* A terminal of which nothing changes.                                     *)
LEMMA StaysGood ==
  ASSUME SInv, NEW t \in Terminals, Kept(t), spoiled[t] = 0, Tidy',
         paper'[t] = paper[t], top'[t] = top[t], writeindex'[t] = writeindex[t]
  PROVE  Good(t)'
<1>1. Good(t)
  BY DEF SInv
<1>2. PICK M : M = Screen(t)
  OBVIOUS
<1>3. PICK N : N = Screen(t)'
  OBVIOUS
<1>4. Sound(M, screen_x[t], screen_y[t], paper[t], line[t], writeindex[t], top[t])
  BY <1>1, <1>2 DEF Good
<1>5. \A a \in ScreenCells : N[a] = M[a]
  BY <1>2, <1>3 DEF Kept
<1>6. Sound(N, screen_x[t], screen_y[t], paper[t], line[t], writeindex[t], top[t])
  BY <1>4, <1>5, SoundSame
<1>7. screen_x'[t] = screen_x[t] /\ screen_y'[t] = screen_y[t] /\ line'[t] = line[t]
  BY DEF Kept
<1>8. Sound(Screen(t)', screen_x'[t], screen_y'[t], paper'[t], line'[t],
            writeindex'[t], top'[t])
  BY <1>3, <1>6, <1>7
<1> QED BY <1>8 DEF Good

(* The terminal on the screen, after it was drawn on.                       *)
LEMMA DrawnGood ==
  ASSUME IInv, NEW d, Show(d), NEW t, t = shown, current_terminal' = current_terminal,
         NEW p, NEW l, NEW w, NEW T, Sound(d.mem, d.x, d.y, p, l, w, T), Tidy',
         paper'[t] = p, line'[t] = l, writeindex'[t] = w, top'[t] = T
  PROVE  Good(t)'
<1>1. /\ t \in Terminals /\ t \in DOMAIN screen_x /\ t \in DOMAIN screen_y
  BY Shown, InvParts DEF DisplayOK
<1>2. screen_x'[t] = d.x /\ screen_y'[t] = d.y /\ video_mem' = d.mem
  BY <1>1 DEF Show
<1>3. PICK N : N = Screen(t)'
  OBVIOUS
<1>4. \A a \in ScreenCells : N[a] = d.mem[a]
  BY <1>2, <1>3 DEF Screen, shown
<1>5. Sound(N, d.x, d.y, p, l, w, T)
  BY <1>4, SoundSame
<1>6. Sound(Screen(t)', screen_x'[t], screen_y'[t], paper'[t], line'[t],
            writeindex'[t], top'[t])
  BY <1>2, <1>3, <1>5
<1> QED BY <1>6 DEF Good

(* What the steps that draw have in common.                                 *)
Drawing == \/ \E s \in WRITES : Write(s)
           \/ \E c \in KEYS : Key(c)
           \/ Backspace
           \/ Enter
           \/ Reset
           \/ HelperClear
           \/ HelperPrint

LEMMA DrawingLeaves ==
  ASSUME IInv, Drawing, NEW t \in Terminals, t # shown
  PROVE  Kept(t) /\ writeindex'[t] = writeindex[t]
<1>1. Kept(t)
  BY DrawingKeeps DEF Drawing
<1>2. \E w : writeindex' = writeindex \/ writeindex' = [writeindex EXCEPT ![shown] = w]
  BY Zenon DEF Drawing, Write, Key, Backspace, Enter, Reset, HelperClear, HelperPrint
<1>3. t \in DOMAIN writeindex
  BY InvParts DEF BuffersOK
<1> QED BY <1>1, <1>2, <1>3

LEMMA DrawingSInv ==
  ASSUME IInv, SInv, Drawing, current_terminal' = current_terminal,
         NEW p, NEW l, NEW from, NEW ok, Record(p, l, from, ok),
         ok /\ Tidy' => Good(shown)'
  PROVE  SInv'
<1>1. Papered'
  BY Recorded
<1>2. ASSUME NEW t \in Terminals, spoiled'[t] = 0
      PROVE  Good(t)'
  <2>0. /\ Tidy' /\ (t = shown => ok) /\ (t # shown => spoiled[t] = 0)
    BY <1>2, RecordZero
  <2>1. CASE t # shown
    <3>1. Kept(t) /\ writeindex'[t] = writeindex[t]
      BY <2>1, DrawingLeaves
    <3>2. paper'[t] = paper[t] /\ top'[t] = top[t]
      BY <2>1, Recorded
    <3> QED BY <2>0, <2>1, <3>1, <3>2, StaysGood
  <2>2. CASE t = shown
    <3>1. t = current_terminal'
      BY <2>2 DEF shown
    <3>2. Good(shown)'
      BY <2>0, <2>2
    <3> QED BY <2>2, <3>1, <3>2 DEF shown
  <2> QED BY <2>1, <2>2
<1> QED BY <1>1, <1>2 DEF SInv
-----------------------------------------------------------------------------
LEMMA LineStartTop ==
  ASSUME NEW p \in Seq(Chars), NEW T \in Nat
  PROVE  Max({T, TopFor(p, <<>>)}) = Higher(T, Roll(p).row)
<1>1. PICK r \in Papers : r = Roll(p)
  BY RollPrints
<1>2. r.row \in Nat /\ r.col \in Nat /\ r.col < NUM_COLS /\ NUM_COLS \in Nat
  BY PaperType, ScreenAssumption
<1>3. PICK l \in Seq(KEYS) : l = <<>>
  <2>1. <<>> \in Seq(KEYS)
    OBVIOUS
  <2> QED BY <2>1
<1>4. Len(l) = 0 /\ Roll(p).col + Len(l) <= 2 * NUM_COLS /\ LastRow(r, 0) = r.row
  BY <1>1, <1>2, <1>3 DEF LastRow
<1>5. Max({T, TopFor(p, l)}) = Higher(T, LastRow(Roll(p), Len(l)))
  BY <1>4, TopIs
<1> QED BY <1>1, <1>3, <1>4, <1>5

(* A sound screen with no line on it is what the printer printed.           *)
LEMMA LineStartMatches ==
  ASSUME NEW d \in Displays(Cols, Rows), Behind(d.mem), NEW p \in Seq(Chars),
         NEW T \in Nat, NEW w, Sound(d.mem, d.x, d.y, p, <<>>, w, T)
  PROVE  Matches(d, Roll(p), T)
<1>1. p \o <<>> = p
  OBVIOUS
<1>2. PICK l \in Seq(KEYS) : l = <<>>
  <2>1. <<>> \in Seq(KEYS)
    OBVIOUS
  <2> QED BY <2>1
<1>3. Sound(d.mem, d.x, d.y, p, l, w, T)
  BY <1>2
<1>4. Agrees(d.mem, Roll(p \o l), T)
  BY <1>3, SoundAgrees
<1>5. d.x = Roll(p).col /\ T + d.y = Roll(p).row
  BY DEF Sound, Placed
<1>6. Roll(p) \in Papers
  BY RollPrints
<1> QED BY <1>1, <1>2, <1>4, <1>5, <1>6 DEF Matches

(* Each step that draws.                                                    *)
LEMMA WriteSInv ==
  ASSUME IInv, SInv, NEW s \in WRITES, Write(s)
  PROVE  SInv'
<1>1. PICK d : d = Display
  OBVIOUS
<1>2. PICK e : e = Writes(d, s)
  OBVIOUS
<1>3. PICK p : p = paper[shown]
  OBVIOUS
<1>4. PICK q : q = Written(p, s)
  OBVIOUS
<1>5. PICK T : T = top[shown]
  OBVIOUS
<1>6. PICK t : t = shown
  OBVIOUS
<1>7. Show(e)
  BY <1>1, <1>2, Zenon DEF Write, Writes, WriteStep
<1>8. Record(q, line[shown], T, Regular /\ line[shown] = <<>>)
  BY <1>3, <1>4, <1>5, Zenon DEF Write
<1>9. /\ current_terminal' = current_terminal /\ line' = line
      /\ writeindex' = [writeindex EXCEPT ![shown] = Len(s)]
  BY Zenon DEF Write
<1>10. ASSUME Regular, line[shown] = <<>>, Tidy' PROVE Good(shown)'
  <2>1. spoiled[shown] = 0
    BY <1>10 DEF Regular
  <2>2. /\ d \in Displays(Cols, Rows) /\ Behind(d.mem)
        /\ Sound(d.mem, d.x, d.y, p, <<>>, writeindex[shown], T)
        /\ p \in Seq(Chars) /\ T \in Nat
    BY <1>1, <1>3, <1>5, <1>10, <2>1, ShownGood
  <2>3. Matches(d, Roll(p), T)
    BY <2>2, LineStartMatches
  <2>4. s \in Seq(Chars)
    BY TextAssumption
  <2>5. PICK U : U = Higher(T, Roll(q).row)
    OBVIOUS
  <2>6. q \in Seq(Chars) /\ Matches(e, Roll(q), U)
    BY <1>2, <1>4, <2>2, <2>3, <2>4, <2>5, WriteMatches
  <2>7. Sound(e.mem, e.x, e.y, q, <<>>, Len(s), U)
    BY <2>6, MatchesSound
  <2>8. /\ paper'[t] = q /\ top'[t] = Max({T, TopFor(q, <<>>)})
    BY <1>6, <1>8, <1>10, Recorded
  <2>9. top'[t] = U
    BY <2>2, <2>5, <2>6, <2>8, LineStartTop
  <2>10. line'[t] = <<>>
    BY <1>6, <1>9, <1>10
  <2>11. writeindex'[t] = Len(s)
    BY <1>6, <1>9, Shown, InvParts DEF BuffersOK
  <2>12. Good(t)'
    BY <1>6, <1>7, <1>9, <1>10, <2>7, <2>8, <2>9, <2>10, <2>11, DrawnGood
  <2> QED BY <1>6, <1>9, <2>12 DEF shown
<1>11. Drawing
  BY DEF Drawing
<1> QED BY <1>8, <1>9, <1>10, <1>11, DrawingSInv

LEMMA KeySInv ==
  ASSUME IInv, SInv, NEW c \in KEYS, Key(c)
  PROVE  SInv'
<1>1. PICK d : d = Display
  OBVIOUS
<1>2. PICK l : l = line[shown]
  OBVIOUS
<1>3. PICK p : p = paper[shown]
  OBVIOUS
<1>4. PICK q : q = Append(l, c)
  OBVIOUS
<1>5. PICK T : T = top[shown]
  OBVIOUS
<1>6. PICK t : t = shown
  OBVIOUS
<1>7. PICK x : x = screen_x[shown]
  OBVIOUS
<1>8. PICK e : e = Redrawn(d, q, x)
  OBVIOUS
<1>9. PICK f : f = SetCoords(e, x, e.y)
  OBVIOUS
<1>10. Show(f)
  BY <1>1, <1>2, <1>4, <1>7, <1>8, <1>9, Zenon DEF Key
<1>11. Record(p, q, T, Regular /\ x + Len(q) <= 2 * NUM_COLS)
  BY <1>2, <1>3, <1>4, <1>5, <1>7, Zenon DEF Key
<1>12. /\ current_terminal' = current_terminal
       /\ line' = [line EXCEPT ![shown] = q]
       /\ writeindex' = [writeindex EXCEPT ![shown] = x]
  BY <1>2, <1>4, <1>7, Zenon DEF Key
<1>13. ASSUME Regular, x + Len(q) <= 2 * NUM_COLS, Tidy' PROVE Good(shown)'
  <2>1. spoiled[shown] = 0
    BY <1>13 DEF Regular
  <2>2. /\ d \in Displays(Cols, Rows) /\ Behind(d.mem) /\ d.x = x
        /\ Sound(d.mem, d.x, d.y, p, l, writeindex[shown], T)
        /\ p \in Seq(Chars) /\ T \in Nat /\ l \in Seq(KEYS)
    BY <1>1, <1>2, <1>3, <1>5, <1>7, <2>1, ShownGood
  <2>3. PICK U : U = Higher(T, LastRow(Roll(p), Len(q)))
    OBVIOUS
  <2>4. e = Redrawn(d, q, d.x) /\ f = SetCoords(e, d.x, e.y)
        /\ d.x + Len(q) <= 2 * NUM_COLS
    BY <1>8, <1>9, <1>13, <2>2
  <2>5. Sound(f.mem, f.x, f.y, p, q, d.x, U)
    BY <1>4, <2>2, <2>3, <2>4, KeySound
  <2>6. q \in Seq(KEYS) /\ Roll(p).col + Len(q) <= 2 * NUM_COLS
    BY <1>4, <2>2, <2>5, <2>4 DEF Sound, Placed
  <2>7. paper'[t] = p /\ top'[t] = Max({T, TopFor(p, q)})
    BY <1>6, <1>11, Recorded
  <2>8. top'[t] = U
    BY <2>2, <2>3, <2>6, <2>7, TopIs
  <2>9. line'[t] = q /\ writeindex'[t] = d.x
    BY <1>6, <1>12, <2>2, Shown, InvParts DEF BuffersOK, LinesOK
  <2>10. Good(t)'
    BY <1>6, <1>10, <1>12, <1>13, <2>5, <2>7, <2>8, <2>9, DrawnGood
  <2> QED BY <1>6, <1>12, <2>10 DEF shown
<1>14. Drawing
  BY DEF Drawing
<1> QED BY <1>11, <1>12, <1>13, <1>14, DrawingSInv

LEMMA BackspaceSInv ==
  ASSUME IInv, SInv, Backspace
  PROVE  SInv'
<1>1. PICK d : d = Display
  OBVIOUS
<1>2. PICK l : l = line[shown]
  OBVIOUS
<1>3. PICK p : p = paper[shown]
  OBVIOUS
<1>4. PICK q : q = IF l = <<>> THEN <<>> ELSE Front(l)
  OBVIOUS
<1>5. PICK T : T = top[shown]
  OBVIOUS
<1>6. PICK t : t = shown
  OBVIOUS
<1>7. PICK x : x = writeindex[shown]
  OBVIOUS
<1>8. PICK b : b = SetCoords(d, x, screen_y[shown])
  OBVIOUS
<1>9. PICK s : s = IF Len(q) >= NUM_COLS - x THEN ClearLine(b, 0, b.y + 1)
                                             ELSE ClearLine(b, x, b.y)
  OBVIOUS
<1>10. PICK e : e = Redrawn(s, q, x)
  OBVIOUS
<1>11. PICK f : f = SetCoords(e, x, e.y)
  OBVIOUS
<1>12. Show(f)
  BY <1>1, <1>2, <1>4, <1>7, <1>8, <1>9, <1>10, <1>11, Zenon DEF Backspace
<1>13. Record(p, q, T, Regular /\ ~ Stale)
  BY <1>2, <1>3, <1>4, <1>5, Zenon DEF Backspace
<1>14. /\ current_terminal' = current_terminal
       /\ line' = [line EXCEPT ![shown] = q]
       /\ writeindex' = writeindex
  BY <1>2, <1>4, Zenon DEF Backspace
<1>15. ASSUME Regular, ~ Stale, Tidy' PROVE Good(shown)'
  <2>1. spoiled[shown] = 0 /\ x = screen_x[shown]
    BY <1>7, <1>15 DEF Regular, Stale
  <2>2. /\ d \in Displays(Cols, Rows) /\ d.x = x /\ d.y = screen_y[shown]
        /\ Sound(d.mem, d.x, d.y, p, l, writeindex[shown], T)
        /\ p \in Seq(Chars) /\ T \in Nat /\ l \in Seq(KEYS)
    BY <1>1, <1>2, <1>3, <1>5, <2>1, ShownGood
  <2>3. PICK U : U = Higher(T, LastRow(Roll(p), Len(q)))
    OBVIOUS
  <2>4. b = d
    <3>1. d.y \in Nat /\ d.y < NUM_ROWS /\ NUM_ROWS \in Nat
      BY <2>2, OnGrid, ScreenAssumption DEF Rows
    <3>2. b = [d EXCEPT !.x = d.x, !.y = d.y]
      BY <1>8, <2>2, <3>1 DEF SetCoords
    <3> QED BY <2>2, <3>2 DEF Displays
  <2>5. /\ s = Cleared(d, Len(q))
        /\ e = Redrawn(s, q, d.x) /\ f = SetCoords(e, d.x, e.y)
    BY <1>9, <1>10, <1>11, <2>2, <2>4 DEF Cleared
  <2>6. Sound(f.mem, f.x, f.y, p, q, d.x, U)
    BY <1>4, <2>2, <2>3, <2>5, BackspaceSound
  <2>7. q \in Seq(KEYS) /\ Roll(p).col + Len(q) <= 2 * NUM_COLS
    BY <2>6 DEF Sound, Placed
  <2>8. paper'[t] = p /\ top'[t] = Max({T, TopFor(p, q)})
    BY <1>6, <1>13, Recorded
  <2>9. top'[t] = U
    BY <2>2, <2>3, <2>7, <2>8, TopIs
  <2>10. line'[t] = q /\ writeindex'[t] = d.x
    BY <1>6, <1>7, <1>14, <2>2, Shown, InvParts DEF LinesOK
  <2>11. Good(t)'
    BY <1>6, <1>12, <1>14, <1>15, <2>6, <2>8, <2>9, <2>10, DrawnGood
  <2> QED BY <1>6, <1>14, <2>11 DEF shown
<1>16. Drawing
  BY DEF Drawing
<1> QED BY <1>13, <1>14, <1>15, <1>16, DrawingSInv

LEMMA EnterSInv ==
  ASSUME IInv, SInv, Enter
  PROVE  SInv'
<1>1. PICK d : d = Display
  OBVIOUS
<1>2. PICK l : l = line[shown]
  OBVIOUS
<1>3. PICK p : p = paper[shown]
  OBVIOUS
<1>4. PICK s : s = EnterNewlines(l)
  OBVIOUS
<1>5. PICK T : T = top[shown]
  OBVIOUS
<1>6. PICK t : t = shown
  OBVIOUS
<1>7. PICK w : w = writeindex[shown]
  OBVIOUS
<1>8. PICK e : e = Printk(d, s)
  OBVIOUS
<1>9. PICK q : q = Entered(p, l)
  OBVIOUS
<1>10. Show(e)
  BY <1>1, <1>2, <1>4, <1>8, Zenon DEF Enter
<1>11. Record(q, <<>>, T, Regular /\ (Stale => s = <<Newline>>))
  BY <1>2, <1>3, <1>4, <1>5, <1>9, Zenon DEF Enter
<1>12. /\ current_terminal' = current_terminal
       /\ line' = [line EXCEPT ![shown] = <<>>]
       /\ writeindex' = writeindex
  BY Zenon DEF Enter
<1>13. ASSUME Regular, Stale => s = <<Newline>>, Tidy' PROVE Good(shown)'
  <2>1. spoiled[shown] = 0 /\ (w = screen_x[shown] \/ s = <<Newline>>)
    BY <1>7, <1>13 DEF Regular, Stale
  <2>2. /\ d \in Displays(Cols, Rows) /\ Behind(d.mem) /\ d.x = screen_x[shown]
        /\ Sound(d.mem, d.x, d.y, p, l, w, T)
        /\ p \in Seq(Chars) /\ T \in Nat /\ l \in Seq(KEYS)
    BY <1>1, <1>2, <1>3, <1>5, <1>7, <2>1, ShownGood
  <2>3. PICK U : U = Higher(T, Roll(q).row)
    OBVIOUS
  <2>4. w \in Int
    BY <1>7, Shown DEF Wide
  <2>5. s = IF Len(l) + 1 + w > NUM_COLS + 1 THEN <<Newline, Newline>> ELSE <<Newline>>
    BY <1>4, <1>7 DEF EnterNewlines
  <2>6. w = d.x \/ s = <<Newline>>
    BY <2>1, <2>2
  <2>7. Sound(e.mem, e.x, e.y, q, <<>>, w, U)
    BY <1>8, <1>9, <2>2, <2>3, <2>4, <2>5, <2>6, EnterSound
  <2>8. q \in Seq(Chars)
    BY <2>7 DEF Sound, Placed
  <2>9. paper'[t] = q /\ top'[t] = Max({T, TopFor(q, <<>>)})
    BY <1>6, <1>11, Recorded
  <2>10. top'[t] = U
    BY <2>2, <2>3, <2>8, <2>9, LineStartTop
  <2>11. line'[t] = <<>> /\ writeindex'[t] = w
    BY <1>6, <1>7, <1>12, Shown, InvParts DEF LinesOK
  <2>12. Good(t)'
    BY <1>6, <1>10, <1>12, <1>13, <2>7, <2>9, <2>10, <2>11, DrawnGood
  <2> QED BY <1>6, <1>12, <2>12 DEF shown
<1>14. Drawing
  BY DEF Drawing
<1> QED BY <1>11, <1>12, <1>13, <1>14, DrawingSInv
-----------------------------------------------------------------------------
LEMMA ResetSInv ==
  ASSUME IInv, SInv, Reset
  PROVE  SInv'
<1>1. PICK d : d = Display
  OBVIOUS
<1>2. PICK l : l = line[shown]
  OBVIOUS
<1>3. PICK w : w = writeindex[shown]
  OBVIOUS
<1>4. PICK p : p = SubSeq(writebuffer[shown], 1, w)
  OBVIOUS
<1>5. PICK t : t = shown
  OBVIOUS
<1>6. PICK z : z = p \o Append(l, BehindLine)
  OBVIOUS
<1>7. PICK e : e = PutCs(SetCoords(Clear(d), 0, 0), z)
  OBVIOUS
<1>8. PICK f : f = SetCoords(e, e.x - Len(l) - 1, e.y)
  OBVIOUS
<1>9. Show(f)
  BY <1>1, <1>2, <1>3, <1>4, <1>6, <1>7, <1>8, Zenon DEF Reset, PutCs
<1>10. Record(p, l, 0, ResetFits /\ Roll(p).row < NUM_ROWS)
  BY <1>2, <1>3, <1>4, Zenon DEF Reset
<1>11. /\ current_terminal' = current_terminal
       /\ line' = line /\ writeindex' = writeindex
  BY Zenon DEF Reset
<1>12. ASSUME ResetFits, Roll(p).row < NUM_ROWS, Tidy' PROVE Good(shown)'
  <2>1. /\ d \in Displays(Wide, Rows) /\ l \in Seq(KEYS) /\ Len(l) \in Nat
        /\ w \in Nat /\ w + Len(l) + 1 < NUM_COLS
        /\ NUM_COLS \in Nat /\ BUFFERSIZE \in Nat /\ NUM_COLS <= BUFFERSIZE
        /\ writebuffer[shown] \in Seq(Chars) /\ Len(writebuffer[shown]) = BUFFERSIZE
    <3>1. d \in Displays(Wide, Rows) /\ l \in Seq(KEYS) /\ w \in Int
      BY <1>1, <1>2, <1>3, Shown DEF Wide
    <3>2. w >= 0 /\ w + Len(l) + 1 < NUM_COLS
      BY <1>2, <1>3, <1>12 DEF ResetFits
    <3>3. Len(l) \in Nat /\ w \in Nat
      BY <3>1, <3>2
    <3> QED BY <3>1, <3>2, <3>3, Shown, ScreenAssumption, TextAssumption
  <2>2. p \in Seq(Chars) /\ Len(p) = w
    <3>1. PICK b : b = writebuffer[shown]
      OBVIOUS
    <3>2. b \in Seq(Chars) /\ \A i \in 1 .. w : b[i] \in Chars
      BY <2>1, <3>1
    <3>3. /\ SubSeq(b, 1, w) \in Seq(Chars)
          /\ Len(SubSeq(b, 1, w)) = IF 1 <= w THEN w - 1 + 1 ELSE 0
      BY <2>1, <3>2, SubSeqProperties
    <3>4. p \in Seq(Chars) /\ Len(p) = IF 1 <= w THEN w - 1 + 1 ELSE 0
      BY <1>4, <3>1, <3>3, Zenon
    <3> QED BY <2>1, <3>4
  <2>3. BehindLine = Blank
    <3>1. Len(line[shown]) < BUFFERSIZE
      BY <1>2, <2>1
    <3> QED BY <3>1 DEF BehindLine
  <2>4. z = p \o Append(l, Blank)
    BY <1>6, <2>3
  <2>5. PICK U : U = Higher(0, LastRow(Roll(p), Len(l)))
    OBVIOUS
  <2>6. Len(p) + Len(l) + 1 < NUM_COLS
    BY <2>1, <2>2
  <2>7. Sound(f.mem, f.x, f.y, p, l, Len(p), U)
    BY <1>7, <1>8, <1>12, <2>1, <2>2, <2>4, <2>5, <2>6, ResetSound
  <2>8. Roll(p).col + Len(l) <= 2 * NUM_COLS
    BY <2>7 DEF Sound, Placed
  <2>9. paper'[t] = p /\ top'[t] = Max({0, TopFor(p, l)})
    BY <1>5, <1>10, Recorded
  <2>10. top'[t] = U
    <3>1. PICK T \in Nat : T = 0
      OBVIOUS
    <3>2. Max({T, TopFor(p, l)}) = Higher(T, LastRow(Roll(p), Len(l)))
      BY <2>1, <2>2, <2>8, TopIs
    <3> QED BY <2>5, <2>9, <3>1, <3>2
  <2>11. line'[t] = l /\ writeindex'[t] = Len(p)
    BY <1>2, <1>3, <1>5, <1>11, <2>2
  <2>12. Good(t)'
    BY <1>5, <1>9, <1>11, <1>12, <2>7, <2>9, <2>10, <2>11, DrawnGood
  <2> QED BY <1>5, <1>11, <2>12 DEF shown
<1>13. Drawing
  BY DEF Drawing
<1> QED BY <1>10, <1>11, <1>12, <1>13, DrawingSInv

(* The clear before keyboard_helper, of a terminal with nothing on it, and  *)
(* the characters after it.                                                 *)
LEMMA NothingPrinted ==
  <<>> \in Seq(Chars) /\ Roll(<<>>) = Unused
<1>1. PICK p \in Seq(Chars) : p = <<>>
  <2>1. <<>> \in Seq(Chars)
    OBVIOUS
  <2> QED BY <2>1
<1>2. Roll(p) = Prints(Unused, p)
  BY RollPrints
<1>3. Prints(Unused, <<>>) = Unused
  BY PrintsNothing, UnusedPaper
<1> QED BY <1>1, <1>2, <1>3

LEMMA HelperClearSInv ==
  ASSUME IInv, SInv, HelperClear
  PROVE  SInv'
<1>1. PICK d : d = Display
  OBVIOUS
<1>2. PICK e : e = Clear(d)
  OBVIOUS
<1>3. PICK t : t = shown
  OBVIOUS
<1>4. PICK T : T = top[shown]
  OBVIOUS
<1>5. Show(e)
  BY <1>1, <1>2 DEF HelperClear
<1>6. Record(paper[shown], line[shown], T,
             Regular /\ paper[shown] = <<>> /\ line[shown] = <<>>)
  BY <1>4, Zenon DEF HelperClear
<1>7. /\ current_terminal' = current_terminal /\ line' = line
      /\ writeindex' = writeindex
  BY Zenon DEF HelperClear
<1>8. ASSUME Regular, paper[shown] = <<>>, line[shown] = <<>>, Tidy'
      PROVE  Good(shown)'
  <2>1. spoiled[shown] = 0
    BY <1>8 DEF Regular
  <2>2. /\ d \in Displays(Cols, Rows) /\ Behind(d.mem)
        /\ Sound(d.mem, d.x, d.y, <<>>, <<>>, writeindex[shown], T)
        /\ T \in Nat
    BY <1>1, <1>4, <1>8, <2>1, ShownGood
  <2>3. Roll(<<>>) = Unused /\ Unused.col = 0 /\ Unused.row = 0
    BY NothingPrinted, UnusedPaper
  <2>4. d.x = 0 /\ d.y = 0 /\ T = 0
    <3>1. d.x = 0 /\ T + d.y = 0
      BY <2>2, <2>3 DEF Sound, Placed
    <3>2. d.y \in Nat
      BY <2>2, ScreenAssumption DEF Displays, Rows
    <3> QED BY <2>2, <3>1, <3>2
  <2>5. e \in Displays(Cols, Rows) /\ e.x = 0 /\ e.y = 0
    BY <1>2, <2>2, <2>4, ClearDraws DEF Clear, Displays
  <2>6. ASSUME NEW a \in 0 .. NUM_ROWS, NEW b \in Cols
        PROVE  e.mem[Cell(b, a)] = Blank
    <3>1. CASE a \in Rows
      BY <1>2, <2>2, <3>1, ClearCell
    <3>2. CASE a \notin Rows
      <4>1. PICK q : q = Cell(b, a)
        OBVIOUS
      <4>2. q \in Cells \ ScreenCells
        BY <3>2, <4>1, CellIn
      <4>3. e.mem[q] = d.mem[q]
        BY <1>2, <2>2, <4>2 DEF Clear, Displays
      <4>4. d.mem[q] = Blank
        <5>1. Good(shown)
          BY <2>1, Shown DEF SInv
        <5> QED BY <1>1, <4>2, <5>1 DEF Good, Tidy, Display
      <4> QED BY <4>1, <4>3, <4>4
    <3> QED BY <3>1, <3>2
  <2>7. Matches(e, Roll(<<>>), T)
    <3>1. Agrees(e.mem, Unused, T)
      BY <2>6, UnusedPaper DEF Agrees
    <3> QED BY <2>2, <2>3, <2>4, <2>5, <3>1, UnusedPaper DEF Matches
  <2>8. Sound(e.mem, e.x, e.y, <<>>, <<>>, writeindex[shown], T)
    BY <2>7, NothingPrinted, MatchesSound
  <2>9. paper'[t] = <<>> /\ top'[t] = Max({T, TopFor(<<>>, <<>>)})
    BY <1>3, <1>6, <1>8, Recorded
  <2>10. top'[t] = T
    <3>1. Max({T, TopFor(<<>>, <<>>)}) = Higher(T, 0)
      BY <2>2, <2>3, NothingPrinted, LineStartTop
    <3>2. Higher(T, 0) = T
      BY <2>4, ScreenAssumption DEF Higher
    <3> QED BY <2>9, <3>1, <3>2
  <2>11. line'[t] = <<>> /\ writeindex'[t] = writeindex[shown]
    BY <1>3, <1>7, <1>8
  <2>12. Good(t)'
    BY <1>3, <1>5, <1>7, <1>8, <2>8, <2>9, <2>10, <2>11, DrawnGood
  <2> QED BY <1>3, <1>7, <2>12 DEF shown
<1>9. Drawing
  BY DEF Drawing
<1> QED BY <1>6, <1>7, <1>8, <1>9, DrawingSInv

LEMMA HelperPrintSInv ==
  ASSUME IInv, SInv, HelperPrint
  PROVE  SInv'
<1>0. PICK c \in Chars : c = HELPER[Len(HELPER) - helping + 1]
  BY HelperChar
<1>1. PICK d : d = Display
  OBVIOUS
<1>2. PICK e : e = TermPutC(d, c)
  OBVIOUS
<1>3. PICK p : p = paper[shown]
  OBVIOUS
<1>4. PICK q : q = Append(p, c)
  OBVIOUS
<1>5. PICK T : T = top[shown]
  OBVIOUS
<1>6. PICK t : t = shown
  OBVIOUS
<1>7. Show(e)
  BY <1>0, <1>1, <1>2 DEF HelperPrint
<1>8. Record(q, line[shown], T, Regular /\ line[shown] = <<>>)
  BY <1>0, <1>3, <1>4, <1>5, Zenon DEF HelperPrint
<1>9. /\ current_terminal' = current_terminal /\ line' = line
      /\ writeindex' = writeindex
  BY Zenon DEF HelperPrint
<1>10. ASSUME Regular, line[shown] = <<>>, Tidy' PROVE Good(shown)'
  <2>1. spoiled[shown] = 0
    BY <1>10 DEF Regular
  <2>2. /\ d \in Displays(Cols, Rows) /\ Behind(d.mem)
        /\ Sound(d.mem, d.x, d.y, p, <<>>, writeindex[shown], T)
        /\ p \in Seq(Chars) /\ T \in Nat
    BY <1>1, <1>3, <1>5, <1>10, <2>1, ShownGood
  <2>3. Matches(d, Roll(p), T)
    BY <2>2, LineStartMatches
  <2>4. q \in Seq(Chars) /\ Roll(q) = OnPaper(Roll(p), c)
    BY <1>4, <2>2, RollPrints, AppendProperties
  <2>5. PICK U : U = Higher(T, Roll(q).row)
    OBVIOUS
  <2>6. Matches(e, Roll(q), U)
    BY <1>2, <2>3, <2>4, <2>5, TermPutCMatches
  <2>7. Sound(e.mem, e.x, e.y, q, <<>>, writeindex[shown], U)
    BY <2>4, <2>6, MatchesSound
  <2>8. paper'[t] = q /\ top'[t] = Max({T, TopFor(q, <<>>)})
    BY <1>6, <1>8, <1>10, Recorded
  <2>9. top'[t] = U
    BY <2>2, <2>4, <2>5, <2>8, LineStartTop
  <2>10. line'[t] = <<>> /\ writeindex'[t] = writeindex[shown]
    BY <1>6, <1>9, <1>10
  <2>11. Good(t)'
    BY <1>6, <1>7, <1>9, <1>10, <2>7, <2>8, <2>9, <2>10, DrawnGood
  <2> QED BY <1>6, <1>9, <2>11 DEF shown
<1>11. Drawing
  BY DEF Drawing
<1> QED BY <1>8, <1>9, <1>10, <1>11, DrawingSInv

(* A switch: the terminal that comes is as it was left.                     *)
LEMMA SwitchSInv ==
  ASSUME IInv, SInv, NEW u \in Terminals, Switch(u)
  PROVE  SInv'
<1>1. /\ spoiled' = [t \in Terminals |-> Spoil(t, Tidy')]
      /\ writeindex' = writeindex /\ paper' = paper /\ top' = top
  BY DEF Switch
<1>2. Papered'
  BY <1>1 DEF SInv, Papered
<1>3. ASSUME NEW t \in Terminals, spoiled'[t] = 0
      PROVE  Good(t)'
  <2>1. Spoil(t, Tidy') = 0
    BY <1>1, <1>3
  <2>2. Tidy' /\ spoiled[t] = 0
    BY <2>1, SpoilZero
  <2>3. Kept(t)
    BY SwitchApart
  <2> QED BY <1>1, <2>2, <2>3, StaysGood
<1> QED BY <1>2, <1>3 DEF SInv
-----------------------------------------------------------------------------
LEMMA InitSInv == Init => SInv
<1> SUFFICES ASSUME Init PROVE SInv
  OBVIOUS
<1>1. Papered
  BY DEF Init, Papered
<1>2. ASSUME NEW t \in Terminals PROVE Good(t)
  <2>1. Tidy
    BY DEF Init, Tidy
  <2>2. PICK d : d = [mem |-> video_mem, x |-> 0, y |-> 0]
    OBVIOUS
  <2>3. d \in Displays(Cols, Rows) /\ d.x = 0 /\ d.y = 0 /\ d.mem = video_mem
    <3>1. 0 \in Cols /\ 0 \in Rows
      BY ScreenAssumption DEF Cols, Rows
    <3>2. video_mem \in [Cells -> Chars]
      BY Characters DEF Init
    <3> QED BY <2>2, <3>1, <3>2 DEF Displays
  <2>4. \A a \in 0 .. NUM_ROWS : \A b \in Cols : d.mem[Cell(b, a)] = Blank
    BY <2>3, CellIn DEF Init
  <2>5. PICK T \in Nat : T = 0
    OBVIOUS
  <2>6. PICK p \in Seq(Chars) : p = <<>>
    <3>1. <<>> \in Seq(Chars)
      OBVIOUS
    <3> QED BY <3>1
  <2>7. Roll(p) = Unused
    <3>1. Roll(p) = Prints(Unused, p)
      BY RollPrints
    <3>2. Prints(Unused, <<>>) = Unused
      BY PrintsNothing, UnusedPaper
    <3> QED BY <2>6, <3>1, <3>2
  <2>8. Matches(d, Roll(p), T)
    <3>1. Agrees(d.mem, Unused, T)
      BY <2>4, UnusedPaper DEF Agrees
    <3> QED BY <2>3, <2>5, <2>7, <3>1, UnusedPaper DEF Matches
  <2>9. Sound(d.mem, d.x, d.y, p, <<>>, writeindex[t], T)
    BY <2>8, MatchesSound
  <2>10. \A a \in ScreenCells : Screen(t)[a] = d.mem[a]
    <3>1. ASSUME NEW a \in ScreenCells
          PROVE  a \in Cells /\ a \in SavedCells
      BY Memory
    <3>2. \A a \in ScreenCells : video_mem[a] = Blank /\ b_buf[t][a] = Blank
      BY <3>1 DEF Init
    <3> QED BY <2>3, <3>2 DEF Screen
  <2>11. PICK N : N = Screen(t)
    OBVIOUS
  <2>12. Sound(N, d.x, d.y, p, <<>>, writeindex[t], T)
    BY <2>9, <2>10, <2>11, SoundSame
  <2>13. /\ screen_x[t] = 0 /\ screen_y[t] = 0 /\ paper[t] = <<>> /\ line[t] = <<>>
         /\ top[t] = 0
    BY DEF Init
  <2> QED BY <2>1, <2>3, <2>5, <2>6, <2>11, <2>12, <2>13 DEF Good
<1> QED BY <1>1, <1>2 DEF SInv

LEMMA StutterSInv ==
  ASSUME SInv, UNCHANGED vars
  PROVE  SInv'
<1>1. ASSUME NEW t \in Terminals PROVE Good(t)' = Good(t)
  BY DEF vars, printer, Good, Tidy, Screen
<1> QED BY <1>1 DEF vars, printer, SInv, Papered

LEMMA NextSInv == IInv /\ SInv /\ [Next]_vars => SInv'
<1> SUFFICES ASSUME IInv, SInv, [Next]_vars PROVE SInv'
  OBVIOUS
<1>1. CASE \E s \in WRITES : Write(s)
  BY <1>1, WriteSInv
<1>2. CASE \E c \in KEYS : Key(c)
  BY <1>2, KeySInv
<1>3. CASE Backspace
  BY <1>3, BackspaceSInv
<1>4. CASE Enter
  BY <1>4, EnterSInv
<1>5. CASE Reset
  BY <1>5, ResetSInv
<1>6. CASE \E t \in Terminals : AltFn(t)
  BY <1>6, SwitchSInv DEF AltFn
<1>7. CASE \E t \in Terminals : AltFnStranded(t)
  BY <1>7, SwitchSInv DEF AltFnStranded
<1>8. CASE HelperClear
  BY <1>8, HelperClearSInv
<1>9. CASE HelperPrint
  BY <1>9, HelperPrintSInv
<1>10. CASE UNCHANGED vars
  BY <1>10, StutterSInv
<1> QED BY <1>1, <1>2, <1>3, <1>4, <1>5, <1>6, <1>7, <1>8, <1>9, <1>10 DEF Next

LEMMA TextInvariance == Spec => []SInv
BY InitSInv, NextSInv, Invariance, PTL DEF Spec

LEMMA TextShown == SInv => ScreenIsText
<1> SUFFICES ASSUME SInv, NEW t \in Terminals, spoiled[t] = 0
             PROVE  ShowsText(t)
  BY DEF ScreenIsText
<1>1. Good(t)
  BY DEF SInv
<1>2. PICK r : r = Roll(paper[t])
  OBVIOUS
<1>3. PICK R : R = Roll(paper[t] \o line[t])
  OBVIOUS
<1>4. /\ paper[t] \in Seq(Chars) /\ top[t] \in Nat /\ screen_y[t] \in Int
      /\ screen_x[t] = r.col /\ top[t] + screen_y[t] = r.row
      /\ \A a \in Rows : \A b \in Cols : Screen(t)[Cell(b, a)] = Ink(R, top[t] + a, b)
  BY <1>1, <1>2, <1>3 DEF Good, Sound, Placed
<1>5. screen_y[t] = r.row - top[t]
  BY <1>4
<1>6. ASSUME NEW x \in 0 .. NUM_COLS - 1, NEW y \in 0 .. NUM_ROWS - 1
      PROVE  Screen(t)[NUM_COLS * y + x] =
               IF <<top[t] + y, x>> \in DOMAIN R.text
               THEN R.text[<<top[t] + y, x>>] ELSE Blank
  <2>1. x \in Cols /\ y \in Rows
    BY DEF Cols, Rows
  <2>2. Screen(t)[Cell(x, y)] = Ink(R, top[t] + y, x)
    BY <1>4, <2>1
  <2> QED BY <2>2, Zenon DEF Cell, Ink
<1> QED BY <1>2, <1>3, <1>4, <1>5, <1>6 DEF ShowsText

(* ScreenIsText: whatever is written, typed, erased, entered or switched,   *)
(* on every terminal that is not spoiled: each cell of the screen holds     *)
(* what a printer would have printed there, and the cursor is where the     *)
(* printer's head was before the line being typed.                          *)
THEOREM ScreensAreText == Spec => []ScreenIsText
BY TextInvariance, TextShown, PTL
=============================================================================
