---------------------------- MODULE MapView_proofs ----------------------------
(***************************************************************************)
(* What TLAPS proves of the map view, for any boards, sections, items and  *)
(* texts and any bounds: that the map which is shown is always the one its *)
(* board, folds and zoom ask for (the inductive invariant), and from it    *)
(* that the focus is always in the picture, that everything in the picture *)
(* can be reached with the keys, that m opens the map where the outline    *)
(* was, that z keeps the place, that the focus lands on what took the      *)
(* place of a removed item, and that the layout draws nothing over         *)
(* anything else.                                                          *)
(*                                                                         *)
(* The tree is walked by recursive functions (KeyOf, ThingAt, Subtree,     *)
(* Among) and laid out by others (Heights, Tops, Centers).  There is no    *)
(* induction rule to cite for them here: the lemmas argue with the least   *)
(* counterexample among the natural numbers, the keys or the things on the *)
(* board.                                                                  *)
(***************************************************************************)
EXTENDS MapView, SequenceTheorems, FiniteSetTheorems, WellFoundedInduction, TLAPS

-----------------------------------------------------------------------------
(* Induction and recursion over numbers, without an operator parameter.    *)

\* A set of numbers with 0 and every successor has them all: of what it leaves
\* out there would be a least one.
LEMMA SetInduction ==
  ASSUME NEW S \in SUBSET Nat, 0 \in S, \A n \in S : n + 1 \in S
  PROVE  S = Nat
<1> SUFFICES ASSUME NEW k \in Nat, k \notin S PROVE FALSE
  OBVIOUS
<1> DEFINE T == {n \in Nat : n \notin S}
<1>1. k \in T /\ T \subseteq Nat
  OBVIOUS
<1> HIDE DEF T
<1>2. PICK m \in T : \A y \in T : m <= y
  <2> DEFINE R == {p \in Nat \X Nat : p[1] < p[2]}
  <2>1. R = OpToRel(<, Nat)
    BY DEF OpToRel
  <2>2. IsWellFoundedOn(R, Nat)
    BY <2>1, NatLessThanWellFounded
  <2> HIDE DEF R
  <2>3. PICK x \in T : \A y \in T : ~(<<y, x>> \in R)
    BY <1>1, <2>2, WFMin
  <2>4. \A i, j \in Nat : j < i => <<j, i>> \in R
    BY DEF R
  <2>5. ASSUME NEW y \in T PROVE x <= y
    <3>1. x \in Nat /\ y \in Nat
      BY <1>1
    <3>2. ~(y < x)
      BY <2>3, <2>4, <3>1
    <3> QED
      BY <3>1, <3>2
  <2> QED
    BY <2>5
<1>3. m \in Nat /\ m # 0
  BY <1>2 DEF T
<1>4. m - 1 \in Nat /\ m - 1 \notin T
  BY <1>1, <1>2, <1>3
<1>5. m - 1 \in S
  BY <1>4 DEF T
<1>6. (m - 1) + 1 \in S
  BY <1>5
<1> QED
  BY <1>2, <1>3, <1>6 DEF T

\* The first n values of an iteration that starts at v.
Iterates(f, n, V, v, step) ==
  /\ f \in [0 .. n -> V]
  /\ f[0] = v
  /\ \A i \in 1 .. n : f[i] = step[<<i, f[i - 1]>>]

\* Any step can be iterated any number of times.
LEMMA Iteration ==
  ASSUME NEW n \in Nat, NEW V, NEW v \in V, NEW step \in [(1 .. n) \X V -> V]
  PROVE  \E f : Iterates(f, n, V, v, step)
<1> DEFINE Upto(m) == \E f \in [0 .. m -> V] : /\ f[0] = v
                                              /\ \A i \in 1 .. m : f[i] = step[<<i, f[i - 1]>>]
           S == {m \in Nat : m <= n => Upto(m)}
<1>1. Upto(0)
  <2>1. [i \in 0 .. 0 |-> v] \in [0 .. 0 -> V]
    OBVIOUS
  <2> WITNESS [i \in 0 .. 0 |-> v] \in [0 .. 0 -> V]
  <2> QED
    OBVIOUS
<1>2. ASSUME NEW m \in Nat, m + 1 <= n, Upto(m) PROVE Upto(m + 1)
  <2>1. PICK f \in [0 .. m -> V] : f[0] = v /\ \A i \in 1 .. m : f[i] = step[<<i, f[i - 1]>>]
    BY <1>2
  <2> DEFINE g == [i \in 0 .. m + 1 |-> IF i = m + 1 THEN step[<<m + 1, f[m]>>] ELSE f[i]]
  <2>2. m + 1 \in 1 .. n /\ f[m] \in V
    BY <1>2, <2>1
  <2>3. <<m + 1, f[m]>> \in (1 .. n) \X V
    BY <2>2
  <2>4. step[<<m + 1, f[m]>>] \in V
    BY <2>3
  <2>5. \A i \in 0 .. m + 1 : i = m + 1 \/ i \in 0 .. m
    BY <1>2
  <2>6. g \in [0 .. m + 1 -> V]
    BY <2>4, <2>5
  <2>7. /\ g[0] = v
        /\ g[m + 1] = step[<<m + 1, f[m]>>]
        /\ \A i \in 0 .. m : g[i] = f[i]
    BY <1>2, <2>1
  <2> HIDE DEF g
  <2>8. ASSUME NEW i \in 1 .. m + 1 PROVE g[i] = step[<<i, g[i - 1]>>]
    <3>1. CASE i = m + 1
      <4>1. i - 1 = m /\ m \in 0 .. m
        BY <1>2, <3>1
      <4> QED
        BY <2>7, <3>1, <4>1
    <3>2. CASE i # m + 1
      <4>1. i \in 1 .. m /\ i \in 0 .. m /\ i - 1 \in 0 .. m
        BY <1>2, <3>2
      <4> QED
        BY <2>1, <2>7, <4>1
    <3> QED
      BY <3>1, <3>2
  <2> QED
    BY <2>6, <2>7, <2>8
<1> HIDE DEF Upto
<1>3. S \subseteq Nat /\ 0 \in S /\ \A m \in S : m + 1 \in S
  <2>1. \A m \in Nat : m + 1 <= n => m <= n
    OBVIOUS
  <2> QED
    BY <1>1, <1>2, <2>1
<1> HIDE DEF S
<1>4. n \in S
  BY <1>3, SetInduction
<1>5. Upto(n)
  BY <1>4 DEF S
<1> QED
  BY <1>5 DEF Upto, Iterates

\* The facts about a sequence of what its elements are, how many, and its end.
LEMMA SeqParts ==
  ASSUME NEW S, NEW s \in Seq(S)
  PROVE  /\ Len(s) \in Nat /\ DOMAIN s = 1 .. Len(s)
         /\ s \in [1 .. Len(s) -> S]
         /\ s = <<>> <=> Len(s) = 0
         /\ ToSet(s) \subseteq S
         /\ \A x : x \in ToSet(s) <=> \E i \in 1 .. Len(s) : s[i] = x
BY DEF ToSet

\* One more at the end.
LEMMA AppendParts ==
  ASSUME NEW S, NEW s \in Seq(S), NEW e
  PROVE  /\ e \in S => Append(s, e) \in Seq(S)
         /\ Len(Append(s, e)) = Len(s) + 1
         /\ Append(s, e)[Len(s) + 1] = e
         /\ \A i \in 1 .. Len(s) : Append(s, e)[i] = s[i]
         /\ Append(s, e) # <<>>
<1>1. s \in Seq(S \cup {e})
  <2>1. S \subseteq S \cup {e}
    OBVIOUS
  <2> QED
    BY <2>1, SeqMonotonic
<1>2. e \in S \cup {e}
  OBVIOUS
<1> QED
  BY <1>1, <1>2

\* All but the last, and the last.
LEMMA FrontParts ==
  ASSUME NEW S, NEW s \in Seq(S), s # <<>>
  PROVE  /\ Last(s) \in S
         /\ Front(s) \in Seq(S)
         /\ Len(Front(s)) = Len(s) - 1
         /\ Len(s) \in Nat \ {0}
         /\ \A i \in 1 .. Len(s) - 1 : Front(s)[i] = s[i]
         /\ s = Append(Front(s), Last(s))
<1>1. Len(s) \in Nat \ {0} /\ \A i \in 1 .. Len(s) : s[i] \in S
  BY EmptySeq, ElementOfSeq
<1> DEFINE n == Len(s) - 1
<1>2. n \in Nat /\ n \in Int /\ n <= Len(s) /\ \A i \in 1 .. n : s[i] \in S
  BY <1>1
<1>3. n - 1 + 1 = n /\ (IF 1 <= n THEN n - 1 + 1 ELSE 0) = n /\ \A i \in 1 .. n : 1 + i - 1 = i
  <2> HIDE DEF n
  <2> QED
    BY <1>2
<1> HIDE DEF n
<1>4. /\ SubSeq(s, 1, n) \in Seq(S)
      /\ Len(SubSeq(s, 1, n)) = IF 1 <= n THEN n - 1 + 1 ELSE 0
      /\ \A i \in 1 .. n - 1 + 1 : SubSeq(s, 1, n)[i] = s[1 + i - 1]
  BY <1>2, SubSeqProperties
<1>5. /\ SubSeq(s, 1, n) \in Seq(S)
      /\ Len(SubSeq(s, 1, n)) = n
      /\ \A i \in 1 .. n : SubSeq(s, 1, n)[i] = s[i]
  BY <1>3, <1>4, Zenon
<1>6. /\ Last(s) \in S
      /\ Front(s) \in Seq(S)
      /\ Len(Front(s)) = Len(s) - 1
      /\ \A i \in 1 .. Len(s) - 1 : Front(s)[i] = s[i]
  BY <1>1, <1>5 DEF Last, Front, n
<1>7. s = Append(Front(s), Last(s))
  <2>1. Append(Front(s), Last(s)) \in Seq(S) /\ Len(Append(Front(s), Last(s))) = Len(s)
    BY <1>1, <1>6
  <2>2. Append(Front(s), Last(s))[Len(s)] = s[Len(s)]
    BY <1>1, <1>6 DEF Last
  <2>3. \A i \in 1 .. Len(s) - 1 : Append(Front(s), Last(s))[i] = s[i]
    <3>1. ASSUME NEW i \in 1 .. Len(s) - 1 PROVE Append(Front(s), Last(s))[i] = Front(s)[i]
      BY <1>1, <1>6
    <3> QED
      BY <1>6, <3>1
  <2>4. \A i \in 1 .. Len(s) : i = Len(s) \/ i \in 1 .. Len(s) - 1
    BY <1>1
  <2>5. \A i \in 1 .. Len(s) : Append(Front(s), Last(s))[i] = s[i]
    BY <2>2, <2>3, <2>4, Zenon
  <2> QED
    BY <2>1, <2>5, SeqEqual
<1> QED
  BY <1>1, <1>6, <1>7

-----------------------------------------------------------------------------
(* Trees: who is below whom.                                               *)

Kids(b, x) == ToSet(b.kids[x])

\* The tree, said of its sequences and of its sets.
LEMMA TreeParts ==
  ASSUME NEW b, IsTree(b)
  PROVE  /\ b.kids \in [Thing -> Seq(Section \cup Item)]
         /\ Kids(b, Title) \subseteq Section
         /\ \A x \in Section \cup Item : Kids(b, x) \subseteq Item
         /\ \A x \in Thing : Kids(b, x) \subseteq Section \cup Item
         /\ \A x, y \in Thing : Kids(b, x) \cap Kids(b, y) # {} => x = y
         /\ \A x \in Thing : \A i, j \in DOMAIN b.kids[x] : b.kids[x][i] = b.kids[x][j] => i = j
         /\ \A x \in Thing : \A i \in DOMAIN b.kids[x] : b.kids[x][i] \in Kids(b, x)
         /\ \A x \in Thing : \A y \in Kids(b, x) : \E i \in DOMAIN b.kids[x] : b.kids[x][i] = y
<1>1. b.kids \in [Thing -> Seq(Section \cup Item)]
  BY DEF IsTree
<1>2. /\ Kids(b, Title) \subseteq Section
      /\ \A x \in Section \cup Item : Kids(b, x) \subseteq Item
      /\ \A x, y \in Thing : Kids(b, x) \cap Kids(b, y) # {} => x = y
  BY DEF IsTree, Kids
<1>3. \A x \in Thing : \A i, j \in DOMAIN b.kids[x] : b.kids[x][i] = b.kids[x][j] => i = j
  BY DEF IsTree, IsInjective
<1>4. /\ \A x \in Thing : \A i \in DOMAIN b.kids[x] : b.kids[x][i] \in Kids(b, x)
      /\ \A x \in Thing : \A y \in Kids(b, x) : \E i \in DOMAIN b.kids[x] : b.kids[x][i] = y
  BY DEF Kids, ToSet
<1>5. \A x \in Thing : Kids(b, x) \subseteq Section \cup Item
  BY <1>2 DEF Thing
<1> QED
  BY <1>1, <1>2, <1>3, <1>4, <1>5

\* Who is on the board.
LEMMA OnBoardParts ==
  ASSUME NEW b, IsTree(b)
  PROVE  /\ Title \in OnBoard(b) /\ Title \in Thing
         /\ OnBoard(b) \subseteq Thing
         /\ \A x \in Thing : Kids(b, x) \subseteq OnBoard(b)
         /\ \A x \in Thing : Title \notin Kids(b, x)
         /\ \A y \in OnBoard(b) \ {Title} : \E x \in OnBoard(b) : y \in Kids(b, x)
         /\ \A x \in Thing : Kids(b, x) # {} => x \in OnBoard(b)
         /\ Nothing \notin Thing
<1>1. \A y : y \in OnBoard(b) <=> y = Title \/ \E x \in Thing : y \in Kids(b, x)
  BY DEF OnBoard, Kids
<1>2. Title \in Thing /\ Section \cup Item \subseteq Thing /\ Title \notin Section \cup Item /\ Nothing \notin Thing
  BY TreeAssumption DEF Thing
<1>3. \A x \in Thing : Kids(b, x) # {} => x \in OnBoard(b)
  BY DEF IsTree, Kids, ToSet
<1> QED
  BY <1>1, <1>2, <1>3, TreeParts

\* From the title down: what passes from everything to what is below it.
LEMMA DownTheTree ==
  ASSUME NEW b, IsTree(b), NEW T \in SUBSET OnBoard(b), Title \in T,
         \A x \in T : Kids(b, x) \subseteq T
  PROVE  T = OnBoard(b)
<1> DEFINE S == (Item \cap OnBoard(b)) \ T
<1>1. \A s \in Section \cap OnBoard(b) : s \in T
  <2> SUFFICES ASSUME NEW s \in Section \cap OnBoard(b) PROVE s \in T
    OBVIOUS
  <2>1. s # Title
    BY TreeAssumption
  <2>2. PICK p \in OnBoard(b) : s \in Kids(b, p)
    BY <2>1, OnBoardParts
  <2>3. p = Title
    BY <2>2, OnBoardParts, TreeParts, TreeAssumption DEF Thing
  <2> QED
    BY <2>2, <2>3
<1>2. S = {}
  <2> SUFFICES ASSUME S # {} PROVE FALSE
    OBVIOUS
  <2>1. S \in (SUBSET Item) \ {{}}
    OBVIOUS
  <2>2. PICK x \in S : \A y \in S : x \notin Kids(b, y)
    BY <2>1 DEF IsTree, Kids
  <2>3. x # Title /\ x \in OnBoard(b)
    BY TreeAssumption
  <2>4. PICK p \in OnBoard(b) : x \in Kids(b, p)
    BY <2>3, OnBoardParts
  <2>5. p \notin S /\ p \in Thing
    BY <2>2, <2>4, OnBoardParts
  <2>6. p \in T
    BY <1>1, <2>5 DEF Thing
  <2> QED
    BY <2>4, <2>6
<1> QED
  BY <1>1, <1>2, OnBoardParts DEF Thing

\* From the leaves up: what passes to everything from what is below it.
LEMMA UpTheTree ==
  ASSUME NEW b, IsTree(b), NEW T \in SUBSET Thing,
         \A x \in Thing : Kids(b, x) \subseteq T => x \in T
  PROVE  T = Thing
<1> DEFINE S == Item \ T
<1>1. S = {}
  <2> SUFFICES ASSUME S # {} PROVE FALSE
    OBVIOUS
  <2>1. S \in (SUBSET Item) \ {{}}
    OBVIOUS
  <2>2. PICK x \in S : \A y \in S : y \notin Kids(b, x)
    BY <2>1 DEF IsTree, Kids
  <2>3. x \in Thing /\ Kids(b, x) \subseteq Item
    BY TreeParts DEF Thing
  <2>4. Kids(b, x) \subseteq T
    BY <2>2, <2>3
  <2> QED
    BY <2>3, <2>4
<1>2. Item \subseteq T
  BY <1>1
<1>3. Section \subseteq T
  <2> SUFFICES ASSUME NEW s \in Section PROVE s \in T
    OBVIOUS
  <2>1. s \in Thing /\ Kids(b, s) \subseteq Item
    BY TreeParts DEF Thing
  <2> QED
    BY <1>2, <2>1
<1>4. Title \in T
  BY <1>3, TreeParts, OnBoardParts
<1> QED
  BY <1>2, <1>3, <1>4 DEF Thing

-----------------------------------------------------------------------------
(* Places                                                                  *)

\* What holds of the empty key and passes on to every longer one holds of all.
LEMMA KeyInduction ==
  ASSUME NEW T \in SUBSET Seq(Nat), <<>> \in T, \A k \in T : \A i \in Nat : Append(k, i) \in T
  PROVE  T = Seq(Nat)
<1> DEFINE S == {n \in Nat : \A k \in Seq(Nat) : Len(k) = n => k \in T}
<1>1. 0 \in S
  BY SeqParts
<1>2. ASSUME NEW n \in S PROVE n + 1 \in S
  <2> SUFFICES ASSUME NEW k \in Seq(Nat), Len(k) = n + 1 PROVE k \in T
    OBVIOUS
  <2>1. n \in Nat /\ k # <<>>
    BY SeqParts
  <2>2. /\ Front(k) \in Seq(Nat) /\ Last(k) \in Nat
        /\ Len(Front(k)) = Len(k) - 1 /\ k = Append(Front(k), Last(k))
    <3> HIDE DEF S
    <3> QED
      BY <2>1, FrontParts
  <2>3. Front(k) \in T
    BY <2>1, <2>2
  <2> QED
    BY <2>2, <2>3
<1>3. S \subseteq Nat
  OBVIOUS
<1> HIDE DEF S
<1>4. S = Nat
  BY <1>1, <1>2, <1>3, SetInduction
<1> QED
  BY <1>4, SeqParts DEF S

\* One step down a key.
StepTo(b, x, i) == IF x # Nothing /\ i \in DOMAIN b.kids[x] THEN b.kids[x][i] ELSE Nothing

\* It leads to a child, or nowhere.
LEMMA StepType ==
  ASSUME NEW b, IsTree(b), NEW x \in Thing \cup {Nothing}, NEW i
  PROVE  /\ StepTo(b, x, i) \in (Section \cup Item) \cup {Nothing}
         /\ StepTo(b, x, i) \in Thing \cup {Nothing}
         /\ StepTo(b, x, i) # Nothing => x \in Thing /\ i \in DOMAIN b.kids[x]
                                          /\ StepTo(b, x, i) = b.kids[x][i]
                                          /\ StepTo(b, x, i) \in Kids(b, x)
  BY TreeParts DEF StepTo, Thing

\* Following a key goes through a thing, or nothing, at every step.
LEMMA Followed ==
  ASSUME NEW b, IsTree(b), NEW key \in Seq(Nat)
  PROVE  \E f \in [0 .. Len(key) -> Thing \cup {Nothing}] :
           /\ f[0] = Title
           /\ \A n \in 1 .. Len(key) : f[n] = StepTo(b, f[n - 1], key[n])
           /\ ThingAt(b, key) = f[Len(key)]
<1> DEFINE V == Thing \cup {Nothing}
           step == [p \in (1 .. Len(key)) \X V |-> StepTo(b, p[2], key[p[1]])]
           Equation(f) == f = [n \in 0 .. Len(key) |->
              IF n = 0 THEN Title
              ELSE IF f[n - 1] # Nothing /\ key[n] \in DOMAIN b.kids[f[n - 1]]
                   THEN b.kids[f[n - 1]][key[n]] ELSE Nothing]
           at == CHOOSE f : Equation(f)
<1>1. Len(key) \in Nat /\ Title \in V
  BY SeqParts DEF Thing
<1>2. step \in [(1 .. Len(key)) \X V -> V]
  BY StepType
<1> HIDE DEF step
<1>3. PICK f : Iterates(f, Len(key), V, Title, step)
  <2> HIDE DEF V
  <2> QED
    BY <1>1, <1>2, Iteration
<1>4. ASSUME NEW g \in [0 .. Len(key) -> V]
      PROVE  \A n \in 1 .. Len(key) : step[<<n, g[n - 1]>>] = StepTo(b, g[n - 1], key[n])
  <2> SUFFICES ASSUME NEW n \in 1 .. Len(key) PROVE step[<<n, g[n - 1]>>] = StepTo(b, g[n - 1], key[n])
    OBVIOUS
  <2>1. n - 1 \in 0 .. Len(key)
    BY <1>1
  <2>2. g[n - 1] \in V
    BY <2>1
  <2> QED
    BY <2>2 DEF step
<1>5. Equation(f)
  <2>1. \A n \in 0 .. Len(key) : n # 0 => n \in 1 .. Len(key)
    OBVIOUS
  <2>2. \A n \in 0 .. Len(key) : n # 0 => f[n] = StepTo(b, f[n - 1], key[n])
    BY <1>3, <1>4, <2>1 DEF Iterates
  <2> QED
    BY <1>3, <2>2 DEF StepTo, Iterates
<1>6. Equation(at)
  BY <1>5
<1>7. ThingAt(b, key) = at[Len(key)]
  BY DEF ThingAt
<1> HIDE DEF at
<1>8. at[0] = Title /\ \A n \in 1 .. Len(key) : at[n] = StepTo(b, at[n - 1], key[n])
  <2>1. 0 \in 0 .. Len(key) /\ \A n \in 1 .. Len(key) : n \in 0 .. Len(key) /\ n # 0
    BY <1>1
  <2> QED
    BY <1>6, <2>1 DEF StepTo
<1> DEFINE S == {n \in Nat : n <= Len(key) => at[n] \in V}
<1>9. S \subseteq Nat /\ 0 \in S /\ \A n \in S : n + 1 \in S
  <2>1. 0 \in S
    BY <1>1, <1>8
  <2>2. ASSUME NEW n \in S, n + 1 <= Len(key) PROVE at[n + 1] \in V
    <3>1. n \in Nat /\ n + 1 \in 1 .. Len(key) /\ (n + 1) - 1 = n /\ at[n] \in V
      BY <1>1, <2>2
    <3>2. at[n + 1] = StepTo(b, at[n], key[n + 1])
      BY <1>8, <3>1
    <3> QED
      BY <3>1, <3>2, StepType
  <2> QED
    BY <2>1, <2>2
<1> HIDE DEF S
<1>10. S = Nat
  BY <1>9, SetInduction
<1>11. \A n \in 0 .. Len(key) : at[n] \in V
  BY <1>1, <1>10 DEF S
<1>12. at \in [0 .. Len(key) -> V]
  <2>1. at = [n \in 0 .. Len(key) |-> at[n]]
    BY <1>6
  <2> QED
    BY <1>11, <2>1
<1> QED
  BY <1>7, <1>8, <1>12

\* The thing at a key is one step below the thing at the key above.
LEMMA ThingAtSteps ==
  ASSUME NEW b, IsTree(b)
  PROVE  /\ ThingAt(b, <<>>) = Title
         /\ \A k \in Seq(Nat) : ThingAt(b, k) \in Thing \cup {Nothing}
         /\ \A k \in Seq(Nat), i \in Nat : ThingAt(b, Append(k, i)) = StepTo(b, ThingAt(b, k), i)
<1>1. ThingAt(b, <<>>) = Title
  <2>1. <<>> \in Seq(Nat) /\ Len(<<>>) = 0
    OBVIOUS
  <2>2. PICK f \in [0 .. Len(<<>>) -> Thing \cup {Nothing}] : f[0] = Title /\ ThingAt(b, <<>>) = f[Len(<<>>)]
    BY <2>1, Followed
  <2> QED
    BY <2>1, <2>2
<1>2. ASSUME NEW k \in Seq(Nat) PROVE ThingAt(b, k) \in Thing \cup {Nothing}
  <2>1. Len(k) \in 0 .. Len(k)
    BY SeqParts
  <2> QED
    BY <2>1, Followed
<1>3. ASSUME NEW k \in Seq(Nat), NEW i \in Nat
      PROVE  ThingAt(b, Append(k, i)) = StepTo(b, ThingAt(b, k), i)
  <2> DEFINE l == Append(k, i)
  <2>1. /\ l \in Seq(Nat) /\ Len(l) = Len(k) + 1 /\ l[Len(k) + 1] = i /\ Len(k) \in Nat
        /\ \A n \in 1 .. Len(k) : l[n] = k[n]
    BY AppendParts, SeqParts
  <2> HIDE DEF l
  <2>2. PICK f : /\ f[0] = Title
                 /\ \A n \in 1 .. Len(k) : f[n] = StepTo(b, f[n - 1], k[n])
                 /\ ThingAt(b, k) = f[Len(k)]
    BY Followed
  <2>3. PICK g : /\ g[0] = Title
                 /\ \A n \in 1 .. Len(l) : g[n] = StepTo(b, g[n - 1], l[n])
                 /\ ThingAt(b, l) = g[Len(l)]
    BY <2>1, Followed
  <2>4. \A n \in 1 .. Len(k) : g[n] = StepTo(b, g[n - 1], l[n])
    BY <2>1, <2>3
  <2>5. \A n \in 0 .. Len(k) : g[n] = f[n]
    <3> DEFINE S == {n \in Nat : n <= Len(k) => g[n] = f[n]}
    <3>1. 0 \in S
      BY <2>2, <2>3
    <3>2. ASSUME NEW n \in S, n + 1 <= Len(k) PROVE g[n + 1] = f[n + 1]
      <4>1. n + 1 \in 1 .. Len(k) /\ (n + 1) - 1 = n /\ g[n] = f[n]
        BY <2>1, <3>2
      <4>2. g[n + 1] = StepTo(b, g[n], l[n + 1]) /\ f[n + 1] = StepTo(b, f[n], k[n + 1])
        BY <2>2, <2>4, <4>1
      <4> QED
        BY <2>1, <4>1, <4>2
    <3>3. S \subseteq Nat /\ \A n \in S : n + 1 \in S
      BY <3>2
    <3> HIDE DEF S
    <3>4. S = Nat
      BY <3>1, <3>3, SetInduction
    <3> QED
      BY <2>1, <3>4 DEF S
  <2>6. Len(k) \in 0 .. Len(k) /\ Len(k) + 1 \in 1 .. Len(k) + 1 /\ (Len(k) + 1) - 1 = Len(k)
    BY <2>1
  <2>7. g[Len(l)] = StepTo(b, g[Len(k)], l[Len(k) + 1])
    BY <2>1, <2>3, <2>6
  <2>8. ThingAt(b, l) = StepTo(b, ThingAt(b, k), i)
    BY <2>1, <2>2, <2>3, <2>5, <2>6, <2>7
  <2> QED
    BY <2>8 DEF l
<1> QED
  BY <1>1, <1>2, <1>3

\* What is at a key is on the board, if there is anything.
LEMMA ThingAtOnBoard ==
  ASSUME NEW b, IsTree(b), NEW k \in Seq(Nat), ThingAt(b, k) # Nothing
  PROVE  /\ ThingAt(b, k) \in OnBoard(b)
         /\ ThingAt(b, k) = Title <=> k = <<>>
         /\ k # <<>> => /\ ThingAt(b, Front(k)) \in Thing
                        /\ Last(k) \in DOMAIN b.kids[ThingAt(b, Front(k))]
                        /\ ThingAt(b, k) = b.kids[ThingAt(b, Front(k))][Last(k)]
                        /\ ThingAt(b, k) \in Kids(b, ThingAt(b, Front(k)))
<1>1. CASE k = <<>>
  BY <1>1, ThingAtSteps, OnBoardParts
<1>2. CASE k # <<>>
  <2>1. Front(k) \in Seq(Nat) /\ Last(k) \in Nat /\ k = Append(Front(k), Last(k))
    BY <1>2, FrontParts
  <2>2. ThingAt(b, Front(k)) \in Thing \cup {Nothing}
    BY <2>1, ThingAtSteps
  <2>3. ThingAt(b, k) = StepTo(b, ThingAt(b, Front(k)), Last(k))
    BY <2>1, ThingAtSteps
  <2>4. /\ ThingAt(b, Front(k)) \in Thing
        /\ Last(k) \in DOMAIN b.kids[ThingAt(b, Front(k))]
        /\ ThingAt(b, k) = b.kids[ThingAt(b, Front(k))][Last(k)]
        /\ ThingAt(b, k) \in Kids(b, ThingAt(b, Front(k)))
    BY <2>2, <2>3, StepType
  <2> QED
    BY <1>2, <2>4, OnBoardParts
<1> QED
  BY <1>1, <1>2

\* A thing has one place.
LEMMA OnePlace ==
  ASSUME NEW b, IsTree(b), NEW k \in Seq(Nat), NEW l \in Seq(Nat),
         ThingAt(b, k) = ThingAt(b, l), ThingAt(b, k) # Nothing
  PROVE  k = l
<1> DEFINE T == {x \in Seq(Nat) : \A y \in Seq(Nat) :
                   ThingAt(b, x) = ThingAt(b, y) /\ ThingAt(b, x) # Nothing => x = y}
<1>1. <<>> \in T
  <2>1. <<>> \in Seq(Nat)
    OBVIOUS
  <2>2. ThingAt(b, <<>>) = Title /\ Title # Nothing
    BY ThingAtSteps, OnBoardParts
  <2> QED
    BY <2>1, <2>2, ThingAtOnBoard
<1>2. ASSUME NEW x \in T, NEW i \in Nat PROVE Append(x, i) \in T
  <2>1. x \in Seq(Nat) /\ Append(x, i) \in Seq(Nat)
    OBVIOUS
  <2> SUFFICES ASSUME NEW y \in Seq(Nat), ThingAt(b, Append(x, i)) = ThingAt(b, y),
                      ThingAt(b, Append(x, i)) # Nothing
               PROVE  Append(x, i) = y
    BY <2>1
  <2>2. Append(x, i) # <<>> /\ Front(Append(x, i)) = x /\ Last(Append(x, i)) = i
    BY SMTT(30), <2>1 DEF Front, Last
  <2>3. y # <<>>
    BY <2>1, <2>2, ThingAtOnBoard
  <2>4. y = Append(Front(y), Last(y)) /\ Front(y) \in Seq(Nat)
    BY <2>3, FrontParts
  <2>5. /\ ThingAt(b, x) \in Thing /\ ThingAt(b, Front(y)) \in Thing
        /\ i \in DOMAIN b.kids[ThingAt(b, x)] /\ Last(y) \in DOMAIN b.kids[ThingAt(b, Front(y))]
        /\ ThingAt(b, y) = b.kids[ThingAt(b, x)][i]
        /\ ThingAt(b, y) = b.kids[ThingAt(b, Front(y))][Last(y)]
        /\ ThingAt(b, y) \in Kids(b, ThingAt(b, x)) \cap Kids(b, ThingAt(b, Front(y)))
    BY <2>1, <2>2, <2>3, ThingAtOnBoard
  <2>6. ThingAt(b, x) = ThingAt(b, Front(y))
    BY <2>5, TreeParts
  <2>7. i = Last(y)
    <3> DEFINE p == ThingAt(b, x)
    <3>1. /\ p \in Thing /\ i \in DOMAIN b.kids[p] /\ Last(y) \in DOMAIN b.kids[p]
          /\ b.kids[p][i] = b.kids[p][Last(y)]
      BY <2>5, <2>6
    <3> HIDE DEF p
    <3> QED
      BY <3>1, TreeParts
  <2>8. x = Front(y)
    BY <2>4, <2>5, <2>6, OnBoardParts
  <2> QED
    BY <2>4, <2>7, <2>8
<1>3. T \in SUBSET Seq(Nat)
  OBVIOUS
<1> HIDE DEF T
<1>4. T = Seq(Nat)
  BY <1>1, <1>2, <1>3, KeyInduction
<1> QED
  BY <1>4 DEF T

\* Everything on the board is at some key.
LEMMA SomePlace ==
  ASSUME NEW b, IsTree(b), NEW x \in OnBoard(b)
  PROVE  \E k \in Seq(Nat) : ThingAt(b, k) = x
<1> DEFINE T == {y \in OnBoard(b) : \E k \in Seq(Nat) : ThingAt(b, k) = y}
<1>1. Title \in T
  <2>1. <<>> \in Seq(Nat)
    OBVIOUS
  <2> QED
    BY <2>1, ThingAtSteps, OnBoardParts
<1>2. ASSUME NEW p \in T, NEW y \in Kids(b, p) PROVE y \in T
  <2>1. p \in Thing /\ p # Nothing
    BY OnBoardParts
  <2>2. PICK k \in Seq(Nat) : ThingAt(b, k) = p
    OBVIOUS
  <2>3. PICK i \in DOMAIN b.kids[p] : b.kids[p][i] = y
    BY <2>1, TreeParts
  <2>4. b.kids[p] \in Seq(Section \cup Item)
    BY <2>1, TreeParts
  <2>5. i \in Nat
    BY <2>4, SeqParts
  <2>6. ThingAt(b, Append(k, i)) = y /\ Append(k, i) \in Seq(Nat)
    BY <2>1, <2>2, <2>3, <2>5, ThingAtSteps DEF StepTo
  <2> QED
    BY <2>1, <2>6, OnBoardParts
<1>3. T \in SUBSET OnBoard(b)
  OBVIOUS
<1> HIDE DEF T
<1>4. T = OnBoard(b)
  BY <1>1, <1>2, <1>3, DownTheTree
<1> QED
  BY <1>4 DEF T

\* A thing's parent and its place below it.
LEMMA ParentPlace ==
  ASSUME NEW b, IsTree(b), NEW p \in Thing, NEW i \in DOMAIN b.kids[p]
  PROVE  /\ Parent(b, b.kids[p][i]) = p
         /\ Place(b.kids[p], b.kids[p][i]) = i
<1> DEFINE y == b.kids[p][i]
<1>1. y \in Kids(b, p)
  BY TreeParts
<1>2. \A q \in Thing : y \in Kids(b, q) => q = p
  BY <1>1, TreeParts
<1>3. Parent(b, y) = p
  BY <1>1, <1>2 DEF Parent, Kids
<1>4. \A j \in DOMAIN b.kids[p] : b.kids[p][j] = y => j = i
  BY TreeParts
<1>5. Place(b.kids[p], y) = i
  BY <1>4 DEF Place
<1> QED
  BY <1>3, <1>5

\* KeyOf is where a thing is.
LEMMA KeyOfPlace ==
  ASSUME NEW b, IsTree(b), NEW x \in OnBoard(b)
  PROVE  KeyOf(b, x) \in Seq(Nat) /\ ThingAt(b, KeyOf(b, x)) = x
<1> DEFINE StepsTo(f, y) == LET p == Parent(b, y) IN Append(f[p], Place(b.kids[p], y))
           Equation(f) == f = [y \in OnBoard(b) |->
              IF y = Title THEN <<>>
              ELSE LET p == Parent(b, y) IN Append(f[p], Place(b.kids[p], y))]
           key == CHOOSE f : Equation(f)
           f == [y \in OnBoard(b) |-> CHOOSE k \in Seq(Nat) : ThingAt(b, k) = y]
<1>1. ASSUME NEW y \in OnBoard(b) PROVE f[y] \in Seq(Nat) /\ ThingAt(b, f[y]) = y
  BY SomePlace
<1>2. ASSUME NEW y \in OnBoard(b), NEW k \in Seq(Nat), ThingAt(b, k) = y PROVE f[y] = k
  <2>1. y # Nothing
    BY OnBoardParts
  <2> HIDE DEF f
  <2> QED
    BY <1>1, <1>2, <2>1, OnePlace
<1>3. f = [y \in OnBoard(b) |-> f[y]]
  OBVIOUS
<1> HIDE DEF f
\* what is below p is at the key of p and one more step
<1>4. ASSUME NEW p \in OnBoard(b), NEW i \in DOMAIN b.kids[p], NEW k \in Seq(Nat), ThingAt(b, k) = p
      PROVE  /\ i \in Nat /\ Append(k, i) \in Seq(Nat)
             /\ ThingAt(b, Append(k, i)) = b.kids[p][i]
  <2>1. p \in Thing /\ p # Nothing
    BY OnBoardParts
  <2>2. b.kids[p] \in Seq(Section \cup Item)
    BY <2>1, TreeParts
  <2>3. i \in Nat
    BY <2>2, SeqParts
  <2> QED
    BY <1>4, <2>1, <2>3, ThingAtSteps DEF StepTo
\* ... and everything but the title is below something
<1>5. ASSUME NEW y \in OnBoard(b) \ {Title}
      PROVE  \E p \in OnBoard(b) : \E i \in DOMAIN b.kids[p] :
               b.kids[p][i] = y /\ Parent(b, y) = p /\ Place(b.kids[p], y) = i
  <2>1. PICK p \in OnBoard(b) : y \in Kids(b, p)
    BY OnBoardParts
  <2>2. p \in Thing
    BY OnBoardParts
  <2>3. PICK i \in DOMAIN b.kids[p] : b.kids[p][i] = y
    BY <2>1, <2>2, TreeParts
  <2> QED
    BY <2>2, <2>3, ParentPlace
<1>6. Equation(f)
  <2>1. f[Title] = <<>>
    <3>1. <<>> \in Seq(Nat)
      OBVIOUS
    <3> QED
      BY <1>2, <3>1, ThingAtSteps, OnBoardParts
  <2>2. ASSUME NEW y \in OnBoard(b) \ {Title} PROVE f[y] = StepsTo(f, y)
    <3>1. PICK p \in OnBoard(b), i \in Nat :
            i \in DOMAIN b.kids[p] /\ b.kids[p][i] = y /\ Parent(b, y) = p /\ Place(b.kids[p], y) = i
      BY <1>1, <1>4, <1>5
    <3>2. Append(f[p], i) \in Seq(Nat) /\ ThingAt(b, Append(f[p], i)) = y
      BY <1>1, <1>4, <3>1
    <3> QED
      BY <1>2, <3>1, <3>2
  <2> QED
    BY <1>3, <2>1, <2>2
<1>7. Equation(key)
  BY <1>6
<1>8. KeyOf(b, x) = key[x]
  BY DEF KeyOf
<1> HIDE DEF key
<1>9. key[Title] = <<>> /\ \A y \in OnBoard(b) \ {Title} : key[y] = StepsTo(key, y)
  BY <1>7, OnBoardParts
<1> DEFINE T == {y \in OnBoard(b) : key[y] \in Seq(Nat) /\ ThingAt(b, key[y]) = y}
<1>10. Title \in T
  <2>1. <<>> \in Seq(Nat)
    OBVIOUS
  <2> QED
    BY <1>9, <2>1, ThingAtSteps, OnBoardParts
<1>11. ASSUME NEW p \in T, NEW y \in Kids(b, p) PROVE y \in T
  <2>1. p \in Thing /\ p \in OnBoard(b) /\ y \in OnBoard(b) \ {Title}
    BY OnBoardParts
  <2>2. PICK i \in DOMAIN b.kids[p] : b.kids[p][i] = y
    BY <2>1, TreeParts
  <2>3. Parent(b, y) = p /\ Place(b.kids[p], y) = i
    BY <2>1, <2>2, ParentPlace
  <2>4. key[y] = Append(key[p], i)
    BY <1>9, <2>1, <2>3
  <2>5. key[p] \in Seq(Nat) /\ ThingAt(b, key[p]) = p
    OBVIOUS
  <2> QED
    <3>1. Append(key[p], i) \in Seq(Nat) /\ ThingAt(b, Append(key[p], i)) = b.kids[p][i]
      <4> HIDE DEF T
      <4> QED
        BY <1>4, <2>1, <2>2, <2>5
    <3> QED
      BY <2>1, <2>2, <2>4, <3>1
<1>12. T \in SUBSET OnBoard(b)
  OBVIOUS
<1> HIDE DEF T
<1>13. T = OnBoard(b)
  BY <1>10, <1>11, <1>12, DownTheTree
<1> QED
  BY <1>8, <1>13 DEF T

\* The keys of a board are those that lead to something, each to its own thing.
LEMMA KeysLead ==
  ASSUME NEW b, IsTree(b)
  PROVE  /\ {KeyOf(b, x) : x \in OnBoard(b)} = {k \in Seq(Nat) : ThingAt(b, k) # Nothing}
         /\ \A k \in Seq(Nat) : ThingAt(b, k) # Nothing => KeyOf(b, ThingAt(b, k)) = k
<1>1. ASSUME NEW k \in Seq(Nat), ThingAt(b, k) # Nothing PROVE KeyOf(b, ThingAt(b, k)) = k
  <2>1. ThingAt(b, k) \in OnBoard(b)
    BY <1>1, ThingAtOnBoard
  <2>2. KeyOf(b, ThingAt(b, k)) \in Seq(Nat) /\ ThingAt(b, KeyOf(b, ThingAt(b, k))) = ThingAt(b, k)
    BY <2>1, KeyOfPlace
  <2> QED
    BY <1>1, <2>2, OnePlace
<1>2. ASSUME NEW x \in OnBoard(b) PROVE KeyOf(b, x) \in {k \in Seq(Nat) : ThingAt(b, k) # Nothing}
  BY KeyOfPlace, OnBoardParts
<1>3. ASSUME NEW k \in Seq(Nat), ThingAt(b, k) # Nothing PROVE k \in {KeyOf(b, x) : x \in OnBoard(b)}
  BY <1>1, <1>3, ThingAtOnBoard
<1> QED
  BY <1>1, <1>2, <1>3

-----------------------------------------------------------------------------
(* Sequences: cutting, inserting, picking                                  *)

\* The first elements of a sequence, and the last ones.
LEMMA CutParts ==
  ASSUME NEW S, NEW s \in Seq(S)
  PROVE  /\ \A n \in 0 .. Len(s) : /\ SubSeq(s, 1, n) \in Seq(S)
                                   /\ Len(SubSeq(s, 1, n)) = n
                                   /\ \A j \in 1 .. n : SubSeq(s, 1, n)[j] = s[j]
         /\ \A m \in 1 .. Len(s) + 1 :
              /\ SubSeq(s, m, Len(s)) \in Seq(S)
              /\ Len(SubSeq(s, m, Len(s))) = Len(s) - m + 1
              /\ \A j \in 1 .. Len(s) - m + 1 : SubSeq(s, m, Len(s))[j] = s[m + j - 1]
<1>0. Len(s) \in Nat /\ \A i \in 1 .. Len(s) : s[i] \in S
  BY ElementOfSeq
<1>1. ASSUME NEW n \in 0 .. Len(s)
      PROVE  /\ SubSeq(s, 1, n) \in Seq(S)
             /\ Len(SubSeq(s, 1, n)) = n
             /\ \A j \in 1 .. n : SubSeq(s, 1, n)[j] = s[j]
  <2>1. /\ n \in Int /\ 1 \in Int /\ \A i \in 1 .. n : s[i] \in S
        /\ n - 1 + 1 = n /\ (IF 1 <= n THEN n - 1 + 1 ELSE 0) = n /\ \A j \in 1 .. n : 1 + j - 1 = j
    BY <1>0
  <2>2. /\ SubSeq(s, 1, n) \in Seq(S)
        /\ Len(SubSeq(s, 1, n)) = IF 1 <= n THEN n - 1 + 1 ELSE 0
        /\ \A j \in 1 .. n - 1 + 1 : SubSeq(s, 1, n)[j] = s[1 + j - 1]
    BY <2>1, SubSeqProperties
  <2> QED
    BY <2>1, <2>2, Zenon
<1>2. ASSUME NEW m \in 1 .. Len(s) + 1
      PROVE  /\ SubSeq(s, m, Len(s)) \in Seq(S)
             /\ Len(SubSeq(s, m, Len(s))) = Len(s) - m + 1
             /\ \A j \in 1 .. Len(s) - m + 1 : SubSeq(s, m, Len(s))[j] = s[m + j - 1]
  <2>1. /\ m \in Int /\ Len(s) \in Int /\ \A i \in m .. Len(s) : s[i] \in S
        /\ (IF m <= Len(s) THEN Len(s) - m + 1 ELSE 0) = Len(s) - m + 1
    BY <1>0
  <2>2. /\ SubSeq(s, m, Len(s)) \in Seq(S)
        /\ Len(SubSeq(s, m, Len(s))) = IF m <= Len(s) THEN Len(s) - m + 1 ELSE 0
        /\ \A j \in 1 .. Len(s) - m + 1 : SubSeq(s, m, Len(s))[j] = s[m + j - 1]
    BY <2>1, SubSeqProperties
  <2> QED
    BY <2>1, <2>2, Zenon
<1> QED
  BY <1>1, <1>2

\* A sequence without its i-th element.
LEMMA RemoveFirstParts ==
  ASSUME NEW S, NEW s \in Seq(S), IsInjective(s), NEW i \in DOMAIN s
  PROVE  /\ RemoveFirst(s, s[i]) \in Seq(S)
         /\ Len(RemoveFirst(s, s[i])) = Len(s) - 1
         /\ \A j \in 1 .. Len(s) - 1 : RemoveFirst(s, s[i])[j] = IF j < i THEN s[j] ELSE s[j + 1]
<1> DEFINE r == RemoveFirst(s, s[i])
<1>0. Len(s) \in Nat /\ i \in 1 .. Len(s) /\ DOMAIN s = 1 .. Len(s)
  BY SeqParts
<1>1. SelectInSeq(s, LAMBDA v : v = s[i]) = i
  <2>1. {j \in 1 .. Len(s) : s[j] = s[i]} = {i}
    BY <1>0 DEF IsInjective
  <2>2. Min({i}) = i
    BY <1>0 DEF Min
  <2> QED
    BY <2>1, <2>2 DEF SelectInSeq
<1>2. r = RemoveAt(s, i)
  BY <1>0, <1>1 DEF RemoveFirst
<1> HIDE DEF r
<1> DEFINE a == SubSeq(s, 1, i - 1)
           c == SubSeq(s, i + 1, Len(s))
<1>3. r = a \o c
  BY <1>2 DEF RemoveAt
<1>4. a \in Seq(S) /\ Len(a) = i - 1 /\ \A j \in 1 .. i - 1 : a[j] = s[j]
  <2>1. i - 1 \in 0 .. Len(s)
    BY <1>0
  <2> QED
    BY <2>1, CutParts
<1>5. c \in Seq(S) /\ Len(c) = Len(s) - i /\ \A j \in 1 .. Len(s) - i : c[j] = s[i + j]
  <2>1. i + 1 \in 1 .. Len(s) + 1
    BY <1>0
  <2> DEFINE m == i + 1
  <2>2. m \in 1 .. Len(s) + 1
    BY <2>1
  <2> HIDE DEF m
  <2>3. /\ SubSeq(s, m, Len(s)) \in Seq(S)
        /\ Len(SubSeq(s, m, Len(s))) = Len(s) - m + 1
        /\ \A j \in 1 .. Len(s) - m + 1 : SubSeq(s, m, Len(s))[j] = s[m + j - 1]
    BY <2>2, CutParts
  <2>4. Len(s) - m + 1 = Len(s) - i /\ \A j \in 1 .. Len(s) - i : m + j - 1 = i + j
    BY <1>0 DEF m
  <2>5. c = SubSeq(s, m, Len(s))
    BY DEF m
  <2> HIDE DEF c
  <2> QED
    BY <2>3, <2>4, <2>5
<1> HIDE DEF a, c
<1>6. /\ r \in Seq(S)
      /\ Len(r) = Len(a) + Len(c)
      /\ \A j \in 1 .. Len(a) + Len(c) : r[j] = IF j <= Len(a) THEN a[j] ELSE c[j - Len(a)]
  BY <1>3, <1>4, <1>5, ConcatProperties
<1>7. Len(a) + Len(c) = Len(s) - 1
  BY <1>0, <1>4, <1>5
<1>8. ASSUME NEW j \in 1 .. Len(s) - 1 PROVE r[j] = IF j < i THEN s[j] ELSE s[j + 1]
  <2>1. r[j] = IF j <= i - 1 THEN a[j] ELSE c[j - (i - 1)]
    BY <1>4, <1>6, <1>7
  <2>2. CASE j < i
    <3>1. j <= i - 1 /\ j \in 1 .. i - 1
      BY <1>0, <2>2
    <3> QED
      BY <1>4, <2>1, <2>2, <3>1
  <2>3. CASE ~(j < i)
    <3>1. ~(j <= i - 1) /\ j - (i - 1) \in 1 .. Len(s) - i /\ i + (j - (i - 1)) = j + 1
      BY <1>0, <2>3
    <3> QED
      BY <1>5, <2>1, <2>3, <3>1
  <2> QED
    BY <2>2, <2>3
<1> QED
  BY <1>6, <1>7, <1>8 DEF r

\* ... as a set, and still without repetition.
LEMMA RemoveFirstSet ==
  ASSUME NEW S, NEW s \in Seq(S), IsInjective(s), NEW x \in ToSet(s), NEW r, r = RemoveFirst(s, x)
  PROVE  r \in Seq(S) /\ IsInjective(r) /\ ToSet(r) = ToSet(s) \ {x}
<1>1. PICK i \in 1 .. Len(s) : s[i] = x
  BY SeqParts
<1>2. Len(s) \in Nat /\ DOMAIN s = 1 .. Len(s)
  BY SeqParts
<1>3. /\ r \in Seq(S)
      /\ Len(r) = Len(s) - 1
      /\ \A j \in 1 .. Len(s) - 1 : r[j] = IF j < i THEN s[j] ELSE s[j + 1]
  BY <1>1, <1>2, RemoveFirstParts
<1>4. DOMAIN r = 1 .. Len(s) - 1
  BY <1>3, SeqParts
<1>5. \A j, k \in 1 .. Len(s) : s[j] = s[k] => j = k
  BY <1>2 DEF IsInjective
\* where an element of the shorter one was
<1> DEFINE at(j) == IF j < i THEN j ELSE j + 1
<1>6. \A j \in 1 .. Len(s) - 1 : at(j) \in 1 .. Len(s) /\ at(j) # i /\ r[j] = s[at(j)]
  BY <1>1, <1>2, <1>3
<1>7. \A j, k \in 1 .. Len(s) - 1 : at(j) = at(k) => j = k
  BY <1>1, <1>2
<1>8. \A k \in 1 .. Len(s) : k # i => \E j \in 1 .. Len(s) - 1 : at(j) = k
  <2> SUFFICES ASSUME NEW k \in 1 .. Len(s), k # i PROVE \E j \in 1 .. Len(s) - 1 : at(j) = k
    OBVIOUS
  <2>1. CASE k < i
    <3>1. k \in 1 .. Len(s) - 1 /\ at(k) = k
      BY <1>1, <1>2, <2>1
    <3> QED
      BY <3>1
  <2>2. CASE ~(k < i)
    <3>1. k - 1 \in 1 .. Len(s) - 1 /\ at(k - 1) = k
      BY <1>1, <1>2, <2>2
    <3> QED
      BY <3>1
  <2> QED
    BY <2>1, <2>2
<1> HIDE DEF at
<1>9. IsInjective(r)
  BY SMTT(30), <1>4, <1>5, <1>6, <1>7 DEF IsInjective
<1>10. ASSUME NEW y PROVE y \in ToSet(r) <=> y \in ToSet(s) \ {x}
  <2>1. y \in ToSet(r) <=> \E j \in 1 .. Len(s) - 1 : r[j] = y
    BY <1>4 DEF ToSet
  <2>2. y \in ToSet(s) <=> \E k \in 1 .. Len(s) : s[k] = y
    BY SeqParts
  <2>3. ASSUME NEW j \in 1 .. Len(s) - 1, r[j] = y PROVE y \in ToSet(s) \ {x}
    BY SMTT(30), <1>1, <1>5, <1>6, <2>2, <2>3
  <2>4. ASSUME NEW k \in 1 .. Len(s), s[k] = y, y # x PROVE y \in ToSet(r)
    BY <1>1, <1>6, <1>8, <2>1, <2>4
  <2> QED
    BY <2>1, <2>2, <2>3, <2>4
<1> QED
  BY <1>3, <1>9, <1>10

\* A sequence and one of other elements after it.
LEMMA ConcatSet ==
  ASSUME NEW S, NEW s \in Seq(S), NEW t \in Seq(S), IsInjective(s), IsInjective(t),
         ToSet(s) \cap ToSet(t) = {}
  PROVE  s \o t \in Seq(S) /\ IsInjective(s \o t) /\ ToSet(s \o t) = ToSet(s) \cup ToSet(t)
<1> DEFINE u == s \o t
<1>1. /\ u \in Seq(S) /\ Len(u) = Len(s) + Len(t)
      /\ \A i \in 1 .. Len(s) + Len(t) : u[i] = IF i <= Len(s) THEN s[i] ELSE t[i - Len(s)]
  BY ConcatProperties
<1> HIDE DEF u
<1>2. /\ Len(s) \in Nat /\ DOMAIN s = 1 .. Len(s)
      /\ Len(t) \in Nat /\ DOMAIN t = 1 .. Len(t)
      /\ DOMAIN u = 1 .. Len(s) + Len(t)
  BY <1>1, SeqParts
<1>3. \A j, k \in 1 .. Len(s) : s[j] = s[k] => j = k
  BY <1>2 DEF IsInjective
<1>4. \A j, k \in 1 .. Len(t) : t[j] = t[k] => j = k
  BY <1>2 DEF IsInjective
<1>5. \A j \in 1 .. Len(s), k \in 1 .. Len(t) : s[j] # t[k]
  BY <1>2 DEF ToSet
<1>6. ASSUME NEW j \in 1 .. Len(s) + Len(t)
      PROVE  \/ j \in 1 .. Len(s) /\ u[j] = s[j]
             \/ j - Len(s) \in 1 .. Len(t) /\ u[j] = t[j - Len(s)]
  BY <1>1, <1>2
<1>7. IsInjective(u)
  <2> SUFFICES ASSUME NEW j \in 1 .. Len(s) + Len(t), NEW k \in 1 .. Len(s) + Len(t), u[j] = u[k]
               PROVE  j = k
    BY <1>2 DEF IsInjective
  <2>1. j - Len(s) = k - Len(s) => j = k
    BY <1>2
  <2> QED
    BY <1>3, <1>4, <1>5, <1>6, <2>1
<1>8. ASSUME NEW y PROVE y \in ToSet(u) <=> y \in ToSet(s) \cup ToSet(t)
  <2>1. y \in ToSet(u) <=> \E j \in 1 .. Len(s) + Len(t) : u[j] = y
    BY <1>2 DEF ToSet
  <2>2. /\ y \in ToSet(s) <=> \E k \in 1 .. Len(s) : s[k] = y
        /\ y \in ToSet(t) <=> \E k \in 1 .. Len(t) : t[k] = y
    BY SeqParts
  <2>3. ASSUME NEW k \in 1 .. Len(s), s[k] = y PROVE y \in ToSet(u)
    <3>1. k \in 1 .. Len(s) + Len(t) /\ u[k] = y
      BY <1>1, <1>2, <2>3
    <3> QED
      BY <2>1, <3>1
  <2>4. ASSUME NEW k \in 1 .. Len(t), t[k] = y PROVE y \in ToSet(u)
    <3>1. k + Len(s) \in 1 .. Len(s) + Len(t) /\ ~(k + Len(s) <= Len(s)) /\ (k + Len(s)) - Len(s) = k
      BY <1>2
    <3>2. u[k + Len(s)] = y
      BY <1>1, <2>4, <3>1
    <3> QED
      BY <2>1, <3>1, <3>2
  <2> QED
    BY <1>6, <2>1, <2>2, <2>3, <2>4
<1>9. ToSet(u) = ToSet(s) \cup ToSet(t)
  BY <1>8
<1> QED
  BY <1>1, <1>7, <1>9 DEF u

\* A sequence of one.
LEMMA OneSet ==
  ASSUME NEW e
  PROVE  <<e>> \in Seq({e}) /\ IsInjective(<<e>>) /\ ToSet(<<e>>) = {e} /\ Len(<<e>>) = 1 /\ <<e>>[1] = e
<1>1. <<e>> \in Seq({e}) /\ Len(<<e>>) = 1 /\ <<e>>[1] = e /\ DOMAIN <<e>> = 1 .. 1
  OBVIOUS
<1> QED
  BY <1>1 DEF IsInjective, ToSet

\* Something new at the end.
LEMMA AppendSet ==
  ASSUME NEW S, NEW s \in Seq(S), IsInjective(s), NEW e \in S, e \notin ToSet(s)
  PROVE  Append(s, e) \in Seq(S) /\ IsInjective(Append(s, e)) /\ ToSet(Append(s, e)) = ToSet(s) \cup {e}
<1> DEFINE t == <<e>>
<1>1. Append(s, e) = s \o t
  BY AppendIsConcat
<1>2. t \in Seq(S)
  OBVIOUS
<1>3. IsInjective(t) /\ ToSet(t) = {e}
  BY OneSet
<1> HIDE DEF t
<1>4. ToSet(s) \cap ToSet(t) = {}
  BY <1>3
<1> QED
  BY <1>1, <1>2, <1>3, <1>4, ConcatSet

\* Something new at the i-th place.
Inserted(r, s, i, e) ==
  /\ Len(r) = Len(s) + 1
  /\ \A j \in 1 .. Len(s) + 1 : r[j] = IF j < i THEN s[j] ELSE IF j = i THEN e ELSE s[j - 1]
\* InsertAt inserts.
LEMMA InsertAtParts ==
  ASSUME NEW S, NEW s \in Seq(S), NEW e \in S, NEW i \in 1 .. Len(s) + 1,
         NEW r, r = InsertAt(s, i, e)
  PROVE  r \in Seq(S) /\ Inserted(r, s, i, e)
<1>0. Len(s) \in Nat
  BY SeqParts
<1> DEFINE a == SubSeq(s, 1, i - 1)
           c == SubSeq(s, i, Len(s))
           d == a \o <<e>>
<1>1. r = d \o c
  BY DEF InsertAt
<1>2. a \in Seq(S) /\ Len(a) = i - 1 /\ \A j \in 1 .. i - 1 : a[j] = s[j]
  <2>1. i - 1 \in 0 .. Len(s)
    BY <1>0
  <2> QED
    BY <2>1, CutParts
<1>3. c \in Seq(S) /\ Len(c) = Len(s) - i + 1 /\ \A j \in 1 .. Len(s) - i + 1 : c[j] = s[i + j - 1]
  BY CutParts
<1>4. <<e>> \in Seq(S) /\ Len(<<e>>) = 1 /\ <<e>>[1] = e
  OBVIOUS
<1> HIDE DEF a, c
<1>5. /\ d \in Seq(S) /\ Len(d) = i
      /\ \A j \in 1 .. i : d[j] = IF j < i THEN s[j] ELSE e
  <2>1. /\ d \in Seq(S) /\ Len(d) = (i - 1) + 1
        /\ \A j \in 1 .. (i - 1) + 1 : d[j] = IF j <= i - 1 THEN a[j] ELSE <<e>>[j - (i - 1)]
    BY <1>2, <1>4, ConcatProperties
  <2> HIDE DEF d
  <2>2. (i - 1) + 1 = i
    OBVIOUS
  <2>3. ASSUME NEW j \in 1 .. i PROVE d[j] = IF j < i THEN s[j] ELSE e
    <3>1. d[j] = IF j <= i - 1 THEN a[j] ELSE <<e>>[j - (i - 1)]
      BY <2>1, <2>2
    <3>2. j < i => j <= i - 1 /\ j \in 1 .. i - 1
      OBVIOUS
    <3>3. ~(j < i) => ~(j <= i - 1) /\ j - (i - 1) = 1
      OBVIOUS
    <3> QED
      BY <1>2, <1>4, <3>1, <3>2, <3>3
  <2> QED
    BY <2>1, <2>2, <2>3
<1> HIDE DEF d
<1>6. /\ r \in Seq(S) /\ Len(r) = Len(d) + Len(c)
      /\ \A j \in 1 .. Len(d) + Len(c) : r[j] = IF j <= Len(d) THEN d[j] ELSE c[j - Len(d)]
  <2>1. d \in Seq(S) /\ c \in Seq(S)
    BY <1>3, <1>5
  <2> QED
    BY <1>1, <2>1, ConcatProperties
<1>7. Len(d) + Len(c) = Len(s) + 1
  BY <1>0, <1>3, <1>5
<1>8. ASSUME NEW j \in 1 .. Len(s) + 1
      PROVE  r[j] = IF j < i THEN s[j] ELSE IF j = i THEN e ELSE s[j - 1]
  <2>1. r[j] = IF j <= i THEN d[j] ELSE c[j - i]
    BY <1>5, <1>6, <1>7
  <2>2. CASE j <= i
    <3>1. j \in 1 .. i /\ (j < i \/ j = i)
      BY <2>2
    <3> QED
      BY <1>5, <2>1, <2>2, <3>1
  <2>3. CASE ~(j <= i)
    <3>1. j - i \in 1 .. Len(s) - i + 1 /\ i + (j - i) - 1 = j - 1 /\ ~(j < i) /\ j # i
      BY <1>0, <2>3
    <3> QED
      BY <1>3, <2>1, <2>3, <3>1
  <2> QED
    BY <2>2, <2>3
<1> QED
  BY <1>6, <1>7, <1>8 DEF Inserted

\* ... as a set, and still without repetition.
LEMMA InsertAtSet ==
  ASSUME NEW S, NEW s \in Seq(S), IsInjective(s), NEW e \in S, e \notin ToSet(s),
         NEW i \in 1 .. Len(s) + 1, NEW r, r = InsertAt(s, i, e)
  PROVE  r \in Seq(S) /\ IsInjective(r) /\ ToSet(r) = ToSet(s) \cup {e}
<1>0. Len(s) \in Nat
  BY SeqParts
<1>4. r \in Seq(S) /\ Len(r) = Len(s) + 1
      /\ \A j \in 1 .. Len(s) + 1 : r[j] = IF j < i THEN s[j] ELSE IF j = i THEN e ELSE s[j - 1]
  <2>1. r \in Seq(S) /\ Inserted(r, s, i, e)
    BY InsertAtParts
  <2> QED
    BY <2>1 DEF Inserted
<1>5. DOMAIN r = 1 .. Len(s) + 1 /\ DOMAIN s = 1 .. Len(s)
  BY <1>4, SeqParts
<1>6. \A j, k \in 1 .. Len(s) : s[j] = s[k] => j = k
  BY <1>5 DEF IsInjective
<1>7. \A j \in 1 .. Len(s) : s[j] # e
  BY <1>5 DEF ToSet
<1>8. ASSUME NEW j \in 1 .. Len(s) + 1
      PROVE  \/ j < i /\ j \in 1 .. Len(s) /\ r[j] = s[j]
             \/ j = i /\ r[j] = e
             \/ j > i /\ j - 1 \in 1 .. Len(s) /\ r[j] = s[j - 1]
  BY <1>0, <1>4
<1>9. IsInjective(r)
  <2> SUFFICES ASSUME NEW j \in 1 .. Len(s) + 1, NEW k \in 1 .. Len(s) + 1, r[j] = r[k] PROVE j = k
    BY <1>5 DEF IsInjective
  <2>1. CASE j = i \/ k = i
    BY <1>7, <1>8, <2>1
  <2>2. CASE j < i /\ k < i
    BY <1>6, <1>8, <2>2
  <2>3. CASE j > i /\ k > i
    BY SMTT(30), <1>6, <1>8, <2>3
  <2>4. CASE j < i /\ k > i
    <3>1. j = k - 1
      BY <1>6, <1>8, <2>4
    <3> QED
      BY <2>4, <3>1
  <2>5. CASE j > i /\ k < i
    <3>1. k = j - 1
      BY <1>6, <1>8, <2>5
    <3> QED
      BY <2>5, <3>1
  <2> QED
    BY <2>1, <2>2, <2>3, <2>4, <2>5
<1>10. ASSUME NEW y PROVE y \in ToSet(r) <=> y \in ToSet(s) \cup {e}
  <2>1. y \in ToSet(r) <=> \E j \in 1 .. Len(s) + 1 : r[j] = y
    BY <1>5 DEF ToSet
  <2>2. y \in ToSet(s) <=> \E k \in 1 .. Len(s) : s[k] = y
    BY SeqParts
  <2>3. i \in 1 .. Len(s) + 1 /\ r[i] = e
    BY <1>4
  <2>4. ASSUME NEW k \in 1 .. Len(s), s[k] = y PROVE y \in ToSet(r)
    <3>1. CASE k < i
      <4>1. k \in 1 .. Len(s) + 1 /\ r[k] = y
        BY <1>0, <1>4, <2>4, <3>1
      <4> QED
        BY <2>1, <4>1
    <3>2. CASE ~(k < i)
      <4>1. k + 1 \in 1 .. Len(s) + 1 /\ ~(k + 1 < i) /\ k + 1 # i /\ (k + 1) - 1 = k
        BY <1>0, <3>2
      <4>2. r[k + 1] = y
        BY <1>4, <2>4, <4>1
      <4> QED
        BY <2>1, <4>1, <4>2
    <3> QED
      BY <3>1, <3>2
  <2> QED
    BY <1>8, <2>1, <2>2, <2>3, <2>4
<1> QED
  BY <1>4, <1>9, <1>10

-----------------------------------------------------------------------------
(* The operations of a board keep it a tree.  First on the sets of children *)

BoardShape == [kids : [Thing -> Seq(Section \cup Item)], reply : SUBSET Thing,
               marked : SUBSET Thing, ids : SUBSET Thing]
NoRepeats(b) == \A y \in Thing : IsInjective(b.kids[y])

\* Rows of children that are well sorted and belong to one thing each.
Sorted(b) ==
  /\ Kids(b, Title) \subseteq Section
  /\ \A x \in Section \cup Item : Kids(b, x) \subseteq Item
  /\ \A x, y \in Thing : x # y => Kids(b, x) \cap Kids(b, y) = {}
  /\ \A x \in Thing : Kids(b, x) # {} => x = Title \/ \E y \in Thing : x \in Kids(b, y)

\* Items below items, in no circle.
NoCircle(b) ==
  \A S \in (SUBSET Item) \ {{}} :
    /\ \E x \in S : \A y \in S : x \notin Kids(b, y)
    /\ \E x \in S : \A y \in S : y \notin Kids(b, x)

\* A board is a tree when it has the shape, the rows are proper and there is no circle.
LEMMA TreeIs ==
  ASSUME NEW b
  PROVE  IsTree(b) <=> /\ b \in BoardShape /\ NoRepeats(b) /\ Sorted(b) /\ NoCircle(b)
                       /\ IsFiniteSet(OnBoard(b))
<1>1. ASSUME b \in BoardShape
      PROVE  (\A x \in Thing \ OnBoard(b) : b.kids[x] = <<>>)
               <=> \A x \in Thing : Kids(b, x) # {} => x = Title \/ \E y \in Thing : x \in Kids(b, y)
  <2>1. \A x \in Thing : b.kids[x] \in Seq(Section \cup Item)
    BY <1>1 DEF BoardShape
  <2>2. \A x \in Thing : Kids(b, x) = {} <=> b.kids[x] = <<>>
    <3> SUFFICES ASSUME NEW x \in Thing PROVE Kids(b, x) = {} <=> b.kids[x] = <<>>
      OBVIOUS
    <3> DEFINE s == b.kids[x]
    <3>1. s \in Seq(Section \cup Item)
      BY <2>1
    <3> HIDE DEF s
    <3>2. Len(s) \in Nat /\ (s = <<>> <=> Len(s) = 0)
      BY <3>1, SeqParts
    <3>3. ToSet(s) # {} <=> \E i \in 1 .. Len(s) : TRUE
      BY <3>1, SeqParts
    <3>4. ToSet(s) = {} <=> s = <<>>
      BY <3>2, <3>3
    <3> QED
      BY <3>4 DEF s, Kids
  <2>3. \A x : x \in OnBoard(b) <=> x = Title \/ \E y \in Thing : x \in Kids(b, y)
    BY DEF OnBoard, Kids
  <2> QED
    BY <2>2, <2>3
<1>2. ASSUME b \in BoardShape
      PROVE  IsTree(b) <=> /\ NoRepeats(b) /\ Sorted(b) /\ NoCircle(b) /\ IsFiniteSet(OnBoard(b))
  BY <1>1, <1>2, Zenon DEF IsTree, BoardShape, NoRepeats, Sorted, NoCircle, Kids
<1>3. IsTree(b) => b \in BoardShape
  BY DEF IsTree, BoardShape
<1> QED
  BY <1>2, <1>3

\* Nothing but what the sets say matters to who is on the board.
LEMMA OnBoardIs ==
  ASSUME NEW b
  PROVE  \A x : x \in OnBoard(b) <=> x = Title \/ \E y \in Thing : x \in Kids(b, y)
BY DEF OnBoard, Kids

\* One thing comes to the board, below something that is there.
LEMMA Grown ==
  ASSUME NEW b, IsTree(b), NEW c \in BoardShape, NoRepeats(c),
         NEW p \in OnBoard(b), NEW x, x \notin OnBoard(b),
         \/ p = Title /\ x \in Section
         \/ p \in Section \cup Item /\ x \in Item,
         \A y \in Thing : Kids(c, y) = IF y = p THEN Kids(b, p) \cup {x} ELSE Kids(b, y)
  PROVE  IsTree(c) /\ OnBoard(c) = OnBoard(b) \cup {x}
<1>1. Sorted(b) /\ NoCircle(b) /\ IsFiniteSet(OnBoard(b))
  BY TreeIs
<1>2. p \in Thing /\ x \in Thing /\ Kids(b, x) = {} /\ x # p /\ Title \in Thing
  BY OnBoardParts DEF Thing
<1>3. OnBoard(c) = OnBoard(b) \cup {x}
  BY <1>2, OnBoardIs
<1>4. IsFiniteSet(OnBoard(c))
  BY <1>1, <1>3, FS_AddElement
<1>5. Sorted(c)
  <2>1. Kids(c, Title) \subseteq Section
    BY <1>1, <1>2, TreeAssumption DEF Sorted
  <2>2. \A y \in Section \cup Item : Kids(c, y) \subseteq Item
    BY <1>1, <1>2, TreeAssumption DEF Sorted, Thing
  <2>3. \A y \in Thing : x \notin Kids(b, y)
    BY OnBoardIs
  <2>4. \A y, z \in Thing : y # z => Kids(c, y) \cap Kids(c, z) = {}
    BY <1>1, <2>3 DEF Sorted
  <2>5. ASSUME NEW y \in Thing, Kids(c, y) # {}
        PROVE  y = Title \/ \E z \in Thing : y \in Kids(c, z)
    <3>1. y \in OnBoard(b)
      BY <2>5, OnBoardParts
    <3> QED
      BY <3>1, OnBoardIs
  <2> QED
    BY <2>1, <2>2, <2>4, <2>5 DEF Sorted
<1>6. ASSUME NEW S \in (SUBSET Item) \ {{}}
      PROVE  /\ \E u \in S : \A y \in S : u \notin Kids(c, y)
             /\ \E u \in S : \A y \in S : y \notin Kids(c, u)
  <2>0. S \subseteq Thing
    BY DEF Thing
  <2>1. \E u \in S : \A y \in S : u \notin Kids(c, y)
    <3>1. CASE S = {x}
      BY <1>2, <3>1
    <3>2. CASE S # {x}
      <4>1. S \ {x} \in (SUBSET Item) \ {{}}
        BY <3>2
      <4>2. PICK u \in S \ {x} : \A y \in S \ {x} : u \notin Kids(b, y)
        BY <1>1, <4>1 DEF NoCircle
      <4> QED
        BY <1>2, <2>0, <4>2
    <3> QED
      BY <3>1, <3>2
  <2>2. \E u \in S : \A y \in S : y \notin Kids(c, u)
    <3>1. CASE x \in S
      BY <1>2, <3>1
    <3>2. CASE x \notin S
      <4>1. PICK u \in S : \A y \in S : y \notin Kids(b, u)
        BY <1>1 DEF NoCircle
      <4> QED
        BY <2>0, <3>2, <4>1
    <3> QED
      BY <3>1, <3>2
  <2> QED
    BY <2>1, <2>2
<1> QED
  BY <1>3, <1>4, <1>5, <1>6, TreeIs DEF NoCircle

\* Fewer items below items: still no circle.
LEMMA NoNewCircle ==
  ASSUME NEW b, NEW c, NoCircle(b), \A y \in Item : Kids(c, y) \cap Item \subseteq Kids(b, y)
  PROVE  NoCircle(c)
<1> SUFFICES ASSUME NEW S \in (SUBSET Item) \ {{}}
             PROVE  /\ \E u \in S : \A y \in S : u \notin Kids(c, y)
                    /\ \E u \in S : \A y \in S : y \notin Kids(c, u)
  BY DEF NoCircle
<1>1. \E u \in S : \A y \in S : u \notin Kids(b, y)
  BY DEF NoCircle
<1>2. \E u \in S : \A y \in S : y \notin Kids(b, u)
  BY DEF NoCircle
<1> QED
  BY <1>1, <1>2

\* One thing leaves the board with everything below it.
LEMMA Pruned ==
  ASSUME NEW b, IsTree(b), NEW c \in BoardShape, NoRepeats(c),
         NEW gone \in SUBSET Thing, Title \notin gone, NEW x \in gone,
         \A y \in gone : Kids(b, y) \subseteq gone,
         \A y \in Thing : Kids(c, y) = IF y \in gone THEN {} ELSE Kids(b, y) \ {x}
  PROVE  IsTree(c) /\ OnBoard(c) \subseteq OnBoard(b) \ {x}
<1>1. Sorted(b) /\ NoCircle(b) /\ IsFiniteSet(OnBoard(b))
  BY TreeIs
<1>2. \A y \in Thing : Kids(c, y) \subseteq Kids(b, y) \ {x}
  OBVIOUS
<1>3. OnBoard(c) \subseteq OnBoard(b) \ {x}
  BY <1>2, OnBoardIs
<1>4. IsFiniteSet(OnBoard(c))
  <2>1. OnBoard(c) \subseteq OnBoard(b)
    BY <1>3
  <2> QED
    BY <1>1, <2>1, FS_Subset
<1>5. Sorted(c)
  <2>1. ASSUME NEW y \in Thing, Kids(c, y) # {}
        PROVE  y = Title \/ \E z \in Thing : y \in Kids(c, z)
    <3>1. y \notin gone /\ Kids(b, y) # {}
      BY <1>2, <2>1
    <3>2. CASE y = Title
      BY <3>2
    <3>3. CASE y # Title
      <4>1. PICK z \in Thing : y \in Kids(b, z)
        BY <1>1, <3>1, <3>3 DEF Sorted
      <4>2. z \notin gone /\ y # x
        BY <3>1, <4>1
      <4> QED
        BY <4>1, <4>2
    <3> QED
      BY <3>2, <3>3
  <2>2. Title \in Thing /\ Section \cup Item \subseteq Thing
    BY DEF Thing
  <2> QED
    BY <1>1, <1>2, <2>1, <2>2 DEF Sorted
<1>6. NoCircle(c)
  <2>1. Item \subseteq Thing
    BY DEF Thing
  <2> QED
    BY <1>1, <1>2, <2>1, NoNewCircle
<1> QED
  BY <1>3, <1>4, <1>5, <1>6, TreeIs

\* An item goes to Archive, which is there then, with everything below it.
LEMMA Moved ==
  ASSUME NEW b, IsTree(b), NEW c \in BoardShape, NoRepeats(c),
         NEW x \in Item \cap OnBoard(b),
         \A y \in Thing : Kids(c, y) = IF y = Title THEN Kids(b, y) \cup {Archive}
                                       ELSE IF y = Archive THEN Kids(b, y) \cup {x}
                                       ELSE Kids(b, y) \ {x}
  PROVE  IsTree(c) /\ OnBoard(c) = OnBoard(b) \cup {Archive}
<1>0. /\ Title \in Thing /\ Archive \in Section /\ Archive \in Thing /\ Title # Archive
      /\ Title \notin Section /\ Title \notin Item /\ Section \cap Item = {}
      /\ Section \subseteq Thing /\ Item \subseteq Thing
  BY TreeAssumption DEF Thing
<1>1. Sorted(b) /\ NoCircle(b) /\ IsFiniteSet(OnBoard(b))
  BY TreeIs
<1>2. OnBoard(c) = OnBoard(b) \cup {Archive}
  <2>1. \A y \in Thing : Kids(c, y) \subseteq OnBoard(b) \cup {Archive}
    BY <1>0, OnBoardParts
  <2>2. ASSUME NEW y \in Thing, NEW z \in Kids(b, y) PROVE \E q \in Thing : z \in Kids(c, q)
    BY <1>0
  <2> QED
    BY <1>0, <2>1, <2>2, OnBoardIs
<1>3. IsFiniteSet(OnBoard(c))
  BY <1>1, <1>2, FS_AddElement
<1>4. Sorted(c)
  <2>1. Kids(c, Title) \subseteq Section
    BY <1>0, <1>1 DEF Sorted
  <2>2. \A y \in Section \cup Item : Kids(c, y) \subseteq Item
    BY <1>0, <1>1 DEF Sorted
  <2>3. \A y \in Thing : Archive \in Kids(b, y) => y = Title
    BY <1>0, <1>1 DEF Sorted, Thing
  <2>4. \A y, z \in Thing : y # z => Kids(c, y) \cap Kids(c, z) = {}
    <3> SUFFICES ASSUME NEW y \in Thing, NEW z \in Thing, y # z, NEW u \in Kids(c, y), u \in Kids(c, z)
                 PROVE  FALSE
      OBVIOUS
    <3>1. ~(u \in Kids(b, y) /\ u \in Kids(b, z))
      BY <1>1 DEF Sorted
    <3>2. CASE u = Archive
      BY <1>0, <2>3, <3>2
    <3>3. CASE u = x
      <4>1. x \notin Kids(b, Title) /\ x # Archive
        BY <1>0, <1>1 DEF Sorted
      <4> QED
        BY <1>0, <3>3, <4>1
    <3>4. CASE u # Archive /\ u # x
      BY <3>1, <3>4
    <3> QED
      BY <3>2, <3>3, <3>4
  <2>5. ASSUME NEW y \in Thing, Kids(c, y) # {}
        PROVE  y = Title \/ \E z \in Thing : y \in Kids(c, z)
    <3>1. CASE y = Title \/ y = Archive
      BY <1>0, <3>1
    <3>2. CASE y # Title /\ y # Archive
      <4>1. y \in OnBoard(c)
        BY <1>2, <2>5, <3>2, OnBoardParts
      <4> QED
        BY <4>1, OnBoardIs
    <3> QED
      BY <3>1, <3>2
  <2> QED
    BY <2>1, <2>2, <2>4, <2>5 DEF Sorted
<1>5. NoCircle(c)
  <2>1. \A y \in Item : y # Title /\ y # Archive
    BY <1>0
  <2>2. \A y \in Item : Kids(c, y) \cap Item \subseteq Kids(b, y)
    BY <1>0, <2>1
  <2> QED
    BY <1>1, <2>2, NoNewCircle
<1> QED
  BY <1>2, <1>3, <1>4, <1>5, TreeIs

\* The items of a section go to Archive, and the section goes.
LEMMA Poured ==
  ASSUME NEW b, IsTree(b), NEW c \in BoardShape, NoRepeats(c),
         NEW s \in Section \ {Archive},
         \A y \in Thing : Kids(c, y) = IF y = Title THEN (Kids(b, y) \cup {Archive}) \ {s}
                                       ELSE IF y = Archive THEN Kids(b, y) \cup Kids(b, s)
                                       ELSE IF y = s THEN {}
                                       ELSE Kids(b, y)
  PROVE  IsTree(c)
<1>0. /\ Title \in Thing /\ Archive \in Section /\ Archive \in Thing /\ Title # Archive /\ s \in Thing
      /\ Title \notin Section /\ Title \notin Item /\ Section \cap Item = {} /\ s # Title /\ s # Archive
      /\ Section \subseteq Thing /\ Item \subseteq Thing
  BY TreeAssumption DEF Thing
<1>1. Sorted(b) /\ NoCircle(b) /\ IsFiniteSet(OnBoard(b))
  BY TreeIs
<1>2. OnBoard(c) \subseteq OnBoard(b) \cup {Archive}
  <2>1. \A y \in Thing : Kids(c, y) \subseteq OnBoard(b) \cup {Archive}
    BY <1>0, OnBoardParts
  <2> QED
    BY <1>0, <2>1, OnBoardIs, OnBoardParts
<1>3. IsFiniteSet(OnBoard(c))
  <2>1. IsFiniteSet(OnBoard(b) \cup {Archive})
    BY <1>1, FS_AddElement
  <2> QED
    BY <1>2, <2>1, FS_Subset
<1>4. Sorted(c)
  <2>1. Kids(c, Title) \subseteq Section
    BY <1>0, <1>1 DEF Sorted
  <2>2. \A y \in Section \cup Item : Kids(c, y) \subseteq Item
    BY <1>0, <1>1 DEF Sorted
  <2>3. \A y, z \in Thing : y # z => Kids(c, y) \cap Kids(c, z) = {}
    <3> SUFFICES ASSUME NEW y \in Thing, NEW z \in Thing, y # z, NEW u \in Kids(c, y), u \in Kids(c, z)
                 PROVE  FALSE
      OBVIOUS
    <3>1. \A v, w \in Thing : v # w => ~(u \in Kids(b, v) /\ u \in Kids(b, w))
      BY <1>1 DEF Sorted
    <3>2. CASE y = Title \/ z = Title
      <4>1. u \in Section
        BY <2>1, <3>2
      <4>2. (y # Title => u \in Item) /\ (z # Title => u \in Item)
        BY <2>2 DEF Thing
      <4> QED
        BY <1>0, <4>1, <4>2
    <3>3. CASE y # Title /\ z # Title
      <4>1. \A v \in Thing : v # Title /\ u \in Kids(c, v)
                => v # s /\ (u \in Kids(b, v) \/ (v = Archive /\ u \in Kids(b, s)))
        BY <1>0
      <4>2. y # s /\ (u \in Kids(b, y) \/ (y = Archive /\ u \in Kids(b, s)))
        BY <3>3, <4>1
      <4>3. z # s /\ (u \in Kids(b, z) \/ (z = Archive /\ u \in Kids(b, s)))
        BY <3>3, <4>1
      <4> QED
        BY <1>0, <3>1, <4>2, <4>3
    <3> QED
      BY <3>2, <3>3
  <2>4. ASSUME NEW y \in Thing, Kids(c, y) # {}
        PROVE  y = Title \/ \E z \in Thing : y \in Kids(c, z)
    <3>1. CASE y = Title \/ y = Archive
      BY <1>0, <3>1
    <3>2. CASE y # Title /\ y # Archive
      <4>1. y # s /\ Kids(b, y) # {}
        BY <2>4, <3>2
      <4>2. PICK z \in Thing : y \in Kids(b, z)
        BY <1>1, <3>2, <4>1 DEF Sorted
      <4> QED
        BY <1>0, <4>1, <4>2
    <3> QED
      BY <3>1, <3>2
  <2> QED
    BY <2>1, <2>2, <2>3, <2>4 DEF Sorted
<1>5. NoCircle(c)
  <2>1. \A y \in Item : y # Title /\ y # Archive /\ y # s
    BY <1>0
  <2>2. \A y \in Item : Kids(c, y) \cap Item \subseteq Kids(b, y)
    BY <1>0, <2>1
  <2> QED
    BY <1>1, <2>2, NoNewCircle
<1> QED
  BY <1>3, <1>4, <1>5, TreeIs

\* Whatever is not about children changes nothing.
LEMMA SameTree ==
  ASSUME NEW b, IsTree(b), NEW c \in BoardShape, c.kids = b.kids
  PROVE  IsTree(c) /\ OnBoard(c) = OnBoard(b)
<1>1. \A y : Kids(c, y) = Kids(b, y)
  BY DEF Kids
<1>2. OnBoard(c) = OnBoard(b)
  BY DEF OnBoard
<1>3. NoRepeats(c)
  BY TreeIs DEF NoRepeats
<1>4. Sorted(c) /\ NoCircle(c)
  BY <1>1, TreeIs DEF Sorted, NoCircle
<1> QED
  BY <1>2, <1>3, <1>4, TreeIs

\* What is below a thing, itself included, is the least set that has it and is
\* closed downwards.
LEMMA SubtreeParts ==
  ASSUME NEW b, IsTree(b), NEW x \in Thing
  PROVE  /\ x \in Subtree(b, x) /\ Subtree(b, x) \subseteq Thing
         /\ \A y \in Subtree(b, x) : Kids(b, y) \subseteq Subtree(b, x)
         /\ x # Title => Title \notin Subtree(b, x)
         /\ \A S \in SUBSET Thing : x \in S /\ (\A y \in S : Kids(b, y) \subseteq S)
                                   => Subtree(b, x) \subseteq S
<1> DEFINE Equation(f) == f = [y \in Thing |-> {y} \cup UNION {f[c] : c \in ToSet(b.kids[y])}]
           below == CHOOSE f : Equation(f)
           Closed(S) == \A y \in S : Kids(b, y) \subseteq S
           f == [y \in Thing |-> {z \in Thing : \A S \in SUBSET Thing : y \in S /\ Closed(S) => z \in S}]
<1>1. \A y \in Thing : Kids(b, y) \subseteq Thing /\ Title \notin Kids(b, y)
  BY OnBoardParts
<1>2. ASSUME NEW y \in Thing PROVE f[y] = {y} \cup UNION {f[c] : c \in Kids(b, y)}
  <2> DEFINE R == {y} \cup UNION {f[c] : c \in Kids(b, y)}
  <2>1. R \in SUBSET Thing
    BY <1>1
  <2>2. y \in R
    OBVIOUS
  <2>3. ASSUME NEW z \in R, NEW w \in Kids(b, z) PROVE w \in R
    <3>1. w \in Thing
      BY <1>1, <2>1
    <3>2. CASE z = y
      <4>1. w \in f[w]
        BY <3>1
      <4> QED
        BY <3>2, <4>1
    <3>3. CASE z # y
      <4>1. PICK c \in Kids(b, y) : z \in f[c]
        BY <3>3
      <4>2. c \in Thing
        BY <1>1
      <4>3. w \in f[c]
        BY <3>1, <4>1, <4>2
      <4> QED
        BY <4>3
    <3> QED
      BY <3>2, <3>3
  <2>4. f[y] \subseteq R
    <3>1. Closed(R)
      BY <2>3
    <3> HIDE DEF R
    <3> QED
      BY <2>1, <2>2, <3>1
  <2>5. R \subseteq f[y]
    <3>1. y \in f[y]
      OBVIOUS
    <3>2. ASSUME NEW c \in Kids(b, y) PROVE f[c] \subseteq f[y]
      <4>1. c \in Thing
        BY <1>1
      <4> QED
        BY <4>1
    <3> HIDE DEF f
    <3> QED
      BY <3>1, <3>2
  <2> QED
    BY <2>4, <2>5
<1>3. f = [y \in Thing |-> f[y]]
  OBVIOUS
<1> HIDE DEF f
<1>4. Equation(f)
  BY <1>2, <1>3 DEF Kids
<1>5. Equation(below)
  BY <1>4
<1>6. Subtree(b, x) = below[x]
  BY DEF Subtree
<1> HIDE DEF below
<1>7. \A y \in Thing : below[y] = {y} \cup UNION {below[c] : c \in Kids(b, y)}
  BY <1>5 DEF Kids
<1> DEFINE T == {y \in Thing : /\ below[y] \subseteq Thing
                               /\ \A z \in below[y] : Kids(b, z) \subseteq below[y]
                               /\ y # Title => Title \notin below[y]
                               /\ \A S \in SUBSET Thing : y \in S /\ Closed(S) => below[y] \subseteq S}
<1>8. ASSUME NEW y \in Thing, Kids(b, y) \subseteq T PROVE y \in T
  <2>1. below[y] \subseteq Thing
    BY <1>7, <1>8
  <2>2. ASSUME NEW z \in below[y], NEW w \in Kids(b, z) PROVE w \in below[y]
    <3>1. CASE z = y
      <4>1. w \in Thing
        BY <1>1, <3>1
      <4>2. w \in below[w]
        BY <1>7, <4>1
      <4> QED
        BY <1>7, <3>1, <4>2
    <3>2. CASE z # y
      <4>1. PICK c \in Kids(b, y) : z \in below[c]
        BY <1>7, <3>2
      <4>2. w \in below[c]
        BY <1>8, <4>1
      <4> QED
        BY <1>7, <4>2
    <3> QED
      BY <3>1, <3>2
  <2>3. y # Title => Title \notin below[y]
    BY <1>1, <1>7, <1>8
  <2>4. ASSUME NEW S \in SUBSET Thing, y \in S, Closed(S) PROVE below[y] \subseteq S
    <3>1. Kids(b, y) \subseteq S
      BY <2>4
    <3>2. \A c \in Kids(b, y) : below[c] \subseteq S
      BY <1>8, <2>4, <3>1
    <3> QED
      BY <1>7, <2>4, <3>2
  <2> HIDE DEF Closed
  <2> QED
    BY <2>1, <2>2, <2>3, <2>4
<1>9. T \in SUBSET Thing
  OBVIOUS
<1> HIDE DEF T
<1>10. T = Thing
  BY <1>8, <1>9, UpTheTree
<1>11. x \in below[x]
  BY <1>7
<1> QED
  BY <1>6, <1>10, <1>11 DEF T

\* The rows of children, one by one.
LEMMA RowParts ==
  ASSUME NEW b, IsTree(b)
  PROVE  /\ b \in BoardShape /\ b.kids \in [Thing -> Seq(Section \cup Item)]
         /\ \A y \in Thing : b.kids[y] \in Seq(Section \cup Item) /\ IsInjective(b.kids[y])
BY TreeIs DEF BoardShape, NoRepeats

\* The one who is above.
LEMMA ParentParts ==
  ASSUME NEW b, IsTree(b), NEW x \in OnBoard(b) \ {Title}
  PROVE  /\ Parent(b, x) \in Thing /\ Parent(b, x) \in OnBoard(b) /\ x \in Kids(b, Parent(b, x))
         /\ \A y \in Thing : x \in Kids(b, y) <=> y = Parent(b, x)
         /\ x \in Section <=> Parent(b, x) = Title
         /\ x \in Thing
<1>1. PICK p \in OnBoard(b) : x \in Kids(b, p)
  BY OnBoardParts
<1>2. p \in Thing /\ x \in Thing
  BY OnBoardParts
<1>3. \A y \in Thing : x \in Kids(b, y) => y = p
  BY <1>1, <1>2, TreeParts
<1>4. Parent(b, x) = p
  BY <1>1, <1>2, <1>3 DEF Parent, Kids
<1>5. x \in Section <=> p = Title
  BY <1>1, <1>2, TreeParts, TreeAssumption DEF Thing
<1> QED
  BY <1>1, <1>2, <1>3, <1>4, <1>5

\* Remove and RemoveSection leave a tree.
LEMMA WithoutTree ==
  ASSUME NEW b, IsTree(b), NEW x \in OnBoard(b) \ {Title}
  PROVE  IsTree(Without(b, x)) /\ OnBoard(Without(b, x)) \subseteq OnBoard(b) \ {x}
<1> DEFINE c == Without(b, x)
           gone == Subtree(b, x)
           p == Parent(b, x)
<1>1. p \in Thing /\ x \in Kids(b, p) /\ (\A y \in Thing : x \in Kids(b, y) <=> y = p) /\ x \in Thing
  BY ParentParts
<1>2. /\ x \in gone /\ gone \in SUBSET Thing /\ Title \notin gone
      /\ \A y \in gone : Kids(b, y) \subseteq gone
  BY <1>1, SubtreeParts
<1>3. /\ c.kids = [y \in Thing |-> IF y \in gone THEN <<>>
                                   ELSE IF y = p THEN RemoveFirst(b.kids[y], x) ELSE b.kids[y]]
      /\ c = [b EXCEPT !.kids = c.kids, !.reply = b.reply \ gone, !.marked = b.marked \ gone, !.ids = b.ids \ gone]
  <2>1. b \in BoardShape
    BY RowParts
  <2> HIDE DEF gone, p
  <2> QED
    BY <2>1 DEF Without, BoardShape, gone, p
<1> DEFINE r == RemoveFirst(b.kids[p], x)
<1>4. r \in Seq(Section \cup Item) /\ IsInjective(r) /\ ToSet(r) = Kids(b, p) \ {x}
  <2> DEFINE s == b.kids[p]
  <2>1. s \in Seq(Section \cup Item) /\ IsInjective(s) /\ x \in ToSet(s) /\ ToSet(s) = Kids(b, p)
    BY <1>1, RowParts DEF Kids
  <2> HIDE DEF s
  <2>2. RemoveFirst(s, x) \in Seq(Section \cup Item) /\ IsInjective(RemoveFirst(s, x))
        /\ ToSet(RemoveFirst(s, x)) = ToSet(s) \ {x}
    BY <2>1, RemoveFirstSet
  <2> QED
    BY <2>1, <2>2 DEF s
<1> HIDE DEF r, gone, p, c
<1>5. \A y \in Thing : c.kids[y] = IF y \in gone THEN <<>> ELSE IF y = p THEN r ELSE b.kids[y]
  BY <1>3 DEF r
<1>6. <<>> \in Seq(Section \cup Item) /\ IsInjective(<<>>) /\ ToSet(<<>>) = {}
  BY DEF IsInjective, ToSet
<1>7. \A y \in Thing : c.kids[y] \in Seq(Section \cup Item) /\ IsInjective(c.kids[y])
  BY <1>4, <1>5, <1>6, RowParts
<1>8. c \in BoardShape /\ NoRepeats(c)
  <2>1. c.kids \in [Thing -> Seq(Section \cup Item)]
    BY <1>3, <1>7
  <2>2. b \in BoardShape
    BY RowParts
  <2> QED
    BY <1>3, <1>7, <2>1, <2>2 DEF BoardShape, NoRepeats
<1>9. \A y \in Thing : Kids(c, y) = IF y \in gone THEN {} ELSE Kids(b, y) \ {x}
  BY <1>1, <1>4, <1>5, <1>6 DEF Kids
<1>10. IsTree(c) /\ OnBoard(c) \subseteq OnBoard(b) \ {x}
  BY <1>2, <1>8, <1>9, Pruned
<1> QED
  BY <1>10 DEF c

\* AddItem and AddReply leave a tree.
LEMMA WithItemTree ==
  ASSUME NEW b, IsTree(b), NEW p \in OnBoard(b) \ {Title}, NEW x \in Item \ OnBoard(b), NEW reply \in BOOLEAN
  PROVE  IsTree(WithItem(b, p, x, reply)) /\ OnBoard(WithItem(b, p, x, reply)) = OnBoard(b) \cup {x}
<1> DEFINE c == WithItem(b, p, x, reply)
           s == b.kids[p]
           r == Append(s, x)
<1>1. p \in Thing /\ p \in Section \cup Item /\ x \in Thing /\ x \notin Kids(b, p)
  BY OnBoardParts DEF Thing
<1>2. s \in Seq(Section \cup Item) /\ IsInjective(s) /\ ToSet(s) = Kids(b, p) /\ x \in Section \cup Item
  BY <1>1, RowParts DEF Kids
<1>3. b \in BoardShape
  BY RowParts
<1>4. c.kids = [b.kids EXCEPT ![p] = r] /\ c = [b EXCEPT !.kids = c.kids, !.reply = IF reply THEN b.reply \cup {x} ELSE b.reply]
  BY <1>3 DEF WithItem, BoardShape
<1> HIDE DEF s
<1>5. r \in Seq(Section \cup Item) /\ IsInjective(r) /\ ToSet(r) = Kids(b, p) \cup {x}
  BY <1>1, <1>2, AppendSet
<1> HIDE DEF r, c
<1>6. \A y \in Thing : c.kids[y] = IF y = p THEN r ELSE b.kids[y]
  BY <1>3, <1>4 DEF BoardShape
<1>7. \A y \in Thing : c.kids[y] \in Seq(Section \cup Item) /\ IsInjective(c.kids[y])
  BY <1>5, <1>6, RowParts
<1>8. c \in BoardShape /\ NoRepeats(c)
  <2>1. c.kids \in [Thing -> Seq(Section \cup Item)]
    BY <1>1, <1>3, <1>4, <1>5 DEF BoardShape
  <2>2. (IF reply THEN b.reply \cup {x} ELSE b.reply) \in SUBSET Thing
    BY <1>1, <1>3 DEF BoardShape
  <2>3. c \in BoardShape
    BY <1>3, <1>4, <2>1, <2>2 DEF BoardShape
  <2> QED
    BY <1>7, <2>3 DEF NoRepeats
<1>9. \A y \in Thing : Kids(c, y) = IF y = p THEN Kids(b, p) \cup {x} ELSE Kids(b, y)
  BY <1>5, <1>6 DEF Kids
<1>10. IsTree(c) /\ OnBoard(c) = OnBoard(b) \cup {x}
  BY <1>1, <1>8, <1>9, Grown
<1> QED
  BY <1>10 DEF c

\* A row with a section more, above Log if there is one.
LEMMA SectionRow ==
  ASSUME NEW b \in BoardShape, IsInjective(b.kids[Title]), NEW s \in Section
  PROVE  /\ WithSection(b, s) \in BoardShape
         /\ \A y \in Thing \ {Title} : WithSection(b, s).kids[y] = b.kids[y]
         /\ IsInjective(WithSection(b, s).kids[Title])
         /\ Kids(WithSection(b, s), Title) = Kids(b, Title) \cup {s}
         /\ WithSection(b, s).reply = b.reply
<1> DEFINE all == b.kids[Title]
           at == IF Log \in ToSet(all) THEN Place(all, Log) ELSE Len(all) + 1
           r == InsertAt(all, at, s)
           c == WithSection(b, s)
<1>0. Title \in Thing
  BY DEF Thing
<1>1. CASE s \in ToSet(all)
  BY <1>1 DEF WithSection, Kids
<1>2. CASE s \notin ToSet(all)
  <2>1. all \in Seq(Section \cup Item) /\ IsInjective(all) /\ s \in Section \cup Item
    BY <1>0 DEF BoardShape
  <2>2. c = [b EXCEPT !.kids = [b.kids EXCEPT ![Title] = r]]
    BY <1>2 DEF WithSection, BoardShape
  <2> HIDE DEF all, c
  <2>3. Len(all) \in Nat /\ DOMAIN all = 1 .. Len(all)
    BY <2>1, SeqParts
  <2>4. at \in 1 .. Len(all) + 1
    <3>1. CASE Log \in ToSet(all)
      <4>1. \E i \in DOMAIN all : all[i] = Log
        BY <3>1 DEF ToSet
      <4>2. Place(all, Log) \in DOMAIN all
        BY <4>1 DEF Place
      <4> QED
        BY <2>3, <3>1, <4>2
    <3>2. CASE Log \notin ToSet(all)
      BY <2>3, <3>2
    <3> QED
      BY <3>1, <3>2
  <2> HIDE DEF at
  <2>5. r \in Seq(Section \cup Item) /\ IsInjective(r) /\ ToSet(r) = ToSet(all) \cup {s}
    BY <1>2, <2>1, <2>4, InsertAtSet
  <2> HIDE DEF r
  <2>6. c \in BoardShape /\ c.reply = b.reply
    BY <1>0, <2>2, <2>5 DEF BoardShape
  <2>7. \A y \in Thing : c.kids[y] = IF y = Title THEN r ELSE b.kids[y]
    BY <2>2 DEF BoardShape
  <2>8. IsInjective(c.kids[Title]) /\ Kids(c, Title) = Kids(b, Title) \cup {s}
    BY <1>0, <2>5, <2>7 DEF Kids, all
  <2> QED
    BY <2>6, <2>7, <2>8 DEF c
<1> QED
  BY <1>1, <1>2

\* AddSection leaves a tree.
LEMMA WithSectionTree ==
  ASSUME NEW b, IsTree(b), NEW s \in Section
  PROVE  IsTree(WithSection(b, s)) /\ OnBoard(WithSection(b, s)) = OnBoard(b) \cup {s}
<1> DEFINE c == WithSection(b, s)
<1>0. Title \in Thing /\ Title \in OnBoard(b) /\ b \in BoardShape
  BY OnBoardParts, RowParts
<1>1. CASE s \in OnBoard(b)
  <2>1. s # Title
    BY TreeAssumption
  <2>2. s \in Kids(b, Title)
    BY <1>1, <2>1, ParentParts
  <2>3. c = b
    BY <2>2 DEF WithSection, Kids
  <2> QED
    BY <1>1, <2>3
<1>2. CASE s \notin OnBoard(b)
  <2>1. /\ c \in BoardShape
        /\ \A y \in Thing \ {Title} : c.kids[y] = b.kids[y]
        /\ IsInjective(c.kids[Title])
        /\ Kids(c, Title) = Kids(b, Title) \cup {s}
    BY <1>0, RowParts, SectionRow
  <2> HIDE DEF c
  <2>2. NoRepeats(c)
    BY <2>1, RowParts DEF NoRepeats
  <2>3. \A y \in Thing : Kids(c, y) = IF y = Title THEN Kids(b, Title) \cup {s} ELSE Kids(b, y)
    BY <2>1 DEF Kids
  <2>4. IsTree(c) /\ OnBoard(c) = OnBoard(b) \cup {s}
    BY <1>0, <1>2, <2>1, <2>2, <2>3, Grown
  <2> QED
    BY <2>4 DEF c
<1> QED
  BY <1>1, <1>2

\* ArchiveItem leaves a tree, whether Archive was there or not.
LEMMA WithArchivedTree ==
  ASSUME NEW b, IsTree(b), NEW x \in Item \cap OnBoard(b)
  PROVE  IsTree(WithArchived(b, x)) /\ OnBoard(WithArchived(b, x)) = OnBoard(b) \cup {Archive}
<1> DEFINE p == Parent(b, x)
           r == RemoveFirst(b.kids[p], x)
           d == [b EXCEPT !.kids[p] = r]
           e == WithSection(d, Archive)
           t == Append(e.kids[Archive], x)
           c == WithArchived(b, x)
<1>0. /\ Archive \in Section /\ Archive \in Thing /\ Archive # Title /\ Title \in Thing
      /\ x # Title /\ x \in Section \cup Item /\ x \notin Section /\ b \in BoardShape
  BY RowParts, TreeAssumption DEF Thing
<1>1. p \in Thing /\ p # Title /\ x \in Kids(b, p) /\ (\A y \in Thing : x \in Kids(b, y) <=> y = p)
  BY <1>0, ParentParts
<1>2. r \in Seq(Section \cup Item) /\ IsInjective(r) /\ ToSet(r) = Kids(b, p) \ {x}
  <2> DEFINE s == b.kids[p]
  <2>1. s \in Seq(Section \cup Item) /\ IsInjective(s) /\ x \in ToSet(s) /\ ToSet(s) = Kids(b, p)
    BY <1>1, RowParts DEF Kids
  <2> HIDE DEF s
  <2>2. RemoveFirst(s, x) \in Seq(Section \cup Item) /\ IsInjective(RemoveFirst(s, x))
        /\ ToSet(RemoveFirst(s, x)) = ToSet(s) \ {x}
    BY <2>1, RemoveFirstSet
  <2> QED
    BY <2>1, <2>2 DEF s
<1>3. c = [e EXCEPT !.kids[Archive] = t]
  BY DEF WithArchived
<1> HIDE DEF r, p, c
<1>4. d \in BoardShape /\ \A y \in Thing : d.kids[y] = IF y = p THEN r ELSE b.kids[y]
  BY <1>0, <1>1, <1>2 DEF BoardShape
<1>5. \A y \in Thing : IsInjective(d.kids[y]) /\ Kids(d, y) = Kids(b, y) \ {x}
  BY <1>1, <1>2, <1>4, RowParts DEF Kids
<1> HIDE DEF d
<1>6. /\ e \in BoardShape
      /\ \A y \in Thing \ {Title} : e.kids[y] = d.kids[y]
      /\ IsInjective(e.kids[Title])
      /\ Kids(e, Title) = Kids(d, Title) \cup {Archive}
  BY <1>0, <1>4, <1>5, SectionRow
<1> HIDE DEF e
<1>7. \A y \in Thing : IsInjective(e.kids[y]) /\ Kids(e, y) = IF y = Title THEN (Kids(b, y) \ {x}) \cup {Archive} ELSE Kids(b, y) \ {x}
  BY <1>5, <1>6 DEF Kids
<1>8. t \in Seq(Section \cup Item) /\ IsInjective(t) /\ ToSet(t) = (Kids(b, Archive) \ {x}) \cup {x}
  <2> DEFINE s == e.kids[Archive]
  <2>1. s \in Seq(Section \cup Item) /\ IsInjective(s) /\ ToSet(s) = Kids(b, Archive) \ {x}
    BY <1>0, <1>6, <1>7 DEF BoardShape, Kids
  <2> HIDE DEF s
  <2>2. Append(s, x) \in Seq(Section \cup Item) /\ IsInjective(Append(s, x)) /\ ToSet(Append(s, x)) = ToSet(s) \cup {x}
    BY <1>0, <2>1, AppendSet
  <2> QED
    BY <2>1, <2>2 DEF s
<1> HIDE DEF t
<1>9. c \in BoardShape /\ \A y \in Thing : c.kids[y] = IF y = Archive THEN t ELSE e.kids[y]
  BY <1>0, <1>3, <1>6, <1>8 DEF BoardShape
<1>10. NoRepeats(c)
  BY <1>7, <1>8, <1>9 DEF NoRepeats
<1>11. \A y \in Thing : Kids(c, y) = IF y = Archive THEN (Kids(b, y) \ {x}) \cup {x}
                                       ELSE IF y = Title THEN (Kids(b, y) \ {x}) \cup {Archive} ELSE Kids(b, y) \ {x}
  BY <1>7, <1>8, <1>9 DEF Kids
<1>12. x \notin Kids(b, Title)
  BY <1>0, <1>1
<1>13. \A y \in Thing : Kids(c, y) = IF y = Title THEN Kids(b, y) \cup {Archive}
                                       ELSE IF y = Archive THEN Kids(b, y) \cup {x}
                                       ELSE Kids(b, y) \ {x}
  BY <1>0, <1>11, <1>12
<1>14. IsTree(c) /\ OnBoard(c) = OnBoard(b) \cup {Archive}
  BY <1>9, <1>10, <1>13, Moved
<1> QED
  BY <1>14 DEF c

\* ArchiveSection leaves a tree.
LEMMA WithSectionArchivedTree ==
  ASSUME NEW b, IsTree(b), NEW s \in (Section \ {Archive}) \cap OnBoard(b)
  PROVE  IsTree(WithSectionArchived(b, s))
<1> DEFINE d == WithSection(b, Archive)
           t == d.kids[Archive] \o b.kids[s]
           r == RemoveFirst(d.kids[Title], s)
           c == WithSectionArchived(b, s)
<1>0. /\ Archive \in Section /\ Archive \in Thing /\ Archive # Title /\ Title \in Thing
      /\ s # Title /\ s \in Section \cup Item /\ s \in Thing /\ b \in BoardShape /\ s # Archive
  BY RowParts, TreeAssumption DEF Thing
<1>1. s \in Kids(b, Title)
  BY <1>0, ParentParts
<1>2. c.kids = [[[d.kids EXCEPT ![Archive] = t] EXCEPT ![s] = <<>>] EXCEPT ![Title] = r]
  <2>1. d \in BoardShape
    BY <1>0, RowParts, SectionRow
  <2> HIDE DEF d
  <2>2. c = [d EXCEPT !.kids[Archive] = @ \o b.kids[s], !.kids[s] = <<>>,
                      !.kids[Title] = RemoveFirst(@, s), !.ids = @ \ {s}]
    BY DEF WithSectionArchived, d
  <2> HIDE DEF c
  <2> QED
    BY <1>0, <2>1, <2>2 DEF BoardShape
<1>2a. c = [d EXCEPT !.kids = c.kids, !.ids = d.ids \ {s}]
  <2>1. d \in BoardShape
    BY <1>0, RowParts, SectionRow
  <2> HIDE DEF d
  <2>3. c = [d EXCEPT !.kids[Archive] = @ \o b.kids[s], !.kids[s] = <<>>,
                      !.kids[Title] = RemoveFirst(@, s), !.ids = @ \ {s}]
    BY DEF WithSectionArchived, d
  <2> HIDE DEF c
  <2> QED
    BY <2>1, <2>3 DEF BoardShape
<1>3. /\ d \in BoardShape
      /\ \A y \in Thing \ {Title} : d.kids[y] = b.kids[y]
      /\ IsInjective(d.kids[Title])
      /\ Kids(d, Title) = Kids(b, Title) \cup {Archive}
  BY <1>0, RowParts, SectionRow
<1> HIDE DEF d, c
<1>4. r \in Seq(Section \cup Item) /\ IsInjective(r) /\ ToSet(r) = (Kids(b, Title) \cup {Archive}) \ {s}
  <2> DEFINE q == d.kids[Title]
  <2>1. q \in Seq(Section \cup Item) /\ IsInjective(q) /\ ToSet(q) = Kids(b, Title) \cup {Archive}
    BY <1>0, <1>3 DEF BoardShape, Kids
  <2> HIDE DEF q
  <2>2. s \in ToSet(q)
    BY <1>1, <2>1
  <2>3. RemoveFirst(q, s) \in Seq(Section \cup Item) /\ IsInjective(RemoveFirst(q, s))
        /\ ToSet(RemoveFirst(q, s)) = ToSet(q) \ {s}
    BY <2>1, <2>2, RemoveFirstSet
  <2> QED
    BY <2>1, <2>3 DEF q
<1>5. t \in Seq(Section \cup Item) /\ IsInjective(t) /\ ToSet(t) = Kids(b, Archive) \cup Kids(b, s)
  <2> DEFINE q == d.kids[Archive]
             u == b.kids[s]
  <2>1. q \in Seq(Section \cup Item) /\ IsInjective(q) /\ ToSet(q) = Kids(b, Archive)
    BY <1>0, <1>3, RowParts DEF Kids
  <2>2. u \in Seq(Section \cup Item) /\ IsInjective(u) /\ ToSet(u) = Kids(b, s)
    BY <1>0, RowParts DEF Kids
  <2> HIDE DEF q, u
  <2>3. ToSet(q) \cap ToSet(u) = {}
    BY <1>0, <2>1, <2>2, TreeParts
  <2>4. q \o u \in Seq(Section \cup Item) /\ IsInjective(q \o u) /\ ToSet(q \o u) = ToSet(q) \cup ToSet(u)
    BY <2>1, <2>2, <2>3, ConcatSet
  <2> QED
    BY <2>1, <2>2, <2>4 DEF q, u
<1> HIDE DEF r, t
<1>6. <<>> \in Seq(Section \cup Item) /\ IsInjective(<<>>) /\ ToSet(<<>>) = {}
  BY DEF IsInjective, ToSet
<1>7. \A y \in Thing : c.kids[y] = IF y = Title THEN r ELSE IF y = s THEN <<>>
                                   ELSE IF y = Archive THEN t ELSE b.kids[y]
  BY <1>0, <1>2, <1>3 DEF BoardShape
<1>8. \A y \in Thing : c.kids[y] \in Seq(Section \cup Item) /\ IsInjective(c.kids[y])
  BY <1>4, <1>5, <1>6, <1>7, RowParts
<1>9. c \in BoardShape /\ NoRepeats(c)
  <2>1. DOMAIN c.kids = Thing /\ c.kids = [y \in Thing |-> c.kids[y]]
    BY <1>2, <1>3 DEF BoardShape
  <2>2. c.kids \in [Thing -> Seq(Section \cup Item)]
    BY <1>8, <2>1
  <2> QED
    BY <1>2a, <1>3, <1>8, <2>2 DEF BoardShape, NoRepeats
<1>10. \A y \in Thing : Kids(c, y) = IF y = Title THEN (Kids(b, y) \cup {Archive}) \ {s}
                                     ELSE IF y = Archive THEN Kids(b, y) \cup Kids(b, s)
                                     ELSE IF y = s THEN {}
                                     ELSE Kids(b, y)
  BY <1>0, <1>4, <1>5, <1>6, <1>7 DEF Kids
<1>11. IsTree(c)
  BY <1>0, <1>9, <1>10, Poured
<1> QED
  BY <1>11 DEF c

\* EnsureIDs leaves a tree.
LEMMA NumberedTree ==
  ASSUME NEW b, IsTree(b)
  PROVE  IsTree(Numbered(b)) /\ OnBoard(Numbered(b)) = OnBoard(b)
<1>1. b \in BoardShape /\ OnBoard(b) \ {Title} \in SUBSET Thing
  BY RowParts, OnBoardParts
<1>2. Numbered(b) \in BoardShape /\ Numbered(b).kids = b.kids
  BY <1>1 DEF Numbered, BoardShape
<1> QED
  BY <1>2, SameTree

\* The new text of an item may read as a reply, or no longer.
LEMMA RewordedTree ==
  ASSUME NEW b, IsTree(b), NEW replies \in SUBSET Thing
  PROVE  IsTree([b EXCEPT !.reply = replies]) /\ OnBoard([b EXCEPT !.reply = replies]) = OnBoard(b)
<1> DEFINE c == [b EXCEPT !.reply = replies]
<1>1. b \in BoardShape
  BY RowParts
<1>2. c \in BoardShape /\ c.kids = b.kids
  BY <1>1 DEF BoardShape
<1> HIDE DEF c
<1>3. IsTree(c) /\ OnBoard(c) = OnBoard(b)
  BY <1>2, SameTree
<1> QED
  BY <1>3 DEF c

\* An editor adds an item on top of a section.
LEMMA ToppedTree ==
  ASSUME NEW b, IsTree(b), NEW p \in Section \cap OnBoard(b), NEW x \in Item \ OnBoard(b)
  PROVE  /\ IsTree([b EXCEPT !.kids[p] = <<x>> \o @])
         /\ OnBoard([b EXCEPT !.kids[p] = <<x>> \o @]) = OnBoard(b) \cup {x}
<1> DEFINE c == [b EXCEPT !.kids[p] = <<x>> \o @]
           s == b.kids[p]
           o == <<x>>
           r == o \o s
<1>1. p \in Thing /\ p # Title /\ x \in Thing /\ x \notin Kids(b, p)
  BY OnBoardParts, TreeAssumption DEF Thing
<1>2. s \in Seq(Section \cup Item) /\ IsInjective(s) /\ ToSet(s) = Kids(b, p) /\ x \in Section \cup Item
  BY <1>1, RowParts DEF Kids
<1>3. b \in BoardShape
  BY RowParts
<1>4. c = [b EXCEPT !.kids = [b.kids EXCEPT ![p] = r]]
  BY <1>3 DEF BoardShape
<1>5. o \in Seq(Section \cup Item) /\ IsInjective(o) /\ ToSet(o) = {x}
  BY <1>2, OneSet
<1> HIDE DEF s, o
<1>6. ToSet(o) \cap ToSet(s) = {}
  BY <1>1, <1>2, <1>5
<1>7. r \in Seq(Section \cup Item) /\ IsInjective(r) /\ ToSet(r) = {x} \cup Kids(b, p)
  BY <1>2, <1>5, <1>6, ConcatSet
<1> HIDE DEF r, c
<1>8. c \in BoardShape /\ \A y \in Thing : c.kids[y] = IF y = p THEN r ELSE b.kids[y]
  BY <1>1, <1>3, <1>4, <1>7 DEF BoardShape
<1>9. NoRepeats(c)
  BY <1>7, <1>8, RowParts DEF NoRepeats
<1>10. \A y \in Thing : Kids(c, y) = IF y = p THEN Kids(b, p) \cup {x} ELSE Kids(b, y)
  BY <1>7, <1>8 DEF Kids
<1>11. IsTree(c) /\ OnBoard(c) = OnBoard(b) \cup {x}
  BY <1>1, <1>8, <1>9, <1>10, Grown
<1> QED
  BY <1>11 DEF c

-----------------------------------------------------------------------------
(* Rows that are cut down, and keys that begin alike.                      *)

\* The elements of q come in the order they have in s.
InOrder(q, s) ==
  \A a, c \in 1 .. Len(q) : \A i, j \in 1 .. Len(s) : a < c /\ s[i] = q[a] /\ s[j] = q[c] => i < j

\* What is kept of a row without repeats: the elements that are in T, once and in order.
LEMMA AmongAll ==
  ASSUME NEW S, NEW s \in Seq(S), IsInjective(s), NEW T
  PROVE  /\ Among(s, T) \in Seq(S) /\ IsInjective(Among(s, T))
         /\ ToSet(Among(s, T)) = ToSet(s) \cap T
         /\ InOrder(Among(s, T), s)
<1> DEFINE V == Seq(S)
           Step(q, n) == IF s[n] \in T THEN Append(q, s[n]) ELSE q
           step == [p \in (1 .. Len(s)) \X V |-> Step(p[2], p[1])]
           Equation(f) == f = [n \in 0 .. Len(s) |->
              IF n = 0 THEN <<>> ELSE IF s[n] \in T THEN Append(f[n - 1], s[n]) ELSE f[n - 1]]
           kept == CHOOSE f : Equation(f)
<1>1. Len(s) \in Nat /\ <<>> \in V /\ DOMAIN s = 1 .. Len(s) /\ \A n \in 1 .. Len(s) : s[n] \in S
  BY SeqParts, ElementOfSeq
<1>2. \A q \in V : \A n \in 1 .. Len(s) : Step(q, n) \in V
  BY <1>1, AppendParts
<1> HIDE DEF Step
<1>3. step \in [(1 .. Len(s)) \X V -> V]
  BY <1>2
<1>4. \A n \in 1 .. Len(s) : \A q \in V : step[<<n, q>>] = Step(q, n)
  OBVIOUS
<1> HIDE DEF step
<1>5. PICK f : Iterates(f, Len(s), V, <<>>, step)
  <2> HIDE DEF V
  <2> QED
    BY <1>1, <1>3, Iteration
<1>6. f \in [0 .. Len(s) -> V] /\ f[0] = <<>> /\ \A n \in 1 .. Len(s) : f[n] = Step(f[n - 1], n)
  <2>1. f \in [0 .. Len(s) -> V] /\ f[0] = <<>> /\ \A n \in 1 .. Len(s) : f[n] = step[<<n, f[n - 1]>>]
    BY <1>5 DEF Iterates
  <2>2. \A n \in 1 .. Len(s) : f[n - 1] \in V
    BY SMTT(30), <1>1, <2>1
  <2> QED
    BY <1>4, <2>1, <2>2
<1>7. Equation(f)
  <2>1. \A n \in 0 .. Len(s) : n # 0 => n \in 1 .. Len(s)
    BY <1>1
  <2>2. \A n \in 0 .. Len(s) : n # 0 => f[n] = Step(f[n - 1], n)
    BY <1>6, <2>1
  <2> QED
    BY <1>6, <2>2 DEF Step
<1>8. Equation(kept)
  BY <1>7
<1>9. Among(s, T) = kept[Len(s)]
  BY DEF Among
<1> HIDE DEF kept
<1>10. kept[0] = <<>> /\ \A n \in 1 .. Len(s) : kept[n] = Step(kept[n - 1], n)
  <2>1. 0 \in 0 .. Len(s) /\ \A n \in 1 .. Len(s) : n \in 0 .. Len(s) /\ n # 0
    BY <1>1
  <2> QED
    BY <1>8, <2>1 DEF Step
<1> DEFINE Good(n) == /\ kept[n] \in V /\ IsInjective(kept[n])
                      /\ \A x : x \in ToSet(kept[n]) <=> x \in T /\ \E i \in 1 .. n : s[i] = x
                      /\ InOrder(kept[n], s)
           N == {n \in Nat : n <= Len(s) => Good(n)}
<1>11. Good(0)
  <2>1. Len(<<>>) = 0 /\ 1 .. 0 = {}
    OBVIOUS
  <2> QED
    BY <1>1, <1>10, <2>1 DEF IsInjective, ToSet, InOrder
<1>12. ASSUME NEW n \in Nat, n + 1 <= Len(s), Good(n) PROVE Good(n + 1)
  <2> DEFINE q == kept[n]
             e == s[n + 1]
  <2>1. n + 1 \in 1 .. Len(s) /\ (n + 1) - 1 = n /\ e \in S /\ \A i \in 1 .. n : i \in 1 .. Len(s)
    BY <1>1, <1>12
  <2>2. kept[n + 1] = Step(q, n + 1)
    BY <1>10, <2>1
  <2>3. \A x : (\E i \in 1 .. n + 1 : s[i] = x) <=> ((\E i \in 1 .. n : s[i] = x) \/ x = e)
    BY <1>12
  <2>4. /\ q \in V /\ IsInjective(q) /\ InOrder(q, s)
        /\ \A x : x \in ToSet(q) <=> x \in T /\ \E i \in 1 .. n : s[i] = x
    BY <1>12
  <2>5. \A i \in 1 .. n : s[i] # e
    BY <1>1, <2>1 DEF IsInjective
  <2> HIDE DEF q, e, Good
  <2>6. CASE e \in T
    <3>1. kept[n + 1] = Append(q, e)
      BY <2>2, <2>6 DEF Step, e
    <3>2. e \notin ToSet(q)
      BY <2>4, <2>5
    <3>3. Append(q, e) \in Seq(S) /\ IsInjective(Append(q, e)) /\ ToSet(Append(q, e)) = ToSet(q) \cup {e}
      BY <2>1, <2>4, <3>2, AppendSet
    <3>4. \A x : x \in ToSet(kept[n + 1]) <=> x \in T /\ \E i \in 1 .. n + 1 : s[i] = x
      BY <2>3, <2>4, <2>6, <3>1, <3>3
    <3>5. InOrder(Append(q, e), s)
      <4> DEFINE t == Append(q, e)
      <4>1. /\ Len(q) \in Nat /\ Len(t) = Len(q) + 1 /\ t[Len(q) + 1] = e
            /\ \A a \in 1 .. Len(q) : t[a] = q[a] /\ q[a] \in ToSet(q)
        BY <2>4, AppendParts, SeqParts
      <4> HIDE DEF t
      <4>2. \A i, j \in 1 .. Len(s) : s[i] = s[j] => i = j
        BY <1>1 DEF IsInjective
      <4>3. SUFFICES ASSUME NEW a \in 1 .. Len(t), NEW c \in 1 .. Len(t), NEW i \in 1 .. Len(s), NEW j \in 1 .. Len(s),
                            a < c, s[i] = t[a], s[j] = t[c]
                     PROVE  i < j
        BY DEF InOrder, t
      <4>4. a \in 1 .. Len(q)
        BY <4>1, <4>3
      <4>5. CASE c \in 1 .. Len(q)
        BY <2>4, <4>1, <4>3, <4>4, <4>5 DEF InOrder
      <4>6. CASE c = Len(q) + 1
        <5>1. j = n + 1
          BY <2>1, <4>1, <4>2, <4>3, <4>6 DEF e
        <5>2. PICK m \in 1 .. n : s[m] = q[a]
          BY <2>4, <4>1, <4>4
        <5>3. i = m
          BY <2>1, <4>1, <4>2, <4>3, <4>4, <5>2
        <5> QED
          BY <1>12, <5>1, <5>2, <5>3
      <4> QED
        BY <4>1, <4>3, <4>5, <4>6
    <3> QED
      BY <3>1, <3>3, <3>4, <3>5 DEF Good
  <2>7. CASE e \notin T
    <3>1. kept[n + 1] = q
      BY <2>2, <2>7 DEF Step, e
    <3>2. \A x : x \in ToSet(kept[n + 1]) <=> x \in T /\ \E i \in 1 .. n + 1 : s[i] = x
      BY <2>3, <2>4, <2>7, <3>1
    <3> QED
      BY <2>4, <3>1, <3>2 DEF Good
  <2> QED
    BY <2>6, <2>7
<1>13. N = Nat
  <2> HIDE DEF Good
  <2>1. N \in SUBSET Nat /\ 0 \in N
    BY <1>11
  <2>2. ASSUME NEW n \in N PROVE n + 1 \in N
    <3>1. n + 1 <= Len(s) => n <= Len(s)
      BY <1>1
    <3> QED
      BY <1>12, <3>1
  <2> HIDE DEF N
  <2> QED
    BY <2>1, <2>2, SetInduction
<1>14. Good(Len(s))
  <2> HIDE DEF Good
  <2>1. Len(s) \in N
    BY <1>1, <1>13
  <2> QED
    BY <1>1, <2>1
<1>15. \A x : x \in ToSet(s) <=> \E i \in 1 .. Len(s) : s[i] = x
  BY SeqParts
<1> QED
  BY <1>9, <1>14, <1>15

\* ... as the set.
LEMMA AmongParts ==
  ASSUME NEW S, NEW s \in Seq(S), IsInjective(s), NEW T
  PROVE  /\ Among(s, T) \in Seq(S) /\ IsInjective(Among(s, T))
         /\ ToSet(Among(s, T)) = ToSet(s) \cap T
BY AmongAll

\* The steps of a longer key are those of the shorter one, and one more.
LEMMA StepsOfKey ==
  ASSUME NEW k \in Seq(Nat), NEW i \in Nat
  PROVE  /\ Append(k, i) \in Seq(Nat) /\ Len(Append(k, i)) = Len(k) + 1 /\ Len(k) \in Nat
         /\ SubSeq(Append(k, i), 1, Len(k) + 1) = Append(k, i)
         /\ \A n \in 0 .. Len(k) : SubSeq(Append(k, i), 1, n) = SubSeq(k, 1, n)
         /\ SubSeq(k, 1, Len(k)) = k
         /\ Above(Append(k, i)) = k
         /\ Append(k, i) # <<>> /\ Append(k, i) # k
         /\ \A j \in Nat : Append(k, i) = Append(k, j) => i = j
<1> DEFINE l == Append(k, i)
<1>1. /\ l \in Seq(Nat) /\ Len(l) = Len(k) + 1 /\ Len(k) \in Nat /\ l[Len(k) + 1] = i
      /\ (\A n \in 1 .. Len(k) : l[n] = k[n]) /\ l # <<>> /\ l # k
  BY AppendParts, SeqParts
<1>2. \A j \in Nat : Append(k, i) = Append(k, j) => i = j
  BY AppendParts
<1> HIDE DEF l
<1>3. ASSUME NEW n \in 0 .. Len(k) PROVE SubSeq(l, 1, n) = SubSeq(k, 1, n)
  <2>1. n \in 0 .. Len(l)
    BY <1>1
  <2>2. /\ SubSeq(l, 1, n) \in Seq(Nat) /\ Len(SubSeq(l, 1, n)) = n
        /\ \A j \in 1 .. n : SubSeq(l, 1, n)[j] = l[j]
    <3>1. l \in Seq(Nat)
      BY <1>1
    <3> QED
      BY <2>1, <3>1, CutParts
  <2>3. /\ SubSeq(k, 1, n) \in Seq(Nat) /\ Len(SubSeq(k, 1, n)) = n
        /\ \A j \in 1 .. n : SubSeq(k, 1, n)[j] = k[j]
    BY CutParts
  <2>4. \A j \in 1 .. n : SubSeq(l, 1, n)[j] = SubSeq(k, 1, n)[j]
    BY <1>1, <2>2, <2>3
  <2> QED
    BY <2>2, <2>3, <2>4, SeqEqual
<1>4. \A m \in Seq(Nat) : SubSeq(m, 1, Len(m)) = m
  <2> SUFFICES ASSUME NEW m \in Seq(Nat) PROVE SubSeq(m, 1, Len(m)) = m
    OBVIOUS
  <2>1. Len(m) \in 0 .. Len(m)
    BY SeqParts
  <2>2. /\ SubSeq(m, 1, Len(m)) \in Seq(Nat) /\ Len(SubSeq(m, 1, Len(m))) = Len(m)
        /\ \A j \in 1 .. Len(m) : SubSeq(m, 1, Len(m))[j] = m[j]
    BY <2>1, CutParts
  <2> QED
    BY <2>2, SeqEqual
<1>5. Above(l) = k
  <2>1. Len(l) - 1 = Len(k) /\ Len(k) \in 0 .. Len(k)
    BY <1>1
  <2> QED
    BY <1>1, <1>3, <1>4, <2>1 DEF Above, Front
<1>6. SubSeq(l, 1, Len(k) + 1) = l
  BY <1>1, <1>4
<1> QED
  BY <1>1, <1>2, <1>3, <1>4, <1>5, <1>6 DEF l

\* A key that is not empty is the one above and a step.
LEMMA AboveParts ==
  ASSUME NEW k \in Seq(Nat), k # <<>>
  PROVE  Above(k) \in Seq(Nat) /\ Last(k) \in Nat /\ k = Append(Above(k), Last(k))
BY FrontParts DEF Above

\* Beginning alike.
LEMMA PrefixParts ==
  ASSUME NEW r \in Seq(Nat), NEW k \in Seq(Nat)
  PROVE  /\ IsPrefix(<<>>, k) /\ IsPrefix(k, k)
         /\ IsPrefix(r, <<>>) => r = <<>>
         /\ \A i \in Nat : IsPrefix(r, Append(k, i)) <=> IsPrefix(r, k) \/ r = Append(k, i)
         /\ \A i \in Nat : IsPrefix(r, k) => r # Append(k, i)
<1>1. Len(r) \in Nat /\ Len(k) \in Nat /\ (r = <<>> <=> Len(r) = 0) /\ SubSeq(r, 1, Len(r)) = r
  BY SeqParts, StepsOfKey
<1>1a. Len(r) \in Nat /\ Len(k) \in Nat
  BY <1>1
<1>2. IsPrefix(<<>>, k)
  <2>1. Len(<<>>) = 0 /\ 0 \in 0 .. Len(k) /\ <<>> \in Seq(Nat) /\ 0 \in 0 .. Len(<<>>)
    BY <1>1
  <2>2. SubSeq(k, 1, 0) \in Seq(Nat) /\ Len(SubSeq(k, 1, 0)) = 0
    BY <2>1, CutParts
  <2>3. SubSeq(<<>>, 1, 0) \in Seq(Nat) /\ Len(SubSeq(<<>>, 1, 0)) = 0
    BY <2>1, CutParts
  <2>4. SubSeq(k, 1, 0) = <<>> /\ SubSeq(<<>>, 1, 0) = <<>>
    BY <2>2, <2>3, SeqParts
  <2> QED
    BY <1>1, <2>1, <2>4 DEF IsPrefix
<1>3. IsPrefix(k, k)
  BY <1>1 DEF IsPrefix
<1>4. IsPrefix(r, <<>>) => r = <<>>
  <2>1. Len(<<>>) = 0
    OBVIOUS
  <2> QED
    BY <1>1, <2>1 DEF IsPrefix
<1>5. ASSUME NEW i \in Nat PROVE IsPrefix(r, Append(k, i)) <=> IsPrefix(r, k) \/ r = Append(k, i)
  <2> DEFINE l == Append(k, i)
  <2>1. l \in Seq(Nat) /\ Len(l) = Len(k) + 1 /\ SubSeq(l, 1, Len(k) + 1) = l
        /\ \A n \in 0 .. Len(k) : SubSeq(l, 1, n) = SubSeq(k, 1, n)
    BY StepsOfKey
  <2> HIDE DEF l
  <2>2. ASSUME Len(r) <= Len(k) PROVE IsPrefix(r, l) <=> IsPrefix(r, k) \/ r = l
    <3>1. Len(r) \in 0 .. Len(k) /\ Len(r) <= Len(l) /\ r # l
      BY <1>1, <2>1, <2>2
    <3>2. SubSeq(l, 1, Len(r)) = SubSeq(k, 1, Len(r))
      BY <2>1, <3>1
    <3> QED
      BY <2>2, <3>1, <3>2 DEF IsPrefix
  <2>3. ASSUME Len(r) = Len(k) + 1 PROVE IsPrefix(r, l) <=> IsPrefix(r, k) \/ r = l
    <3>1. ~IsPrefix(r, k)
      BY <1>1, <2>3 DEF IsPrefix
    <3>2. SubSeq(l, 1, Len(r)) = l /\ Len(r) <= Len(l)
      BY <1>1, <2>1, <2>3
    <3> QED
      BY <1>1, <3>1, <3>2 DEF IsPrefix
  <2>4. ASSUME Len(r) > Len(k) + 1 PROVE IsPrefix(r, l) <=> IsPrefix(r, k) \/ r = l
    <3>1. ~(Len(r) <= Len(k)) /\ ~(Len(r) <= Len(l)) /\ r # l
      BY <1>1, <2>1, <2>4
    <3> QED
      BY <3>1 DEF IsPrefix
  <2>5. Len(r) <= Len(k) \/ Len(r) = Len(k) + 1 \/ Len(r) > Len(k) + 1
    BY <1>1a
  <2>6. IsPrefix(r, l) <=> IsPrefix(r, k) \/ r = l
    BY <2>2, <2>3, <2>4, <2>5
  <2> QED
    BY <2>6 DEF l
<1>6. ASSUME NEW i \in Nat, IsPrefix(r, k) PROVE r # Append(k, i)
  <2>1. Len(r) <= Len(k) /\ Len(Append(k, i)) = Len(k) + 1
    BY <1>6, StepsOfKey DEF IsPrefix
  <2>2. Len(r) # Len(Append(k, i))
    BY <1>1a, <2>1
  <2> QED
    BY <2>2
<1> QED
  BY <1>2, <1>3, <1>4, <1>5, <1>6

-----------------------------------------------------------------------------
(* What the map shows.                                                     *)

\* One step down from k, the steps growing.
StepsGrow(q, k) ==
  \A a, c \in 1 .. Len(q) : \A i, j \in Nat : a < c /\ q[a] = Append(k, i) /\ q[c] = Append(k, j) => i < j

\* Below a key: those of the steps down that are shown, in order.
LEMMA BelowAll ==
  ASSUME NEW b, IsTree(b), NEW f, NEW log, NEW k \in Seq(Nat), ThingAt(b, k) # Nothing
  PROVE  /\ Below(b, f, log, k) \in Seq(Seq(Nat)) /\ IsInjective(Below(b, f, log, k))
         /\ \A c : c \in ToSet(Below(b, f, log, k))
              <=> \E i \in Nat : /\ c = Append(k, i) /\ ThingAt(b, c) # Nothing
                                 /\ Emits(b, f, log, ThingAt(b, k), k, ThingAt(b, c))
         /\ StepsGrow(Below(b, f, log, k), k)
<1> DEFINE x == ThingAt(b, k)
           all == DOMAIN b.kids[x]
           s == [i \in all |-> Append(k, i)]
           T == {Append(k, i) : i \in {j \in all : Emits(b, f, log, x, k, b.kids[x][j])}}
<1>1. x \in Thing
  BY ThingAtSteps
<1>2. \E n \in Nat : all = 1 .. n
  <2>1. b.kids[x] \in Seq(Section \cup Item)
    BY <1>1, RowParts
  <2> QED
    BY <2>1, SeqParts
<1>3. PICK n \in Nat : all = 1 .. n
  BY <1>2
<1>4. \A i \in Nat : ThingAt(b, Append(k, i)) = StepTo(b, x, i)
  BY ThingAtSteps
<1>5. \A i \in Nat : /\ i \in all => ThingAt(b, Append(k, i)) = b.kids[x][i] /\ b.kids[x][i] # Nothing
                     /\ i \notin all => ThingAt(b, Append(k, i)) = Nothing
  <2>1. \A i \in all : b.kids[x][i] # Nothing
    <3>1. \A i \in all : b.kids[x][i] \in Kids(b, x)
      BY <1>1, TreeParts
    <3> QED
      BY <1>1, <3>1, OnBoardParts
  <2> QED
    BY <1>4, <2>1 DEF StepTo
<1> HIDE DEF x, all
<1>6. \A i \in all : i \in Nat /\ Append(k, i) \in Seq(Nat)
  BY <1>3, StepsOfKey
<1>7. s \in Seq(Seq(Nat)) /\ IsInjective(s)
  <2>1. \A i, j \in all : Append(k, i) = Append(k, j) => i = j
    BY <1>6, StepsOfKey
  <2>2. IsInjective(s)
    BY <2>1 DEF IsInjective
  <2>3. s \in [1 .. n -> Seq(Nat)]
    BY <1>3, <1>6
  <2> QED
    BY <2>2, <2>3, SeqDef
<1>8. \A c : c \in ToSet(s) <=> \E i \in all : c = Append(k, i)
  BY DEF ToSet
<1>9. Len(s) = n /\ \A i \in 1 .. Len(s) : s[i] = Append(k, i) /\ i \in all
  BY <1>3, <1>7, SeqParts
<1> HIDE DEF s
<1>10. \A c : c \in T <=> \E i \in all : c = Append(k, i) /\ Emits(b, f, log, x, k, b.kids[x][i])
  BY Zenon
<1> HIDE DEF T
<1>11. Below(b, f, log, k) = Among(s, T)
  BY Zenon DEF Below, x, all, s, T
<1>12. Among(s, T) \in Seq(Seq(Nat)) /\ IsInjective(Among(s, T)) /\ ToSet(Among(s, T)) = ToSet(s) \cap T
      /\ InOrder(Among(s, T), s)
  BY <1>7, AmongAll
<1>13. \A c : c \in ToSet(Among(s, T))
              <=> \E i \in all : c = Append(k, i) /\ Emits(b, f, log, x, k, b.kids[x][i])
  BY <1>8, <1>10, <1>12
<1>14. \A c : (\E i \in all : c = Append(k, i) /\ Emits(b, f, log, x, k, b.kids[x][i]))
              <=> \E i \in Nat : /\ c = Append(k, i) /\ ThingAt(b, c) # Nothing
                                 /\ Emits(b, f, log, x, k, ThingAt(b, c))
  BY <1>5, <1>6
<1>15. StepsGrow(Among(s, T), k)
  <2> DEFINE q == Among(s, T)
  <2>1. q \in Seq(Seq(Nat)) /\ InOrder(q, s) /\ ToSet(q) = ToSet(s) \cap T
    BY <1>12
  <2> HIDE DEF q
  <2>2. SUFFICES ASSUME NEW a \in 1 .. Len(q), NEW c \in 1 .. Len(q), NEW i \in Nat, NEW j \in Nat,
                        a < c, q[a] = Append(k, i), q[c] = Append(k, j)
                 PROVE  i < j
    BY DEF StepsGrow, q
  <2>3. q[a] \in ToSet(s) /\ q[c] \in ToSet(s)
    BY <2>1, SeqParts
  <2>4. PICK m \in all, l \in all : q[a] = Append(k, m) /\ q[c] = Append(k, l)
    BY <1>8, <2>3
  <2>5. m = i /\ l = j
    <3>1. m \in Nat /\ l \in Nat /\ Append(k, m) = Append(k, i) /\ Append(k, l) = Append(k, j)
      BY <1>6, <2>2, <2>4
    <3>2. \A u, v \in Nat : Append(k, u) = Append(k, v) => u = v
      BY StepsOfKey
    <3> QED
      BY <3>1, <3>2
  <2>6. i \in 1 .. Len(s) /\ j \in 1 .. Len(s) /\ s[i] = q[a] /\ s[j] = q[c]
    BY <1>3, <1>9, <2>4, <2>5
  <2> QED
    BY <2>1, <2>2, <2>6 DEF InOrder
<1> QED
  BY <1>11, <1>12, <1>13, <1>14, <1>15 DEF x

\* ... as the set.
LEMMA BelowParts ==
  ASSUME NEW b, IsTree(b), NEW f, NEW log, NEW k \in Seq(Nat), ThingAt(b, k) # Nothing
  PROVE  /\ Below(b, f, log, k) \in Seq(Seq(Nat)) /\ IsInjective(Below(b, f, log, k))
         /\ \A c : c \in ToSet(Below(b, f, log, k))
              <=> \E i \in Nat : /\ c = Append(k, i) /\ ThingAt(b, c) # Nothing
                                 /\ Emits(b, f, log, ThingAt(b, k), k, ThingAt(b, c))
BY BelowAll

\* A key is shown when nothing on the way to it hides the next step.
LEMMA ShownSteps ==
  ASSUME NEW b, IsTree(b), NEW f, NEW log
  PROVE  /\ \A k \in Shown(b, f, log) : k \in Seq(Nat) /\ ThingAt(b, k) # Nothing
         /\ <<>> \in Shown(b, f, log)
         /\ \A k \in Seq(Nat), i \in Nat :
              Append(k, i) \in Shown(b, f, log)
                <=> /\ k \in Shown(b, f, log) /\ ThingAt(b, Append(k, i)) # Nothing
                    /\ Emits(b, f, log, ThingAt(b, k), k, ThingAt(b, Append(k, i)))
         /\ IsFiniteSet(Shown(b, f, log))
<1> DEFINE Passes(k, n) == Emits(b, f, log, ThingAt(b, SubSeq(k, 1, n - 1)), SubSeq(k, 1, n - 1), ThingAt(b, SubSeq(k, 1, n)))
           K == {KeyOf(b, x) : x \in OnBoard(b)}
<1>1. K = {k \in Seq(Nat) : ThingAt(b, k) # Nothing}
  BY KeysLead
<1>2. Shown(b, f, log) = {k \in K : \A n \in 1 .. Len(k) : Passes(k, n)}
  BY Zenon DEF Shown
<1>3. IsFiniteSet(K)
  <2>1. IsFiniteSet(OnBoard(b))
    BY TreeIs
  <2> DEFINE g == [x \in OnBoard(b) |-> KeyOf(b, x)]
  <2>2. g \in Surjection(OnBoard(b), K)
    BY DEF Surjection
  <2> QED
    BY <2>1, <2>2, FS_Surjection
<1> HIDE DEF K, Passes
<1>4. \A k : k \in Shown(b, f, log) <=> k \in Seq(Nat) /\ ThingAt(b, k) # Nothing /\ \A n \in 1 .. Len(k) : Passes(k, n)
  BY <1>1, <1>2
<1>5. <<>> \in Shown(b, f, log)
  <2>1. <<>> \in Seq(Nat) /\ 1 .. Len(<<>>) = {}
    OBVIOUS
  <2>2. ThingAt(b, <<>>) # Nothing
    BY ThingAtSteps, OnBoardParts
  <2> QED
    BY <1>4, <2>1, <2>2
<1>6. ASSUME NEW k \in Seq(Nat), NEW i \in Nat
      PROVE  Append(k, i) \in Shown(b, f, log)
                <=> /\ k \in Shown(b, f, log) /\ ThingAt(b, Append(k, i)) # Nothing
                    /\ Emits(b, f, log, ThingAt(b, k), k, ThingAt(b, Append(k, i)))
  <2> DEFINE l == Append(k, i)
  <2>1. /\ l \in Seq(Nat) /\ Len(l) = Len(k) + 1 /\ Len(k) \in Nat /\ SubSeq(l, 1, Len(k) + 1) = l
        /\ (\A n \in 0 .. Len(k) : SubSeq(l, 1, n) = SubSeq(k, 1, n)) /\ SubSeq(k, 1, Len(k)) = k
    BY StepsOfKey
  <2>2. ThingAt(b, l) # Nothing => ThingAt(b, k) # Nothing
    BY ThingAtSteps DEF StepTo
  <2> HIDE DEF l
  <2>3. \A n \in 1 .. Len(k) : Passes(l, n) <=> Passes(k, n)
    <3>1. ASSUME NEW n \in 1 .. Len(k) PROVE SubSeq(l, 1, n) = SubSeq(k, 1, n) /\ SubSeq(l, 1, n - 1) = SubSeq(k, 1, n - 1)
      <4>1. n \in 0 .. Len(k) /\ n - 1 \in 0 .. Len(k)
        BY <2>1
      <4> QED
        BY <2>1, <4>1
    <3> QED
      BY <3>1 DEF Passes
  <2>4. Passes(l, Len(k) + 1) <=> Emits(b, f, log, ThingAt(b, k), k, ThingAt(b, l))
    <3>1. (Len(k) + 1) - 1 = Len(k) /\ Len(k) \in 0 .. Len(k)
      BY <2>1
    <3>2. SubSeq(l, 1, (Len(k) + 1) - 1) = k /\ SubSeq(l, 1, Len(k) + 1) = l
      BY <2>1, <3>1
    <3> QED
      BY <3>2 DEF Passes
  <2>5. (\A n \in 1 .. Len(l) : Passes(l, n)) <=> ((\A n \in 1 .. Len(k) : Passes(l, n)) /\ Passes(l, Len(k) + 1))
    <3>1. \A n : n \in 1 .. Len(l) <=> n \in 1 .. Len(k) \/ n = Len(k) + 1
      <4>1. Len(k) \in Nat /\ Len(l) = Len(k) + 1
        BY <2>1
      <4> QED
        BY <4>1
    <3> QED
      BY <3>1
  <2>6. l \in Shown(b, f, log) <=> /\ k \in Shown(b, f, log) /\ ThingAt(b, l) # Nothing
                                   /\ Emits(b, f, log, ThingAt(b, k), k, ThingAt(b, l))
    BY <1>4, <2>1, <2>2, <2>3, <2>4, <2>5
  <2> QED
    BY <2>6 DEF l
<1>7. IsFiniteSet(Shown(b, f, log))
  <2>1. Shown(b, f, log) \subseteq K
    BY <1>2
  <2> QED
    BY <1>3, <2>1, FS_Subset
<1> QED
  BY <1>4, <1>5, <1>6, <1>7

\* What is shown below a key is what is shown and has the key above it.
LEMMA ShownBelow ==
  ASSUME NEW b, IsTree(b), NEW f, NEW log, NEW k \in Shown(b, f, log)
  PROVE  /\ Below(b, f, log, k) \in Seq(Seq(Nat)) /\ IsInjective(Below(b, f, log, k))
         /\ \A c : c \in ToSet(Below(b, f, log, k)) <=> c \in Shown(b, f, log) /\ c # <<>> /\ Above(c) = k
<1>1. k \in Seq(Nat) /\ ThingAt(b, k) # Nothing
  BY ShownSteps
<1>2. ASSUME NEW c PROVE c \in ToSet(Below(b, f, log, k)) <=> c \in Shown(b, f, log) /\ c # <<>> /\ Above(c) = k
  <2>1. c \in ToSet(Below(b, f, log, k))
              <=> \E i \in Nat : /\ c = Append(k, i) /\ ThingAt(b, c) # Nothing
                                 /\ Emits(b, f, log, ThingAt(b, k), k, ThingAt(b, c))
    BY <1>1, BelowParts
  <2>2. c \in ToSet(Below(b, f, log, k)) => c \in Shown(b, f, log) /\ c # <<>> /\ Above(c) = k
    <3>1. SUFFICES ASSUME NEW i \in Nat, c = Append(k, i), ThingAt(b, c) # Nothing,
                           Emits(b, f, log, ThingAt(b, k), k, ThingAt(b, c))
                   PROVE  c \in Shown(b, f, log) /\ c # <<>> /\ Above(c) = k
      BY <2>1
    <3>2. c # <<>> /\ Above(c) = k
      BY <1>1, <3>1, StepsOfKey
    <3>3. Append(k, i) \in Shown(b, f, log)
      BY <1>1, <3>1, ShownSteps
    <3> QED
      BY <3>1, <3>2, <3>3
  <2>3. ASSUME c \in Shown(b, f, log), c # <<>>, Above(c) = k PROVE c \in ToSet(Below(b, f, log, k))
    <3>1. c \in Seq(Nat)
      BY <2>3, ShownSteps
    <3>2. Last(c) \in Nat /\ c = Append(k, Last(c))
      BY <2>3, <3>1, AboveParts
    <3>3. ThingAt(b, c) # Nothing /\ Emits(b, f, log, ThingAt(b, k), k, ThingAt(b, c))
      <4> DEFINE i == Last(c)
      <4>1. i \in Nat /\ c = Append(k, i) /\ Append(k, i) \in Shown(b, f, log)
        BY <2>3, <3>2
      <4> HIDE DEF i
      <4>2. ThingAt(b, Append(k, i)) # Nothing /\ Emits(b, f, log, ThingAt(b, k), k, ThingAt(b, Append(k, i)))
        BY <1>1, <4>1, ShownSteps
      <4> QED
        BY <4>1, <4>2
    <3> QED
      BY <2>1, <3>2, <3>3
  <2> QED
    BY <2>2, <2>3
<1> QED
  BY <1>1, <1>2, BelowParts

\* What the map shows, with the children shown below each.
Rows(b, f, log) == [k \in Shown(b, f, log) |-> Below(b, f, log, k)]

\* The part of it below a root, each on the side of what it hangs from.
Hung(S, kids, root, side) ==
  /\ DOMAIN side = {k \in S : IsPrefix(root, k)} /\ IsFiniteSet(DOMAIN side)
  /\ root \in DOMAIN side /\ side[root] = 0
  /\ \A k \in DOMAIN side \ {root} :
       /\ side[k] \in {-1, 1} /\ k # <<>> /\ Above(k) \in DOMAIN side
       /\ k \in ToSet(kids[Above(k)])
       /\ Above(k) # root => side[Above(k)] = side[k]
  /\ \A k \in DOMAIN side : \A c \in ToSet(kids[k]) : c \in DOMAIN side \ {root} /\ Above(c) = k
  /\ \A k \in S : kids[k] \in Seq(Seq(Nat)) /\ IsInjective(kids[k])

\* What SideOf draws hangs together.
LEMMA SideParts ==
  ASSUME NEW b, IsTree(b), NEW f, NEW log, NEW root \in Shown(b, f, log)
  PROVE  Hung(Shown(b, f, log), Rows(b, f, log), root, SideOf(Rows(b, f, log), root))
<1> DEFINE kids == Rows(b, f, log)
           side == SideOf(kids, root)
<1> DEFINE S == Shown(b, f, log)
           D == {k \in S : IsPrefix(root, k)}
           right == Sides(kids, kids[root])
           first(k) == SubSeq(k, 1, Len(root) + 1)
<1> HIDE DEF kids
<1>1. S = DOMAIN kids /\ \A k \in S : kids[k] = Below(b, f, log, k)
  BY DEF kids, Rows
<1>2. side = [k \in D |-> IF k = root THEN 0 ELSE IF first(k) \in right THEN 1 ELSE -1]
  BY <1>1 DEF SideOf
<1> HIDE DEF side
<1>3. \A k \in S : k \in Seq(Nat)
  BY ShownSteps
<1>4. root \in D /\ DOMAIN side = D /\ side[root] = 0
  BY <1>2, <1>3, PrefixParts
<1>5. IsFiniteSet(D)
  <2>1. IsFiniteSet(S) /\ D \subseteq S
    BY ShownSteps
  <2> HIDE DEF D, S
  <2> QED
    BY <2>1, FS_Subset
<1>6. ASSUME NEW k \in D \ {root}
      PROVE  /\ k # <<>> /\ Above(k) \in D /\ k \in ToSet(kids[Above(k)])
             /\ Above(k) # root => first(Above(k)) = first(k)
  <2>1. root \in Seq(Nat) /\ k \in Seq(Nat) /\ k # <<>>
    BY <1>3, PrefixParts
  <2>2. PICK l \in Seq(Nat) : l = Above(k)
    BY <2>1, AboveParts
  <2>3. PICK i \in Nat : k = Append(l, i)
    BY <2>1, <2>2, AboveParts
  <2>4. l \in S
    BY <2>3, ShownSteps
  <2>5. IsPrefix(root, l)
    BY <2>1, <2>3, PrefixParts
  <2>6. k \in ToSet(kids[l])
    BY <1>1, <2>1, <2>2, <2>4, ShownBelow
  <2>7. l # root => first(l) = first(k)
    <3> SUFFICES ASSUME l # root PROVE first(l) = first(k)
      OBVIOUS
    <3>1. l # <<>>
      BY <2>1, <2>5, PrefixParts
    <3>2. PICK m \in Seq(Nat) : m = Above(l)
      BY <3>1, AboveParts
    <3>3. PICK j \in Nat : l = Append(m, j)
      BY <3>1, <3>2, AboveParts
    <3>4. IsPrefix(root, m)
      BY <2>1, <2>5, <3>3, PrefixParts
    <3>5. Len(root) <= Len(m) /\ Len(l) = Len(m) + 1 /\ Len(m) \in Nat /\ Len(root) \in Nat
      BY <2>1, <3>3, <3>4, StepsOfKey, SeqParts DEF IsPrefix
    <3>6. Len(root) + 1 \in 0 .. Len(l)
      BY <3>5
    <3> QED
      BY <2>3, <3>6, StepsOfKey
  <2> QED
    BY <2>1, <2>2, <2>4, <2>5, <2>6, <2>7
<1>7. ASSUME NEW k \in D, NEW c \in ToSet(kids[k]) PROVE c \in D \ {root} /\ Above(c) = k
  <2>1. c \in S /\ c # <<>> /\ Above(c) = k
    BY <1>1, ShownBelow
  <2>2. k \in Seq(Nat) /\ root \in Seq(Nat)
    BY <1>3
  <2>3. PICK i \in Nat : c = Append(k, i)
    BY <1>3, <2>1, AboveParts
  <2> QED
    BY <2>1, <2>2, <2>3, PrefixParts
<1>8. \A k \in S : kids[k] \in Seq(Seq(Nat)) /\ IsInjective(kids[k])
  BY <1>1, ShownBelow
<1>9. \A k \in D \ {root} : side[k] \in {-1, 1} /\ (Above(k) # root => side[Above(k)] = side[k])
  <2> SUFFICES ASSUME NEW k \in D \ {root} PROVE side[k] \in {-1, 1} /\ (Above(k) # root => side[Above(k)] = side[k])
    OBVIOUS
  <2>1. Above(k) \in D /\ (Above(k) # root => first(Above(k)) = first(k))
    BY <1>6
  <2> HIDE DEF first, right, D
  <2> QED
    BY <1>2, <2>1
<1> HIDE DEF D
<1>10. \A k \in DOMAIN side : \A c \in ToSet(kids[k]) : c \in DOMAIN side \ {root} /\ Above(c) = k
  BY <1>4, <1>7
<1>11. \A k \in DOMAIN side \ {root} :
              /\ side[k] \in {-1, 1} /\ k # <<>> /\ Above(k) \in DOMAIN side
              /\ k \in ToSet(kids[Above(k)])
              /\ Above(k) # root => side[Above(k)] = side[k]
  BY <1>4, <1>6, <1>9
<1>12. Hung(S, kids, root, side)
  BY <1>4, <1>5, <1>8, <1>10, <1>11 DEF D, Hung
<1> QED
  BY <1>12 DEF kids, side

-----------------------------------------------------------------------------
(* The map, built.                                                         *)

Zooms == [key : Seq(Nat), id : Thing \cup {Nothing}]

\* A map that is true to its board, with its focus and its root in the picture.
Picture(b, f, log, v) ==
  /\ v.kids = Rows(b, f, log)
  /\ v.zoom.key \in Shown(b, f, log)
  /\ v.side = SideOf(v.kids, v.zoom.key)
  /\ v.focus \in DOMAIN v.side
  /\ Rekeyed(b, v.zoom) = v.zoom

\* Where the zoom is looked for, it is found again.
LEMMA RekeyedOnce ==
  ASSUME NEW b, IsTree(b), NEW zoom \in Zooms
  PROVE  /\ Rekeyed(b, zoom) \in Zooms /\ Rekeyed(b, Rekeyed(b, zoom)) = Rekeyed(b, zoom)
         /\ Whole \in Zooms /\ Rekeyed(b, Whole) = Whole
<1>1. Whole \in Zooms /\ Rekeyed(b, Whole) = Whole
  BY DEF Whole, Zooms, Rekeyed
<1>2. CASE zoom.id = Nothing
  BY <1>1, <1>2 DEF Rekeyed
<1>3. CASE zoom.id # Nothing /\ zoom.id \in OnBoard(b)
  <2>1. KeyOf(b, zoom.id) \in Seq(Nat)
    BY <1>3, KeyOfPlace
  <2> DEFINE z == [zoom EXCEPT !.key = KeyOf(b, zoom.id)]
  <2>2. z \in Zooms /\ z.id = zoom.id /\ [z EXCEPT !.key = KeyOf(b, zoom.id)] = z
    BY <2>1 DEF Zooms
  <2>3. Rekeyed(b, zoom) = z
    BY <1>3 DEF Rekeyed
  <2> HIDE DEF z
  <2>4. Rekeyed(b, z) = z
    BY <1>3, <2>2 DEF Rekeyed
  <2> QED
    BY <1>1, <2>2, <2>3, <2>4
<1>4. CASE zoom.id # Nothing /\ zoom.id \notin OnBoard(b)
  BY <1>1, <1>4 DEF Rekeyed
<1> QED
  BY <1>2, <1>3, <1>4

\* What ensureMap builds is true to the board it is built from, whatever it is
\* asked to focus on and wherever the zoom was.
LEMMA BuiltParts ==
  ASSUME NEW b, IsTree(b), NEW f, NEW log, NEW wrapped, NEW focus, NEW zoom \in Zooms,
         NEW v, v = Built(b, f, log, wrapped, focus, zoom)
  PROVE  /\ Picture(b, f, log, v) /\ v.zoom \in Zooms /\ "focus" \in DOMAIN v
         /\ v.zoom = IF Rekeyed(b, zoom).key \in Shown(b, f, log) THEN Rekeyed(b, zoom) ELSE Whole
         /\ v.focus = IF focus \in DOMAIN v.side THEN focus ELSE v.zoom.key
<1> DEFINE S == Shown(b, f, log)
           kids == [k \in S |-> Below(b, f, log, k)]
           z == IF Rekeyed(b, zoom).key \in S THEN Rekeyed(b, zoom) ELSE Whole
           side == SideOf(kids, z.key)
           l == Layout(b, kids, z.key, side, wrapped)
<1>1. v = [focus |-> IF focus \in DOMAIN side THEN focus ELSE z.key,
           zoom |-> z, kids |-> kids, side |-> side, row |-> l.row, own |-> l.own]
  BY Zenon DEF Built
<1> HIDE DEF l
<1>2. z.key \in S /\ z \in Zooms /\ Rekeyed(b, z) = z
  <2>1. Whole.key \in S
    BY ShownSteps DEF Whole
  <2> QED
    BY <2>1, RekeyedOnce
<1>3. kids = Rows(b, f, log)
  BY DEF Rows
<1> HIDE DEF z, kids
<1>4. z.key \in DOMAIN side
  <2>1. Hung(S, kids, z.key, side)
    BY <1>2, <1>3, SideParts
  <2> QED
    BY <2>1 DEF Hung
<1> HIDE DEF side
<1>5. /\ v.kids = kids /\ v.zoom = z /\ v.side = side /\ "focus" \in DOMAIN v
      /\ v.focus = IF focus \in DOMAIN side THEN focus ELSE z.key
  BY <1>1
<1> HIDE <1>1
<1>6. Picture(b, f, log, v)
  BY <1>2, <1>3, <1>4, <1>5 DEF Picture, side
<1> QED
  BY <1>2, <1>5, <1>6 DEF z

-----------------------------------------------------------------------------
(* Walking the picture.                                                    *)

\* The map is shown and true to its board.
InPicture == IsTree(board) /\ Picture(board, fold, showLog, view)
\* The keys in the picture.
Drawn == DOMAIN view.side

\* The map that is shown.
LEMMA PictureParts ==
  ASSUME InPicture
  PROVE  /\ Hung(Shown(board, fold, showLog), view.kids, Root, view.side)
         /\ DOMAIN view.kids = Shown(board, fold, showLog)
         /\ Drawn \subseteq DOMAIN view.kids /\ Root \in Drawn /\ view.focus \in Drawn /\ IsFiniteSet(Drawn)
         /\ \A k \in DOMAIN view.kids : k \in Seq(Nat) /\ ThingAt(board, k) \in OnBoard(board)
                                        /\ ThingAt(board, k) # Nothing
<1>1. /\ IsTree(board) /\ view.kids = Rows(board, fold, showLog) /\ Root \in Shown(board, fold, showLog)
      /\ view.side = SideOf(view.kids, Root) /\ view.focus \in Drawn
  BY DEF InPicture, Picture, Root, Drawn
<1>2. Hung(Shown(board, fold, showLog), view.kids, Root, view.side)
  BY <1>1, SideParts
<1>3. DOMAIN view.kids = Shown(board, fold, showLog)
  BY <1>1 DEF Rows
<1>4. \A k \in Shown(board, fold, showLog) : k \in Seq(Nat) /\ ThingAt(board, k) # Nothing
  BY <1>1, ShownSteps
<1>5. \A k \in Shown(board, fold, showLog) : ThingAt(board, k) \in OnBoard(board)
  BY <1>1, <1>4, ThingAtOnBoard
<1>6. Drawn \subseteq DOMAIN view.kids /\ Root \in Drawn /\ IsFiniteSet(Drawn)
  BY <1>2, <1>3 DEF Hung, Drawn
<1> QED
  BY <1>1, <1>2, <1>3, <1>4, <1>5, <1>6

\* Where something is in a row.
LEMMA PlaceParts ==
  ASSUME NEW S, NEW s \in Seq(S), NEW x \in ToSet(s)
  PROVE  Place(s, x) \in 1 .. Len(s) /\ s[Place(s, x)] = x /\ DOMAIN s = 1 .. Len(s) /\ Len(s) \in Nat
<1>1. DOMAIN s = 1 .. Len(s) /\ Len(s) \in Nat /\ \E i \in 1 .. Len(s) : s[i] = x
  BY SeqParts
<1> QED
  BY <1>1 DEF Place

\* The siblings in the picture: the children of one thing on one side.
LEMMA SiblingParts ==
  ASSUME InPicture, NEW k \in Drawn
  PROVE  /\ Siblings(k) \in Seq(Seq(Nat)) /\ IsInjective(Siblings(k))
         /\ k \in ToSet(Siblings(k)) /\ ToSet(Siblings(k)) \subseteq Drawn
         /\ k # Root => /\ Siblings(k) = Among(view.kids[Above(k)], {c \in Drawn : view.side[c] = view.side[k]})
                        /\ ToSet(Siblings(k)) = {c \in ToSet(view.kids[Above(k)]) : c \in Drawn /\ view.side[c] = view.side[k]}
<1>1. Hung(Shown(board, fold, showLog), view.kids, Root, view.side) /\ k \in Seq(Nat)
      /\ Drawn \subseteq Shown(board, fold, showLog)
  BY PictureParts
<1>2. CASE k = Root
  <2> DEFINE t == <<k>>
  <2>1. Siblings(k) = t
    BY <1>2 DEF Siblings
  <2>2. t \in Seq(Seq(Nat)) /\ IsInjective(t) /\ ToSet(t) = {k}
    BY <1>1, OneSet
  <2> HIDE DEF t
  <2> QED
    BY <1>2, <2>1, <2>2
<1>3. CASE k # Root
  <2> DEFINE s == view.kids[Above(k)]
             T == {c \in Drawn : view.side[c] = view.side[k]}
  <2>1. Above(k) \in Drawn /\ k \in ToSet(s)
    BY <1>1, <1>3 DEF Hung, Drawn
  <2>2. s \in Seq(Seq(Nat)) /\ IsInjective(s)
    BY <1>1, <2>1 DEF Hung
  <2>3. Siblings(k) = Among(s, T)
    BY <1>3, Zenon DEF Siblings, Drawn
  <2>4. k \in T /\ T \subseteq Drawn
    OBVIOUS
  <2>5. \A c : c \in ToSet(s) \cap T <=> c \in {u \in ToSet(s) : u \in Drawn /\ view.side[u] = view.side[k]}
    OBVIOUS
  <2> HIDE DEF s, T
  <2>6. Among(s, T) \in Seq(Seq(Nat)) /\ IsInjective(Among(s, T)) /\ ToSet(Among(s, T)) = ToSet(s) \cap T
    BY <2>2, AmongParts
  <2>7. ToSet(Siblings(k)) = {u \in ToSet(s) : u \in Drawn /\ view.side[u] = view.side[k]}
    BY <2>3, <2>5, <2>6
  <2>8. k \in ToSet(Siblings(k)) /\ ToSet(Siblings(k)) \subseteq Drawn
    BY <2>1, <2>3, <2>4, <2>6
  <2> QED
    BY <1>3, <2>3, <2>6, <2>7, <2>8 DEF s, T
<1> QED
  BY <1>2, <1>3

\* The next one, either way, if there is one.
LEMMA NextParts ==
  ASSUME InPicture, NEW k \in Drawn, NEW d \in {-1, 1}
  PROVE  /\ NextSibling(k, d) \in Drawn
         /\ \A i \in 1 .. Len(Siblings(k)) : Siblings(k)[i] = k /\ i + d \in 1 .. Len(Siblings(k))
              => NextSibling(k, d) = Siblings(k)[i + d]
<1> DEFINE s == Siblings(k)
           at == Place(s, k)
<1>1. s \in Seq(Seq(Nat)) /\ IsInjective(s) /\ k \in ToSet(s) /\ ToSet(s) \subseteq Drawn
  BY SiblingParts
<1>2. NextSibling(k, d) = IF at + d \in DOMAIN s THEN s[at + d] ELSE k
  BY DEF NextSibling
<1> HIDE DEF s
<1>3. at \in 1 .. Len(s) /\ s[at] = k /\ DOMAIN s = 1 .. Len(s) /\ Len(s) \in Nat
  BY <1>1, PlaceParts
<1> HIDE DEF at
<1>4. \A i \in DOMAIN s : s[i] \in Drawn
  BY <1>1 DEF ToSet
<1>5. \A i \in DOMAIN s : s[i] = k => i = at
  BY <1>1, <1>3 DEF IsInjective
<1> QED
  BY <1>2, <1>3, <1>4, <1>5 DEF s

\* Into a branch: a child on that side, the one remembered or the first.
LEMMA EnteredParts ==
  ASSUME InPicture, NEW k \in Drawn, NEW d \in {-1, 1}, view.side[k] \in {0, d}, Enters(k, d)
  PROVE  Entered(k, d) \in ToSet(view.kids[k]) /\ Entered(k, d) \in Drawn /\ view.side[Entered(k, d)] = d
<1> DEFINE s == view.kids[k]
           T == {c \in Drawn : view.side[c] = d}
           h == Head(Among(s, T))
<1>1. Hung(Shown(board, fold, showLog), view.kids, Root, view.side)
      /\ Drawn \subseteq Shown(board, fold, showLog)
  BY PictureParts
<1>2. s \in Seq(Seq(Nat)) /\ IsInjective(s)
  BY <1>1 DEF Hung
<1>3. \A c \in ToSet(s) : c \in Drawn
  BY <1>1 DEF Hung, Drawn
<1>4. \E c \in ToSet(s) : view.side[c] = d
  <2>1. CASE k = Root
    BY <2>1 DEF Enters
  <2>2. CASE k # Root
    <3>0. view.side[k] \in {-1, 1}
      BY <1>1, <2>2 DEF Hung, Drawn
    <3>1. view.side[k] = d
      BY <3>0
    <3>2. s # <<>>
      BY DEF Enters
    <3> HIDE DEF s
    <3>3. Len(s) # 0 /\ Len(s) \in Nat /\ \A i \in 1 .. Len(s) : s[i] \in ToSet(s)
      BY <1>2, <3>2, SeqParts
    <3>4. s[1] \in ToSet(s)
      BY <3>3
    <3>5. s[1] \in Drawn \ {Root} /\ Above(s[1]) = k
      BY <1>1, <3>4 DEF Hung, Drawn, s
    <3>6. view.side[s[1]] = d
      BY <1>1, <2>2, <3>1, <3>5 DEF Hung, Drawn
    <3> QED
      BY <3>4, <3>6
  <2> QED
    BY <2>1, <2>2
<1>5. Entered(k, d) = Preferred(view, k, d, h)
  BY Zenon DEF Entered, Drawn
<1>6. h \in ToSet(s) /\ h \in T
  <2> HIDE DEF s, T
  <2>1. Among(s, T) \in Seq(Seq(Nat)) /\ ToSet(Among(s, T)) = ToSet(s) \cap T
    BY <1>2, AmongParts
  <2>2. ToSet(s) \cap T # {}
    BY <1>3, <1>4 DEF T
  <2> DEFINE q == Among(s, T)
  <2>3. q \in Seq(Seq(Nat)) /\ ToSet(q) = ToSet(s) \cap T /\ ToSet(q) # {}
    BY <2>1, <2>2
  <2> HIDE DEF q
  <2>4. Len(q) \in Nat /\ (\E i \in 1 .. Len(q) : TRUE) /\ \A i \in 1 .. Len(q) : q[i] \in ToSet(q)
    BY <2>3, SeqParts
  <2>5. q[1] \in ToSet(q)
    BY <2>4
  <2>6. Head(q) = q[1]
    BY <2>3, <2>4
  <2> QED
    BY <2>3, <2>5, <2>6 DEF q
<1> HIDE DEF h
<1>7. CASE Entered(k, d) = h
  BY <1>6, <1>7
<1>8. CASE Entered(k, d) # h
  <2>1. Entered(k, d) \in ToSet(s) /\ view.side[Entered(k, d)] = d
    BY <1>5, <1>8 DEF Preferred
  <2> QED
    BY <1>3, <2>1
<1> QED
  BY <1>7, <1>8

\* What passes to both neighbours passes along the whole row.
LEMMA RowWalk ==
  ASSUME NEW S, NEW s \in Seq(S), NEW T, NEW j \in 1 .. Len(s), s[j] \in T,
         \A i \in 1 .. Len(s) : \A d \in {-1, 1} : s[i] \in T /\ i + d \in 1 .. Len(s) => s[i + d] \in T
  PROVE  \A i \in 1 .. Len(s) : s[i] \in T
<1> DEFINE N == {n \in Nat : \A i \in 1 .. Len(s) : i - j = n \/ j - i = n => s[i] \in T}
<1>1. Len(s) \in Nat
  BY SeqParts
<1>2. 0 \in N
  BY <1>1
<1>3. ASSUME NEW n \in N PROVE n + 1 \in N
  <2> SUFFICES ASSUME NEW i \in 1 .. Len(s), i - j = n + 1 \/ j - i = n + 1 PROVE s[i] \in T
    OBVIOUS
  <2>1. CASE i - j = n + 1
    <3>1. i - 1 \in 1 .. Len(s) /\ (i - 1) - j = n /\ (i - 1) + 1 = i
      BY <1>1, <2>1
    <3>2. s[i - 1] \in T
      BY <3>1
    <3> HIDE DEF N
    <3> QED
      BY <3>1, <3>2
  <2>2. CASE j - i = n + 1
    <3>1. i + 1 \in 1 .. Len(s) /\ j - (i + 1) = n /\ (i + 1) + (-1) = i /\ -1 \in {-1, 1}
      BY <1>1, <2>2
    <3>2. s[i + 1] \in T
      BY <3>1
    <3> HIDE DEF N
    <3> QED
      BY <3>1, <3>2
  <2> QED
    BY <2>1, <2>2
<1>4. N \in SUBSET Nat
  OBVIOUS
<1> HIDE DEF N
<1>5. N = Nat
  BY <1>2, <1>3, <1>4, SetInduction
<1> SUFFICES ASSUME NEW i \in 1 .. Len(s) PROVE s[i] \in T
  OBVIOUS
<1>6. CASE i >= j
  <2>1. i - j \in N
    BY <1>1, <1>5, <1>6
  <2> QED
    BY <2>1 DEF N
<1>7. CASE i < j
  <2>1. j - i \in N
    BY <1>1, <1>5, <1>7
  <2> QED
    BY <2>1 DEF N
<1> QED
  BY <1>1, <1>6, <1>7

\* Nothing smaller than the whole picture holds its root and is closed under steps.
LEMMA ClosedIsAll ==
  ASSUME InPicture, NEW T \in SUBSET Drawn, Root \in T, \A k \in T : StepsFrom(k) \subseteq T
  PROVE  T = Drawn
<1> DEFINE K == {k \in Seq(Nat) : k \in Drawn => k \in T}
<1>1. /\ Hung(Shown(board, fold, showLog), view.kids, Root, view.side)
      /\ Drawn \subseteq Shown(board, fold, showLog) /\ Root \in Drawn /\ (\A k \in Drawn : k \in Seq(Nat))
  BY PictureParts
<1>2. <<>> \in K
  <2>1. <<>> \in Seq(Nat)
    OBVIOUS
  <2>2. <<>> \in Drawn => <<>> = Root
    BY <1>1 DEF Hung, Drawn
  <2> QED
    BY <2>1, <2>2
<1>3. ASSUME NEW k \in K, NEW i \in Nat PROVE Append(k, i) \in K
  <2> DEFINE l == Append(k, i)
  <2>1. l \in Seq(Nat) /\ Above(l) = k
    BY StepsOfKey
  <2> HIDE DEF l
  <2>2. ASSUME l \in Drawn, l # Root PROVE l \in T
    <3>1. /\ view.side[l] \in {-1, 1} /\ k \in Drawn /\ l \in ToSet(view.kids[k])
          /\ k # Root => view.side[k] = view.side[l]
      BY <1>1, <2>1, <2>2 DEF Hung, Drawn
    <3>2. k \in T
      BY <3>1
    <3> PICK d \in {-1, 1} : d = view.side[l]
      BY <3>1
    <3>3. view.side[k] \in {0, d}
      BY <1>1, <3>1 DEF Hung
    <3>4. Enters(k, d)
      <4>1. view.kids[k] # <<>>
        BY <3>1 DEF ToSet
      <4> QED
        BY <3>1, <4>1 DEF Enters
    <3> DEFINE e == Entered(k, d)
    <3>5. e \in T
      BY <3>2, <3>3, <3>4 DEF StepsFrom
    <3>6. e \in ToSet(view.kids[k]) /\ e \in Drawn /\ view.side[e] = d
      BY <3>1, <3>3, <3>4, EnteredParts
    <3> HIDE DEF e
    <3> DEFINE R == {c \in Drawn : view.side[c] = d}
               s == Among(view.kids[k], R)
    <3>7. \A m \in ToSet(view.kids[k]) : m \in Drawn /\ m # Root /\ Above(m) = k
      BY <1>1, <3>1 DEF Hung, Drawn
    <3>8. \A m \in ToSet(view.kids[k]) : view.side[m] = d => Siblings(m) = s
      <4> SUFFICES ASSUME NEW m \in ToSet(view.kids[k]), view.side[m] = d PROVE Siblings(m) = s
        OBVIOUS
      <4>1. m \in Drawn /\ m # Root /\ Above(m) = k
        BY <3>7
      <4>2. Siblings(m) = Among(view.kids[Above(m)], {c \in Drawn : view.side[c] = view.side[m]})
        BY <4>1, SiblingParts
      <4> QED
        BY <4>1, <4>2
    <3>9. s \in Seq(Seq(Nat)) /\ ToSet(s) = ToSet(view.kids[k]) \cap R
      <4>1. view.kids[k] \in Seq(Seq(Nat)) /\ IsInjective(view.kids[k])
        BY <1>1, <3>1 DEF Hung
      <4> HIDE DEF R
      <4> QED
        BY <4>1, AmongParts
    <3>10. e \in ToSet(s) /\ l \in ToSet(s)
      BY <2>2, <3>1, <3>6, <3>9
    <3>11. \A m \in ToSet(s) : m \in Drawn /\ Siblings(m) = s
      BY <3>7, <3>8, <3>9
    <3> HIDE DEF s, R
    <3>12. \A n \in 1 .. Len(s) : s[n] \in ToSet(s)
      BY <3>9, SeqParts
    <3>13. ASSUME NEW n \in 1 .. Len(s), NEW f \in {-1, 1}, s[n] \in T, n + f \in 1 .. Len(s)
           PROVE  s[n + f] \in T
      <4>1. s[n] \in Drawn /\ Siblings(s[n]) = s
        BY <3>11, <3>12
      <4>2. NextSibling(s[n], f) = s[n + f]
        BY <3>13, <4>1, NextParts
      <4>3. NextSibling(s[n], f) \in StepsFrom(s[n])
        BY DEF StepsFrom
      <4> QED
        BY <3>13, <4>2, <4>3
    <3>14. PICK j \in 1 .. Len(s) : s[j] = e
      BY <3>9, <3>10, SeqParts
    <3>15. \A n \in 1 .. Len(s) : s[n] \in T
      BY <3>5, <3>9, <3>13, <3>14, RowWalk
    <3>16. PICK n \in 1 .. Len(s) : s[n] = l
      BY <3>9, <3>10, SeqParts
    <3> QED
      BY <3>15, <3>16
  <2>3. l \in K
    BY <2>1, <2>2
  <2> QED
    BY <2>3 DEF l
<1>4. K \in SUBSET Seq(Nat)
  OBVIOUS
<1> HIDE DEF K
<1>5. K = Seq(Nat)
  BY <1>2, <1>3, <1>4, KeyInduction
<1> QED
  BY <1>1, <1>5 DEF K

\* Steps stay in the picture.
LEMMA StepsStay ==
  ASSUME InPicture, NEW k \in Drawn
  PROVE  StepsFrom(k) \subseteq Drawn
<1>1. {NextSibling(k, d) : d \in {-1, 1}} \subseteq Drawn
  BY NextParts
<1>2. {Entered(k, d) : d \in {e \in {-1, 1} : view.side[k] \in {0, e} /\ Enters(k, e)}} \subseteq Drawn
  BY EnteredParts
<1> QED
  BY <1>1, <1>2 DEF StepsFrom

\* What is near grows with every step until it is everything.
LEMMA AllNear ==
  ASSUME InPicture
  PROVE  AllReachable
<1> DEFINE n == Cardinality(Drawn)
           V == SUBSET Drawn
           More(q) == q \cup UNION {StepsFrom(k) : k \in q}
           step == [p \in (1 .. n) \X V |-> More(p[2])]
           Equation(f) == f = [i \in 0 .. n |->
              IF i = 0 THEN {Root} ELSE f[i - 1] \cup UNION {StepsFrom(k) : k \in f[i - 1]}]
           near == CHOOSE f : Equation(f)
<1>0. Root \in Drawn /\ IsFiniteSet(Drawn)
  BY PictureParts
<1>1. n \in Nat /\ {Root} \in V
  BY <1>0, FS_CardinalityType
<1>2. \A q \in V : More(q) \in V /\ q \subseteq More(q) /\ (Root \in q /\ More(q) = q => q = Drawn)
  <2> SUFFICES ASSUME NEW q \in V PROVE More(q) \in V /\ q \subseteq More(q) /\ (Root \in q /\ More(q) = q => q = Drawn)
    OBVIOUS
  <2>1. \A k \in q : StepsFrom(k) \subseteq Drawn /\ StepsFrom(k) \subseteq More(q)
    BY StepsStay
  <2>2. More(q) \in V /\ q \subseteq More(q)
    BY <2>1
  <2>3. ASSUME Root \in q, More(q) = q PROVE q = Drawn
    <3>1. \A k \in q : StepsFrom(k) \subseteq q
      BY <2>1, <2>3
    <3> QED
      BY <2>3, <3>1, ClosedIsAll
  <2> QED
    BY <2>2, <2>3
<1> HIDE DEF n, More, V
<1>3. step \in [(1 .. n) \X V -> V] /\ \A i \in 1 .. n : \A q \in V : step[<<i, q>>] = More(q)
  BY <1>2
<1> HIDE DEF step
<1>4. PICK f : Iterates(f, n, V, {Root}, step)
  BY <1>1, <1>3, Iteration
<1>5. f \in [0 .. n -> V] /\ f[0] = {Root} /\ \A i \in 1 .. n : f[i] = More(f[i - 1])
  <2>1. f \in [0 .. n -> V] /\ f[0] = {Root} /\ \A i \in 1 .. n : f[i] = step[<<i, f[i - 1]>>]
    BY <1>4 DEF Iterates
  <2>2. \A i \in 1 .. n : f[i - 1] \in V
    BY <1>1, <2>1
  <2> QED
    BY <1>3, <2>1, <2>2
<1>6. Equation(f)
  <2>1. \A i \in 0 .. n : i # 0 => i \in 1 .. n
    BY <1>1
  <2>2. \A i \in 0 .. n : i # 0 => f[i] = More(f[i - 1])
    BY <1>5, <2>1
  <2> QED
    BY <1>5, <2>2 DEF More
<1>7. Equation(near)
  BY <1>6
<1>8. AllReachable <=> (inMap => near[n] = Drawn)
  BY Zenon DEF AllReachable, n, Drawn
<1> HIDE DEF near
<1>9. near[0] = {Root} /\ \A i \in 1 .. n : near[i] = More(near[i - 1])
  <2>1. 0 \in 0 .. n /\ \A i \in 1 .. n : i \in 0 .. n /\ i # 0
    BY <1>1
  <2> QED
    BY <1>7, <2>1 DEF More
<1> DEFINE Good(i) == near[i] \in V /\ Root \in near[i] /\ (near[i] = Drawn \/ Cardinality(near[i]) > i)
           N == {i \in Nat : i <= n => Good(i)}
<1>10. Good(0)
  <2>1. Cardinality({Root}) = 1
    BY FS_Singleton
  <2> QED
    BY <1>1, <1>9, <2>1
<1>11. ASSUME NEW i \in Nat, i + 1 <= n, Good(i) PROVE Good(i + 1)
  <2> DEFINE q == near[i]
             r == near[i + 1]
  <2>1. i + 1 \in 1 .. n /\ (i + 1) - 1 = i
    BY <1>1, <1>11
  <2>2. r = More(q)
    BY <1>9, <2>1
  <2>3. q \in V /\ Root \in q /\ (q = Drawn \/ Cardinality(q) > i)
    BY <1>11
  <2> HIDE DEF q, r, Good
  <2>4. r \in V /\ q \subseteq r /\ Root \in r /\ (r = q => q = Drawn)
    BY <1>2, <2>2, <2>3
  <2>5. CASE q = Drawn
    <3>1. r = Drawn
      BY <2>4, <2>5 DEF V
    <3> QED
      BY <2>4, <3>1 DEF Good, r
  <2>6. CASE q # Drawn
    <3>1. IsFiniteSet(r)
      BY <1>0, <2>4, FS_Subset DEF V
    <3>2. Cardinality(q) \in Nat /\ Cardinality(r) \in Nat /\ Cardinality(q) < Cardinality(r)
      BY <2>4, <2>6, <3>1, FS_Subset, FS_CardinalityType
    <3>3. Cardinality(r) > i + 1
      BY <2>3, <2>6, <3>2
    <3> QED
      BY <2>4, <3>3 DEF Good, r
  <2> QED
    BY <2>5, <2>6
<1>12. N = Nat
  <2> HIDE DEF Good
  <2>1. N \in SUBSET Nat /\ 0 \in N
    BY <1>10
  <2>2. ASSUME NEW i \in N PROVE i + 1 \in N
    <3>1. i + 1 <= n => i <= n
      BY <1>1
    <3> QED
      BY <1>11, <3>1
  <2> HIDE DEF N
  <2> QED
    BY <2>1, <2>2, SetInduction
<1>13. Good(n)
  <2> HIDE DEF Good
  <2>1. n \in N
    BY <1>1, <1>12
  <2> QED
    BY <1>1, <2>1
<1>14. near[n] = Drawn
  <2>1. near[n] \subseteq Drawn /\ (near[n] = Drawn \/ Cardinality(near[n]) > n)
    BY <1>13 DEF V
  <2>2. Cardinality(near[n]) <= n /\ Cardinality(near[n]) \in Nat
    BY <1>0, <2>1, FS_Subset, FS_CardinalityType DEF n
  <2> QED
    BY <1>1, <2>1, <2>2
<1> QED
  BY <1>8, <1>14

-----------------------------------------------------------------------------
(* Sections, and what stays shown.                                         *)

\* A child is at the key of its parent and one more step.
LEMMA KeyOfStep ==
  ASSUME NEW b, IsTree(b), NEW x \in OnBoard(b) \ {Title}
  PROVE  /\ Parent(b, x) \in OnBoard(b) /\ KeyOf(b, Parent(b, x)) \in Seq(Nat)
         /\ \E i \in Nat : /\ i \in DOMAIN b.kids[Parent(b, x)] /\ b.kids[Parent(b, x)][i] = x
                           /\ KeyOf(b, x) = Append(KeyOf(b, Parent(b, x)), i)
<1> DEFINE p == Parent(b, x)
           k == KeyOf(b, p)
<1>1. p \in Thing /\ p \in OnBoard(b) /\ x \in Kids(b, p) /\ p # Nothing /\ x # Nothing
  BY ParentParts, OnBoardParts
<1>2. k \in Seq(Nat) /\ ThingAt(b, k) = p
  BY <1>1, KeyOfPlace
<1>3. PICK i \in DOMAIN b.kids[p] : b.kids[p][i] = x
  BY <1>1, TreeParts
<1>4. i \in Nat
  <2>1. b.kids[p] \in Seq(Section \cup Item)
    BY <1>1, RowParts
  <2> HIDE DEF p
  <2> QED
    BY <1>3, <2>1, SeqParts
<1> HIDE DEF p, k
<1>5. ThingAt(b, Append(k, i)) = x /\ Append(k, i) \in Seq(Nat)
  BY <1>1, <1>2, <1>3, <1>4, ThingAtSteps, StepsOfKey DEF StepTo
<1>6. KeyOf(b, x) = Append(k, i)
  BY <1>1, <1>5, KeysLead
<1> QED
  BY <1>1, <1>2, <1>3, <1>4, <1>6 DEF p, k

\* The section something is in.
LEMMA SectionParts ==
  ASSUME NEW b, IsTree(b), NEW x \in OnBoard(b) \ {Title}
  PROVE  /\ SectionOf(b, x) \in Section \cap OnBoard(b)
         /\ SectionOf(b, x) = IF x \in Section THEN x ELSE SectionOf(b, Parent(b, x))
         /\ SectionOf(b, x) = ThingAt(b, SubSeq(KeyOf(b, x), 1, 1))
<1> DEFINE B == OnBoard(b) \ {Title}
           Equation(f) == f = [y \in B |-> IF y \in Section THEN y ELSE f[Parent(b, y)]]
           up == CHOOSE f : Equation(f)
           f == [y \in B |-> ThingAt(b, SubSeq(KeyOf(b, y), 1, 1))]
<1>1. ASSUME NEW y \in B
      PROVE  f[y] = IF y \in Section THEN y ELSE f[Parent(b, y)]
  <2> DEFINE p == Parent(b, y)
             k == KeyOf(b, p)
  <2>1. p \in OnBoard(b) /\ k \in Seq(Nat) /\ \E i \in Nat : KeyOf(b, y) = Append(k, i)
    BY KeyOfStep
  <2>2. PICK i \in Nat : KeyOf(b, y) = Append(k, i)
    BY <2>1
  <2>3. (p = Title <=> y \in Section) /\ ThingAt(b, KeyOf(b, y)) = y /\ ThingAt(b, k) = p /\ p # Nothing
    <3>1. p = Title <=> y \in Section
      BY ParentParts
    <3>2. p \in Thing /\ p # Nothing
      BY <2>1, OnBoardParts
    <3> HIDE DEF p
    <3>3. ThingAt(b, KeyOf(b, y)) = y
      BY KeyOfPlace
    <3>4. ThingAt(b, k) = p
      BY <2>1, KeyOfPlace
    <3> QED
      BY <3>1, <3>2, <3>3, <3>4
  <2> HIDE DEF k
  <2>4. k = <<>> <=> y \in Section
    BY <2>1, <2>3, ThingAtOnBoard
  <2>5. /\ Len(k) \in Nat /\ SubSeq(Append(k, i), 1, Len(k) + 1) = Append(k, i)
        /\ (\A n \in 0 .. Len(k) : SubSeq(Append(k, i), 1, n) = SubSeq(k, 1, n))
        /\ (k = <<>> <=> Len(k) = 0)
    BY <2>1, StepsOfKey, SeqParts
  <2>6. CASE y \in Section
    <3>1. Len(k) + 1 = 1
      BY <2>4, <2>5, <2>6
    <3>2. SubSeq(KeyOf(b, y), 1, 1) = KeyOf(b, y)
      BY <2>2, <2>5, <3>1
    <3> QED
      BY <2>3, <2>6, <3>2
  <2>7. CASE y \notin Section
    <3>1. 1 \in 0 .. Len(k)
      BY <2>4, <2>5, <2>7
    <3>2. SubSeq(KeyOf(b, y), 1, 1) = SubSeq(k, 1, 1)
      BY <2>2, <2>5, <3>1
    <3>3. p \in B
      BY <2>1, <2>3, <2>7
    <3> QED
      BY <2>7, <3>2, <3>3 DEF k
  <2> QED
    BY <2>6, <2>7
<1>2. f = [y \in B |-> f[y]]
  OBVIOUS
<1> HIDE DEF f
<1>3. Equation(f)
  BY <1>1, <1>2
<1>4. Equation(up)
  BY <1>3
<1>5. \A y : SectionOf(b, y) = up[y]
  BY Zenon DEF SectionOf
<1> HIDE DEF up
<1>6. \A y \in B : up[y] = IF y \in Section THEN y ELSE up[Parent(b, y)]
  BY <1>4
<1> DEFINE T == {y \in OnBoard(b) : y = Title \/ (up[y] \in Section \cap OnBoard(b) /\ up[y] = f[y])}
<1>7. Title \in T
  BY OnBoardParts
<1>8. ASSUME NEW p \in T, NEW y \in Kids(b, p) PROVE y \in T
  <2>1. p \in Thing /\ p \in OnBoard(b) /\ y \in B
    BY OnBoardParts
  <2>2. Parent(b, y) = p /\ (y \in Section <=> p = Title)
    BY <2>1, ParentParts
  <2> QED
    BY <1>1, <1>6, <2>1, <2>2
<1>9. T \in SUBSET OnBoard(b)
  OBVIOUS
<1> HIDE DEF T
<1>10. T = OnBoard(b)
  BY <1>7, <1>8, <1>9, DownTheTree
<1>11. f[x] = ThingAt(b, SubSeq(KeyOf(b, x), 1, 1))
  BY DEF f
<1> QED
  BY <1>5, <1>6, <1>10, <1>11 DEF T

\* With a key everything on the way to it is shown.
LEMMA PrefixShown ==
  ASSUME NEW b, IsTree(b), NEW f, NEW log, NEW k \in Shown(b, f, log), NEW r \in Seq(Nat), IsPrefix(r, k)
  PROVE  r \in Shown(b, f, log)
<1> DEFINE S == Shown(b, f, log)
           T == {l \in Seq(Nat) : l \in S /\ IsPrefix(r, l) => r \in S}
<1>1. <<>> \in T
  <2>1. <<>> \in Seq(Nat)
    OBVIOUS
  <2>2. IsPrefix(r, <<>>) => r = <<>>
    BY <2>1, PrefixParts
  <2> QED
    BY <2>1, <2>2
<1>2. ASSUME NEW l \in T, NEW i \in Nat PROVE Append(l, i) \in T
  <2>1. l \in Seq(Nat) /\ Append(l, i) \in Seq(Nat)
    BY StepsOfKey
  <2>2. Append(l, i) \in S => l \in S
    BY <2>1, ShownSteps
  <2>3. IsPrefix(r, Append(l, i)) => IsPrefix(r, l) \/ r = Append(l, i)
    BY <2>1, PrefixParts
  <2>4. l \in S /\ IsPrefix(r, l) => r \in S
    OBVIOUS
  <2> HIDE DEF S
  <2> QED
    BY <2>1, <2>2, <2>3, <2>4
<1>3. T \in SUBSET Seq(Nat)
  OBVIOUS
<1> HIDE DEF T
<1>4. T = Seq(Nat)
  BY <1>1, <1>2, <1>3, KeyInduction
<1>5. k \in Seq(Nat)
  BY ShownSteps
<1> QED
  BY <1>4, <1>5 DEF T

\* Only the folds on the way matter.
LEMMA StillShown ==
  ASSUME NEW b, IsTree(b), NEW f, NEW g, NEW log, NEW k \in Shown(b, f, log),
         \A m \in Seq(Nat) : IsPrefix(m, k) /\ m # k => FoldAt(g, m) = FoldAt(f, m)
  PROVE  k \in Shown(b, g, log)
<1> DEFINE Agree(l) == \A m \in Seq(Nat) : IsPrefix(m, l) /\ m # l => FoldAt(g, m) = FoldAt(f, m)
           T == {l \in Seq(Nat) : l \in Shown(b, f, log) /\ Agree(l) => l \in Shown(b, g, log)}
<1>1. <<>> \in T
  <2>1. <<>> \in Seq(Nat)
    OBVIOUS
  <2> QED
    BY <2>1, ShownSteps
<1>2. ASSUME NEW l \in T, NEW i \in Nat PROVE Append(l, i) \in T
  <2> DEFINE n == Append(l, i)
  <2>1. l \in Seq(Nat) /\ n \in Seq(Nat) /\ n # l
    BY StepsOfKey
  <2>2. /\ n \in Shown(b, f, log) <=> l \in Shown(b, f, log) /\ ThingAt(b, n) # Nothing
                                      /\ Emits(b, f, log, ThingAt(b, l), l, ThingAt(b, n))
        /\ n \in Shown(b, g, log) <=> l \in Shown(b, g, log) /\ ThingAt(b, n) # Nothing
                                      /\ Emits(b, g, log, ThingAt(b, l), l, ThingAt(b, n))
    BY <2>1, ShownSteps
  <2>3. \A m \in Seq(Nat) : (IsPrefix(m, l) => IsPrefix(m, n) /\ m # n) /\ IsPrefix(l, l)
    BY <2>1, PrefixParts
  <2>4. l \in Shown(b, f, log) /\ Agree(l) => l \in Shown(b, g, log)
    OBVIOUS
  <2> HIDE DEF n
  <2>5. ASSUME Agree(n) PROVE Agree(l) /\ FoldAt(g, l) = FoldAt(f, l)
    BY <2>1, <2>3, <2>5
  <2> HIDE DEF Agree
  <2>6. ASSUME Agree(n)
        PROVE  Emits(b, f, log, ThingAt(b, l), l, ThingAt(b, n)) <=> Emits(b, g, log, ThingAt(b, l), l, ThingAt(b, n))
    BY <2>5, <2>6 DEF Emits
  <2>7. n \in T
    BY <2>1, <2>2, <2>4, <2>5, <2>6
  <2> QED
    BY <2>7 DEF n
<1>3. T \in SUBSET Seq(Nat)
  OBVIOUS
<1>4. k \in Seq(Nat) /\ Agree(k)
  BY ShownSteps
<1> HIDE DEF T
<1>5. T = Seq(Nat)
  BY <1>1, <1>2, <1>3, KeyInduction
<1> HIDE DEF Agree
<1> QED
  BY <1>4, <1>5 DEF T

-----------------------------------------------------------------------------
(* The invariant.  Every key's picture is the one its board, its folds and *)
(* its zoom ask for: nothing the map holds is left over from an earlier    *)
(* board.                                                                  *)

Folds(f) == \A k \in DOMAIN f : f[k] \in {"collapsed", "expanded"}

IInv ==
  /\ IsTree(board)
  /\ Folds(fold)
  /\ foldPrev = Nothing \/ Folds(foldPrev)
  /\ cursor = Nothing \/ cursor \in OnBoard(board) \ {Title}
  /\ view.zoom \in Zooms /\ "focus" \in DOMAIN view
  /\ IF inMap THEN Picture(board, fold, showLog, view) ELSE DOMAIN view.side = {}

\* Another fold at one key.
LEMMA FoldParts ==
  ASSUME NEW f, Folds(f), NEW k
  PROVE  /\ Folds(Unfolded(f, k)) /\ \A m : m # k => FoldAt(Unfolded(f, k), m) = FoldAt(f, m)
         /\ \A st \in {"default", "collapsed", "expanded"} :
              Folds(Folded(f, k, st)) /\ \A m : m # k => FoldAt(Folded(f, k, st), m) = FoldAt(f, m)
<1>1. Folds(Unfolded(f, k)) /\ \A m : m # k => FoldAt(Unfolded(f, k), m) = FoldAt(f, m)
  BY DEF Folds, Unfolded, FoldAt
<1>2. ASSUME NEW st \in {"collapsed", "expanded"}
      PROVE  Folds(Folded(f, k, st)) /\ \A m : m # k => FoldAt(Folded(f, k, st), m) = FoldAt(f, m)
  <2> DEFINE g == [m \in DOMAIN f \cup {k} |-> IF m = k THEN st ELSE f[m]]
  <2>1. Folded(f, k, st) = g
    BY DEF Folded
  <2>2. Folds(g) /\ \A m : m # k => FoldAt(g, m) = FoldAt(f, m)
    BY DEF Folds, FoldAt
  <2> QED
    BY <2>1, <2>2
<1>3. Folded(f, k, "default") = Unfolded(f, k)
  BY DEF Folded
<1> QED
  BY <1>1, <1>2, <1>3

\* All folds are collapsed or expanded.
LEMMA FoldsMade ==
  /\ \A f, b, k : Folds(f) => Folds(Revealed(b, f, k))
  /\ \A b, r, k : Folds(OnlyTheWay(b, r, k))
  /\ \A b, x, cur : cur \in {"default", "collapsed", "expanded"} => NextFold(b, x, cur) \in {"default", "collapsed", "expanded"}
  /\ \A f, k : Folds(f) => FoldAt(f, k) \in {"default", "collapsed", "expanded"}
<1>1. ASSUME NEW f, NEW b, NEW k, Folds(f) PROVE Folds(Revealed(b, f, k))
  BY <1>1 DEF Folds, Revealed
<1>2. ASSUME NEW b, NEW r, NEW k PROVE Folds(OnlyTheWay(b, r, k))
  BY DEF Folds, OnlyTheWay
<1>3. ASSUME NEW b, NEW x, NEW cur \in {"default", "collapsed", "expanded"}
      PROVE  NextFold(b, x, cur) \in {"default", "collapsed", "expanded"}
  BY DEF NextFold
<1>4. ASSUME NEW f, NEW k, Folds(f) PROVE FoldAt(f, k) \in {"default", "collapsed", "expanded"}
  BY <1>4 DEF Folds, FoldAt
<1> QED
  BY <1>1, <1>2, <1>3, <1>4

\* Another focus in the picture.
LEMMA Refocused ==
  ASSUME NEW b, NEW f, NEW log, NEW v, Picture(b, f, log, v), "focus" \in DOMAIN v,
         NEW k \in DOMAIN v.side
  PROVE  /\ Picture(b, f, log, [v EXCEPT !.focus = k])
         /\ [v EXCEPT !.focus = k].zoom = v.zoom
         /\ "focus" \in DOMAIN [v EXCEPT !.focus = k]
<1> DEFINE w == [v EXCEPT !.focus = k]
<1>1. w.kids = v.kids /\ w.zoom = v.zoom /\ w.side = v.side /\ w.focus = k /\ "focus" \in DOMAIN w
  OBVIOUS
<1> HIDE DEF w
<1>2. Picture(b, f, log, w)
  BY <1>1 DEF Picture
<1> QED
  BY <1>1, <1>2 DEF w

\* A step that only moves the focus within the picture keeps the invariant.
LEMMA FocusKeeps ==
  ASSUME IInv, inMap, NEW k \in Drawn, FocusOn(k)
  PROVE  IInv'
<1>1. Picture(board, fold, showLog, view')
      /\ view'.zoom = view.zoom /\ "focus" \in DOMAIN view'
  <2>1. view' = [view EXCEPT !.focus = k]
    BY DEF FocusOn
  <2> QED
    BY <2>1, Refocused DEF IInv, Drawn
<1>2. UNCHANGED <<board, fold, foldPrev, showLog, cursor>>
  BY DEF FocusOn, folds
<1> QED
  BY <1>1, <1>2 DEF IInv, inMap

\* So does a change to another tree.
LEMMA EditedKeeps ==
  ASSUME IInv, inMap, NEW b, IsTree(b), NEW k, NEW zoom \in Zooms, Edited(b, k, zoom)
  PROVE  IInv'
<1>1. board' = b /\ UNCHANGED <<fold, foldPrev, showLog, cursor>>
      /\ view' = Built(b, fold, showLog, tall, k, zoom)
  BY DEF Edited, Writes, folds
<1>2. Picture(b, fold, showLog, view') /\ view'.zoom \in Zooms /\ "focus" \in DOMAIN view'
  BY <1>1, BuiltParts
<1> QED
  BY <1>1, <1>2 DEF IInv, inMap

\* So does a new fold with a map that fits it.
LEMMA RefoldKeeps ==
  ASSUME IInv, NEW f, Folds(f), NEW v, Refold(f, v),
         Picture(board, f, showLog, v), v.zoom \in Zooms, "focus" \in DOMAIN v
  PROVE  IInv'
<1>1. inMap /\ fold' = f /\ view' = v /\ UNCHANGED <<board, foldPrev, showLog, cursor>>
  BY DEF Refold, Looks
<1> QED
  BY <1>1 DEF IInv, inMap

-----------------------------------------------------------------------------
(* The moves keep it.                                                      *)

\* j and k.
LEMMA VerticalKeeps ==
  ASSUME IInv, NEW d \in {-1, 1}, Vertical(d)
  PROVE  IInv'
<1>1. InPicture /\ inMap
  BY DEF IInv, InPicture, Vertical
<1>2. view.focus \in Drawn
  BY <1>1, PictureParts
<1>3. NextSibling(view.focus, d) \in Drawn
  BY <1>1, <1>2, NextParts
<1> QED
  BY <1>1, <1>3, FocusKeeps DEF Vertical

\* j and k in the center.
LEMMA CenterVerticalKeeps ==
  ASSUME IInv, NEW d \in {-1, 1}, CenterVertical(d)
  PROVE  IInv'
<1>1. InPicture /\ inMap
  BY DEF IInv, InPicture, CenterVertical
<1>2. Root \in Drawn /\ \A c \in ToSet(view.kids[Root]) : c \in Drawn
  BY <1>1, PictureParts DEF Hung, Drawn
<1>3. \A i \in DOMAIN view.kids[Root] : view.kids[Root][i] \in Drawn
  BY <1>2 DEF ToSet
<1>4. \E k \in Drawn : FocusOn(k)
  BY <1>2, <1>3 DEF CenterVertical
<1> QED
  BY <1>1, <1>4, FocusKeeps

\* l and h, outwards.
LEMMA DescendKeeps ==
  ASSUME IInv, NEW d \in {-1, 1}, Descend(d)
  PROVE  IInv'
<1>1. InPicture /\ inMap /\ view.side[view.focus] \in {0, d} /\ Enters(view.focus, d)
      /\ FocusOn(Entered(view.focus, d))
  BY DEF IInv, InPicture, Descend
<1>2. view.focus \in Drawn
  BY <1>1, PictureParts
<1>3. Entered(view.focus, d) \in Drawn
  BY <1>1, <1>2, EnteredParts
<1> QED
  BY <1>1, <1>3, FocusKeeps

\* l and h, towards the center.
LEMMA AscendKeeps ==
  ASSUME IInv, NEW d \in {-1, 1}, Ascend(d)
  PROVE  IInv'
<1>1. InPicture /\ inMap /\ view.side[view.focus] = -d
      /\ view' = [view EXCEPT !.focus = Above(view.focus)] /\ UNCHANGED <<board, fold, foldPrev, showLog, cursor>>
  BY DEF IInv, InPicture, Ascend, folds
<1>2. view.focus \in Drawn /\ Hung(Shown(board, fold, showLog), view.kids, Root, view.side)
  BY <1>1, PictureParts
<1>3. view.focus # Root
  BY <1>1, <1>2 DEF Hung
<1>4. Above(view.focus) \in Drawn
  BY <1>2, <1>3 DEF Hung, Drawn
<1>5. /\ Picture(board, fold, showLog, view')
      /\ view'.zoom = view.zoom /\ "focus" \in DOMAIN view'
  BY <1>1, <1>4, Refocused DEF IInv, Drawn
<1> QED
  BY <1>1, <1>5 DEF IInv, inMap

\* g and G.
LEMMA SiblingEndKeeps ==
  ASSUME IInv, NEW last \in BOOLEAN, SiblingEnd(last)
  PROVE  IInv'
<1> DEFINE s == Siblings(view.focus)
<1>1. InPicture /\ inMap /\ FocusOn(IF last THEN Last(s) ELSE Head(s))
  BY DEF IInv, InPicture, SiblingEnd
<1>2. view.focus \in Drawn
  BY <1>1, PictureParts
<1>3. s \in Seq(Seq(Nat)) /\ view.focus \in ToSet(s) /\ ToSet(s) \subseteq Drawn
  BY <1>1, <1>2, SiblingParts
<1> HIDE DEF s
<1>4. Len(s) \in Nat /\ (\E i \in 1 .. Len(s) : TRUE) /\ \A i \in 1 .. Len(s) : s[i] \in Drawn
  BY <1>3, SeqParts
<1>5. 1 \in 1 .. Len(s) /\ Len(s) \in 1 .. Len(s) /\ s # <<>>
  BY <1>3, <1>4
<1>6. Head(s) \in Drawn /\ Last(s) \in Drawn
  BY <1>3, <1>4, <1>5 DEF Last
<1> QED
  BY <1>1, <1>6, FocusKeeps

\* The sections in the picture.
LEMMA RingParts ==
  ASSUME InPicture
  PROVE  SectionRing \in Seq(Seq(Nat)) /\ ToSet(SectionRing) \subseteq Drawn
<1> DEFINE r == board.kids[Title]
           s == [i \in DOMAIN r |-> <<i>>]
<1>1. r \in Seq(Section \cup Item)
  BY RowParts, OnBoardParts DEF InPicture
<1>2. SectionRing = Among(s, Drawn)
  BY Zenon DEF SectionRing, Drawn
<1> HIDE DEF r
<1>3. DOMAIN r = 1 .. Len(r) /\ Len(r) \in Nat
  BY <1>1, SeqParts
<1>4. s \in Seq(Seq(Nat))
  <2>1. \A i \in DOMAIN r : <<i>> \in Seq(Nat)
    BY <1>3
  <2>2. s \in [1 .. Len(r) -> Seq(Nat)]
    BY <1>3, <2>1
  <2> QED
    BY <1>3, <2>2, SeqDef
<1>5. IsInjective(s)
  <2>1. \A i, j \in DOMAIN r : <<i>> = <<j>> => i = j
    OBVIOUS
  <2> QED
    BY <2>1 DEF IsInjective
<1> HIDE DEF s
<1>6. Among(s, Drawn) \in Seq(Seq(Nat)) /\ ToSet(Among(s, Drawn)) = ToSet(s) \cap Drawn
  BY <1>4, <1>5, AmongParts
<1> QED
  BY <1>2, <1>6

\* 1 to 9.
LEMMA JumpToSectionKeeps ==
  ASSUME IInv, NEW i, JumpToSection(i)
  PROVE  IInv'
<1>1. InPicture /\ inMap /\ <<i>> \in ToSet(SectionRing) /\ FocusOn(<<i>>)
  BY DEF IInv, InPicture, JumpToSection
<1>2. <<i>> \in Drawn
  BY <1>1, RingParts
<1> QED
  BY <1>1, <1>2, FocusKeeps

\* tab and shift-tab.
LEMMA CycleSectionKeeps ==
  ASSUME IInv, NEW d \in {-1, 1}, CycleSection(d)
  PROVE  IInv'
<1> DEFINE s == SectionRing
           n == Len(s)
           here == {i \in 1 .. n : IsPrefix(s[i], view.focus)}
           at == CHOOSE i \in here : TRUE
           next == IF here = {} THEN IF d > 0 THEN 1 ELSE n ELSE ((at + d + n - 1) % n) + 1
<1>1. InPicture /\ inMap /\ s # <<>>
  BY DEF IInv, InPicture, CycleSection
<1>2. FocusOn(s[next])
  BY Zenon DEF CycleSection
<1>3. s \in Seq(Seq(Nat)) /\ ToSet(s) \subseteq Drawn
  BY <1>1, RingParts
<1> HIDE DEF s
<1>4. n \in Nat /\ n # 0 /\ \A i \in 1 .. n : s[i] \in Drawn
  BY <1>1, <1>3, SeqParts
<1>5. here # {} => at \in 1 .. n
  OBVIOUS
<1> HIDE DEF here, at, n
<1>6. next \in 1 .. n
  <2>1. ASSUME NEW m \in Int PROVE (m % n) + 1 \in 1 .. n
    BY <1>4
  <2>2. CASE here = {}
    BY <1>4, <2>2
  <2>3. CASE here # {}
    <3>1. at + d + n - 1 \in Int
      BY <1>4, <1>5, <2>3
    <3> QED
      BY <2>1, <2>3, <3>1
  <2> QED
    BY <2>2, <2>3
<1> HIDE DEF next
<1> QED
  BY <1>1, <1>2, <1>4, <1>6, FocusKeeps

-----------------------------------------------------------------------------
(* Folding and zooming keep it.                                            *)

\* A child shown below a focus can take the focus.
LEMMA OnChild ==
  ASSUME NEW b, IsTree(b), NEW f, NEW log, NEW v, Picture(b, f, log, v), NEW k \in DOMAIN v.side
  PROVE  \A c \in ToSet(v.kids[k]) : c \in DOMAIN v.side
<1>1. v.kids = Rows(b, f, log) /\ v.zoom.key \in Shown(b, f, log) /\ v.side = SideOf(v.kids, v.zoom.key)
  BY DEF Picture
<1>2. Hung(Shown(b, f, log), v.kids, v.zoom.key, v.side)
  BY <1>1, SideParts
<1> QED
  BY <1>2 DEF Hung

\* The children of a node in the picture are in it, the first and the remembered.
LEMMA FirstChild ==
  ASSUME NEW b, IsTree(b), NEW f, NEW log, NEW v, Picture(b, f, log, v), NEW k \in DOMAIN v.side,
         v.kids[k] # <<>>
  PROVE  Head(v.kids[k]) \in ToSet(v.kids[k])
<1>1. v.kids = Rows(b, f, log) /\ v.zoom.key \in Shown(b, f, log) /\ v.side = SideOf(v.kids, v.zoom.key)
  BY DEF Picture
<1>2. Hung(Shown(b, f, log), v.kids, v.zoom.key, v.side)
  BY <1>1, SideParts
<1> DEFINE s == v.kids[k]
<1>3. s \in Seq(Seq(Nat)) /\ s # <<>>
  BY <1>2 DEF Hung
<1> HIDE DEF s
<1>4. Len(s) # 0 /\ Len(s) \in Nat /\ DOMAIN s = 1 .. Len(s) /\ Head(s) = s[1]
  BY <1>3, SeqParts
<1>5. Head(s) \in ToSet(s)
  BY <1>4 DEF ToSet
<1> QED
  BY <1>5 DEF s

\* With other folds below it the focus stays in the picture, and the zoom.
LEMMA FocusStays ==
  ASSUME InPicture, NEW k \in Drawn, NEW f, NEW zoom \in Zooms, NEW v,
         v = Built(board, f, showLog, tall, k, zoom),
         \A m : m # k => FoldAt(f, m) = FoldAt(fold, m),
         zoom = view.zoom \/ zoom = Zoom(board, k)
  PROVE  /\ k \in DOMAIN v.side /\ v.focus = k /\ v.zoom = zoom
         /\ Picture(board, f, showLog, v) /\ "focus" \in DOMAIN v
<1>1. /\ IsTree(board) /\ k \in Seq(Nat) /\ ThingAt(board, k) # Nothing
      /\ k \in Shown(board, fold, showLog) /\ Root \in Seq(Nat) /\ IsPrefix(Root, k)
      /\ Rekeyed(board, view.zoom) = view.zoom
  BY PictureParts DEF InPicture, Hung, Drawn, Picture
<1>2. k \in Shown(board, f, showLog)
  BY <1>1, StillShown
<1>3. zoom.key \in Seq(Nat) /\ IsPrefix(zoom.key, k) /\ Rekeyed(board, zoom) = zoom
  <2>1. CASE zoom = view.zoom
    BY <1>1, <2>1 DEF Root
  <2>2. CASE zoom = Zoom(board, k)
    <3>1. zoom.key = k /\ zoom.id \in {Nothing, ThingAt(board, k)}
      BY <2>2 DEF Zoom
    <3>2. KeyOf(board, ThingAt(board, k)) = k /\ ThingAt(board, k) \in OnBoard(board)
      BY <1>1, KeysLead, ThingAtOnBoard
    <3>3. Rekeyed(board, zoom) = zoom
      BY <1>1, <3>1, <3>2 DEF Rekeyed, Zooms
    <3> QED
      BY <1>1, <3>1, <3>3, PrefixParts
  <2> QED
    BY <2>1, <2>2
<1>4. zoom.key \in Shown(board, f, showLog)
  BY <1>1, <1>2, <1>3, PrefixShown
<1>5. /\ Picture(board, f, showLog, v) /\ "focus" \in DOMAIN v
      /\ v.zoom = zoom
      /\ v.focus = IF k \in DOMAIN v.side THEN k ELSE v.zoom.key
  BY <1>1, <1>3, <1>4, BuiltParts
<1>6. k \in DOMAIN v.side
  <2>1. v.kids = Rows(board, f, showLog) /\ v.side = SideOf(v.kids, zoom.key)
    BY <1>5 DEF Picture
  <2>2. Hung(Shown(board, f, showLog), v.kids, zoom.key, v.side)
    BY <1>1, <1>4, <2>1, SideParts
  <2> QED
    BY <1>2, <1>3, <2>2 DEF Hung
<1> QED
  BY <1>5, <1>6

\* l and h into what is folded.
LEMMA ExpandIntoKeeps ==
  ASSUME IInv, NEW d \in {-1, 1}, ExpandInto(d)
  PROVE  IInv'
<1> DEFINE k == view.focus
           st == IF HasOther(board, Focused) THEN "default" ELSE "expanded"
           f == Folded(fold, k, st)
           v == Built(board, f, showLog, tall, k, view.zoom)
           e == IF v.kids[k] = <<>> THEN k ELSE Preferred(v, k, v.side[k], Head(v.kids[k]))
           w == [v EXCEPT !.focus = e]
<1>1. InPicture /\ inMap /\ Folds(fold) /\ view.zoom \in Zooms
  BY DEF IInv, InPicture, ExpandInto
<1>2. Refold(f, w)
  BY Zenon DEF ExpandInto
<1>3. k \in Drawn
  BY <1>1, PictureParts
<1>4. Folds(f) /\ \A m : m # k => FoldAt(f, m) = FoldAt(fold, m)
  BY <1>1, FoldParts
<1> HIDE DEF f, k, v
<1>5. /\ k \in DOMAIN v.side /\ v.zoom = view.zoom
      /\ Picture(board, f, showLog, v) /\ "focus" \in DOMAIN v
  BY <1>1, <1>3, <1>4, FocusStays DEF v
<1>6. e \in DOMAIN v.side
  <2>1. CASE v.kids[k] = <<>>
    BY <1>5, <2>1
  <2>2. CASE v.kids[k] # <<>>
    <3>1. IsTree(board)
      BY <1>1 DEF InPicture
    <3>2. Head(v.kids[k]) \in ToSet(v.kids[k])
      BY <1>5, <2>2, <3>1, FirstChild
    <3>3. Preferred(v, k, v.side[k], Head(v.kids[k])) \in ToSet(v.kids[k])
      BY <3>2 DEF Preferred
    <3>4. \A c \in ToSet(v.kids[k]) : c \in DOMAIN v.side
      BY <1>5, <3>1, OnChild
    <3> QED
      BY <2>2, <3>3, <3>4
  <2> QED
    BY <2>1, <2>2
<1> HIDE DEF e
<1>7. Picture(board, f, showLog, w) /\ w.zoom \in Zooms /\ "focus" \in DOMAIN w
  BY <1>1, <1>5, <1>6, Refocused
<1> HIDE DEF w
<1> QED
  BY <1>2, <1>4, <1>7, RefoldKeeps

\* f.
LEMMA FocusInKeeps ==
  ASSUME IInv, FocusIn
  PROVE  IInv'
<1> DEFINE k == view.focus
           f == IF FoldAt(fold, k) = "collapsed" THEN Unfolded(fold, k) ELSE fold
           v == Built(board, f, showLog, tall, k, Zoom(board, k))
           e == IF v.kids[k] = <<>> THEN k ELSE Head(v.kids[k])
           w == [v EXCEPT !.focus = e]
<1>1. InPicture /\ inMap /\ Folds(fold) /\ IsTree(board)
  BY DEF IInv, InPicture, FocusIn
<1>2. Refold(f, w)
  BY Zenon DEF FocusIn
<1>3. k \in Drawn /\ k \in Seq(Nat) /\ ThingAt(board, k) \in Thing
  BY <1>1, PictureParts, OnBoardParts
<1>3a. Zoom(board, k) \in Zooms
  BY <1>3 DEF Zoom, Zooms
<1>4. Folds(f) /\ \A m : m # k => FoldAt(f, m) = FoldAt(fold, m)
  BY <1>1, FoldParts
<1> HIDE DEF f, k, v
<1>5. /\ k \in DOMAIN v.side /\ v.zoom = Zoom(board, k)
      /\ Picture(board, f, showLog, v) /\ "focus" \in DOMAIN v
  BY <1>1, <1>3, <1>3a, <1>4, FocusStays DEF v
<1>6. e \in DOMAIN v.side
  <2>1. CASE v.kids[k] = <<>>
    BY <1>5, <2>1
  <2>2. CASE v.kids[k] # <<>>
    <3>2. Head(v.kids[k]) \in ToSet(v.kids[k])
      BY <1>1, <1>5, <2>2, FirstChild
    <3>4. \A c \in ToSet(v.kids[k]) : c \in DOMAIN v.side
      BY <1>1, <1>5, OnChild
    <3> QED
      BY <2>2, <3>2, <3>4
  <2> QED
    BY <2>1, <2>2
<1> HIDE DEF e
<1>7. Picture(board, f, showLog, w) /\ w.zoom \in Zooms /\ "focus" \in DOMAIN w
  BY <1>3a, <1>5, <1>6, Refocused
<1> HIDE DEF w
<1> QED
  BY <1>2, <1>4, <1>7, RefoldKeeps

\* enter.
LEMMA ToggleFoldKeeps ==
  ASSUME IInv, ToggleFold
  PROVE  IInv'
<1> DEFINE st == NextFold(board, Focused, FoldAt(fold, view.focus))
           f == Folded(fold, view.focus, st)
           v == Built(board, f, showLog, tall, view.focus, view.zoom)
<1>1. IsTree(board) /\ Folds(fold) /\ view.zoom \in Zooms
  BY DEF IInv
<1>2. Refold(f, v)
  BY Zenon DEF ToggleFold
<1>3. st \in {"default", "collapsed", "expanded"}
  BY <1>1, FoldsMade
<1> HIDE DEF st
<1>4. Folds(f)
  BY <1>1, <1>3, FoldParts
<1> HIDE DEF f, v
<1>5. Picture(board, f, showLog, v) /\ v.zoom \in Zooms /\ "focus" \in DOMAIN v
  BY <1>1, BuiltParts DEF v
<1> QED
  BY <1>2, <1>4, <1>5, RefoldKeeps

\* Rebuilt in place, whatever was folded, wrapped or shown.
LEMMA RebuiltKeeps ==
  ASSUME IInv, inMap, Folds(fold'), foldPrev' = Nothing \/ Folds(foldPrev'),
         UNCHANGED <<board, cursor>>, NEW wrapped, NEW k, NEW zoom \in Zooms,
         view' = Built(board, fold', showLog', wrapped, k, zoom)
  PROVE  IInv'
<1>1. Picture(board, fold', showLog', view') /\ view'.zoom \in Zooms /\ "focus" \in DOMAIN view'
  BY BuiltParts DEF IInv
<1> QED
  BY <1>1 DEF IInv, inMap

\* z and back, w, M, esc.
LEMMA LooksKeep ==
  ASSUME IInv, FocusFold \/ FocusUnfold \/ ToggleTall \/ ToggleLog \/ FocusOut
  PROVE  IInv'
<1>1. Folds(fold) /\ (foldPrev = Nothing \/ Folds(foldPrev)) /\ view.zoom \in Zooms
  BY DEF IInv
<1>2. ASSUME FocusFold PROVE IInv'
  <2>1. /\ inMap /\ fold' = OnlyTheWay(board, Root, view.focus) /\ foldPrev' = fold
        /\ UNCHANGED <<board, cursor>> /\ view' = Built(board, fold', showLog', tall, view.focus, view.zoom)
    BY <1>2 DEF FocusFold, Looks
  <2>2. Folds(fold')
    BY <2>1, FoldsMade
  <2> QED
    BY <1>1, <2>1, <2>2, RebuiltKeeps
<1>3. ASSUME FocusUnfold PROVE IInv'
  <2>1. /\ inMap /\ fold' = foldPrev /\ foldPrev # Nothing /\ foldPrev' = Nothing
        /\ UNCHANGED <<board, cursor>> /\ view' = Built(board, fold', showLog', tall, view.focus, view.zoom)
    BY <1>3 DEF FocusUnfold, Looks
  <2>2. Folds(fold')
    BY <1>1, <2>1
  <2> QED
    BY <1>1, <2>1, <2>2, RebuiltKeeps
<1>4. ASSUME ToggleTall PROVE IInv'
  <2>1. /\ inMap /\ fold' = fold /\ foldPrev' = foldPrev
        /\ UNCHANGED <<board, cursor>> /\ view' = Built(board, fold', showLog', tall', view.focus, view.zoom)
    BY <1>4 DEF ToggleTall, Looks
  <2> QED
    BY <1>1, <2>1, RebuiltKeeps
<1>5. ASSUME ToggleLog PROVE IInv'
  <2>1. /\ inMap /\ fold' = fold /\ foldPrev' = foldPrev
        /\ UNCHANGED <<board, cursor>> /\ view' = Built(board, fold', showLog', tall, view.focus, view.zoom)
    BY <1>5 DEF ToggleLog, Looks
  <2> QED
    BY <1>1, <2>1, RebuiltKeeps
<1>6. ASSUME FocusOut PROVE IInv'
  <2>1. /\ inMap /\ fold' = fold /\ foldPrev' = foldPrev /\ Root # <<>>
        /\ UNCHANGED <<board, cursor>> /\ view' = Built(board, fold', showLog', tall, Root, Zoom(board, Above(Root)))
    BY <1>6 DEF FocusOut, Looks, folds
  <2>2. Root \in Seq(Nat) /\ Above(Root) \in Seq(Nat)
    <3>1. Root \in Seq(Nat)
      BY <1>1 DEF Zooms, Root
    <3> QED
      BY <2>1, <3>1, AboveParts
  <2>3. ThingAt(board, Above(Root)) \in Thing \cup {Nothing}
    BY <2>2, ThingAtSteps DEF IInv
  <2>4. Zoom(board, Above(Root)) \in Zooms
    BY <2>2, <2>3 DEF Zoom, Zooms
  <2> QED
    BY <1>1, <2>1, <2>4, RebuiltKeeps
<1> QED
  BY <1>2, <1>3, <1>4, <1>5, <1>6

-----------------------------------------------------------------------------
(* The edits keep it.                                                      *)

\* d, D and e.
LEMMA EditsKeep ==
  ASSUME IInv, DeleteItem \/ DeleteSection \/ ArchiveItem \/ ArchiveSection \/ EditText
  PROVE  IInv'
<1>1. IsTree(board) /\ view.zoom \in Zooms /\ Whole \in Zooms
  BY RekeyedOnce DEF IInv
<1>2. inMap /\ Focused \in Thing /\ Focused \in OnBoard(board)
  <2>1. inMap
    BY DEF DeleteItem, DeleteSection, ArchiveItem, ArchiveSection, EditText
  <2>2. InPicture
    BY <2>1 DEF IInv, InPicture
  <2>3. Focused \in OnBoard(board)
    BY <2>2, PictureParts DEF Focused
  <2> QED
    BY <1>1, <2>1, <2>3, OnBoardParts
<1>3. Title \notin Section /\ Title \notin Item
  BY TreeAssumption
<1>4. ASSUME DeleteItem PROVE IInv'
  <2>1. Edited(Without(board, Focused), RemovalFocus, view.zoom) /\ Focused # Title
    BY <1>3, <1>4 DEF DeleteItem
  <2>2. IsTree(Without(board, Focused))
    BY <1>1, <1>2, <2>1, WithoutTree
  <2> QED
    BY <1>1, <1>2, <2>1, <2>2, EditedKeeps
<1>5. ASSUME DeleteSection PROVE IInv'
  <2>1. Edited(Without(board, Focused), <<>>, Whole) /\ Focused # Title
    BY <1>3, <1>5 DEF DeleteSection
  <2>2. IsTree(Without(board, Focused))
    BY <1>1, <1>2, <2>1, WithoutTree
  <2> QED
    BY <1>1, <1>2, <2>1, <2>2, EditedKeeps
<1>6. ASSUME ArchiveItem PROVE IInv'
  <2>1. Edited(WithArchived(board, Focused), RemovalFocus, view.zoom) /\ Focused \in Item
    BY <1>6 DEF ArchiveItem
  <2>2. IsTree(WithArchived(board, Focused))
    BY <1>1, <1>2, <2>1, WithArchivedTree
  <2> QED
    BY <1>1, <1>2, <2>1, <2>2, EditedKeeps
<1>7. ASSUME ArchiveSection PROVE IInv'
  <2>1. Edited(WithSectionArchived(board, Focused), <<>>, view.zoom) /\ Focused \in Section \ {Archive}
    BY <1>7 DEF ArchiveSection
  <2>2. IsTree(WithSectionArchived(board, Focused))
    BY <1>1, <1>2, <2>1, WithSectionArchivedTree
  <2> QED
    BY <1>1, <1>2, <2>1, <2>2, EditedKeeps
<1>8. ASSUME EditText PROVE IInv'
  <2> DEFINE r == IF Focused \in board.reply THEN board.reply \ {Focused} ELSE board.reply \cup {Focused}
  <2>1. Edited([board EXCEPT !.reply = r], view.focus, view.zoom)
    BY <1>8 DEF EditText
  <2>2. r \in SUBSET Thing
    BY <1>1, <1>2, RowParts DEF BoardShape
  <2> HIDE DEF r
  <2>3. IsTree([board EXCEPT !.reply = r])
    BY <1>1, <2>2, RewordedTree
  <2> QED
    BY <1>1, <1>2, <2>1, <2>3, EditedKeeps
<1> QED
  BY <1>4, <1>5, <1>6, <1>7, <1>8

\* What is new, or named by another writer, is an item.
LEMMA NewParts == \A x \in New : x \in Item \ OnBoard(board)
BY DEF New

\* a and A.
LEMMA AddsKeep ==
  ASSUME IInv, NEW x \in New, AddChild(x) \/ AddSibling(x)
  PROVE  IInv'
<1>1. IsTree(board) /\ view.zoom \in Zooms /\ x \in Item \ OnBoard(board)
  BY NewParts DEF IInv
<1>2. inMap /\ Focused \in OnBoard(board) \ {Title}
  <2>1. inMap /\ Focused # Title
    BY DEF AddChild, AddSibling
  <2>2. InPicture
    BY <2>1 DEF IInv, InPicture
  <2> QED
    BY <2>1, <2>2, PictureParts DEF Focused
<1>3. ASSUME NEW p \in OnBoard(board) \ {Title}, Edited(Added(p, x), view.focus, view.zoom) PROVE IInv'
  <2> DEFINE reply == p \in Item
  <2>1. reply \in BOOLEAN
    OBVIOUS
  <2>2. Added(p, x) = WithItem(board, p, x, reply)
    BY DEF Added
  <2> HIDE DEF reply
  <2>3. IsTree(Added(p, x))
    BY <1>1, <2>1, <2>2, WithItemTree
  <2> QED
    BY <1>1, <1>2, <1>3, <2>3, EditedKeeps
<1>4. CASE AddChild(x)
  BY <1>2, <1>3, <1>4 DEF AddChild
<1>5. CASE AddSibling(x)
  <2> DEFINE p == IF Focused \in Item /\ view.focus # Root THEN Parent(board, Focused) ELSE SectionOf(board, Focused)
  <2>1. Edited(Added(p, x), view.focus, view.zoom)
    BY <1>5, Zenon DEF AddSibling
  <2>2. Title \notin Section /\ Section \cap Item = {}
    BY TreeAssumption
  <2>3. SectionOf(board, Focused) \in OnBoard(board) \ {Title}
    BY <1>1, <1>2, <2>2, SectionParts
  <2>4. Focused \in Item => Parent(board, Focused) \in OnBoard(board) \ {Title}
    BY <1>1, <1>2, <2>2, ParentParts
  <2>5. p \in OnBoard(board) \ {Title}
    BY <2>3, <2>4
  <2> HIDE DEF p
  <2> QED
    BY <1>3, <2>1, <2>5
<1> QED
  BY <1>4, <1>5

\* a on the title.
LEMMA AddSectionKeeps ==
  ASSUME IInv, NEW s \in Section, AddSection(s)
  PROVE  IInv'
<1>1. IsTree(board) /\ view.zoom \in Zooms
  BY DEF IInv
<1>2. inMap /\ Edited(WithSection(board, s), view.focus, view.zoom)
  BY DEF AddSection
<1>3. IsTree(WithSection(board, s))
  BY <1>1, WithSectionTree
<1> QED
  BY <1>1, <1>2, <1>3, EditedKeeps

\* Whatever another writer does to a tree leaves a tree.
LEMMA OutsideTree ==
  ASSUME NEW b, IsTree(b), NEW x \in Item, NEW c \in OutsideEdits(b, x)
  PROVE  IsTree(c)
<1> DEFINE P == IF x \in OnBoard(b) THEN {} ELSE {s \in Section : s \in OnBoard(b)}
<1>1. \/ c = Numbered(b)
      \/ \E s \in P : c = [b EXCEPT !.kids[s] = <<x>> \o @]
      \/ x \in OnBoard(b) /\ c = Numbered(Without(b, x))
      \/ x \in OnBoard(b) /\ c = Numbered(WithArchived(b, x))
  BY DEF OutsideEdits
<1>2. x # Title
  BY TreeAssumption
<1>3. CASE c = Numbered(b)
  BY <1>3, NumberedTree
<1>4. CASE \E s \in P : c = [b EXCEPT !.kids[s] = <<x>> \o @]
  <2>1. PICK s \in P : c = [b EXCEPT !.kids[s] = <<x>> \o @]
    BY <1>4
  <2>2. s \in Section \cap OnBoard(b) /\ x \in Item \ OnBoard(b)
    OBVIOUS
  <2> QED
    BY <2>1, <2>2, ToppedTree
<1>5. CASE x \in OnBoard(b) /\ c = Numbered(Without(b, x))
  <2>1. IsTree(Without(b, x))
    BY <1>2, <1>5, WithoutTree
  <2> QED
    BY <1>5, <2>1, NumberedTree
<1>6. CASE x \in OnBoard(b) /\ c = Numbered(WithArchived(b, x))
  <2>1. IsTree(WithArchived(b, x))
    BY <1>6, WithArchivedTree
  <2> QED
    BY <1>6, <2>1, NumberedTree
<1> QED
  BY <1>1, <1>3, <1>4, <1>5, <1>6

\* A change by another writer, in either view.
LEMMA ReloadKeeps ==
  ASSUME IInv, NEW x \in New \cup (Item \cap OnBoard(board)), Reload(x)
  PROVE  IInv'
<1>1. IsTree(board) /\ view.zoom \in Zooms /\ x \in Item
  BY NewParts DEF IInv
<1>2. PICK b \in OutsideEdits(board, x) :
        IF inMap THEN Edited(b, view.focus, view.zoom)
        ELSE Writes(b) /\ cursor' \in OnBoard(b) \ {Title} /\ UNCHANGED view
  BY DEF Reload
<1>3. IsTree(b)
  BY <1>1, OutsideTree
<1>4. CASE inMap
  BY <1>1, <1>2, <1>3, <1>4, EditedKeeps
<1>5. CASE ~inMap
  <2>1. board' = b /\ UNCHANGED <<fold, foldPrev, showLog, view>> /\ cursor' \in OnBoard(b) \ {Title}
    BY <1>2, <1>5 DEF Writes, folds
  <2>2. cursor' # Nothing
    BY <1>3, <2>1, OnBoardParts
  <2> QED
    BY <1>3, <1>5, <2>1, <2>2 DEF IInv, inMap
<1> QED
  BY <1>4, <1>5

-----------------------------------------------------------------------------
(* Going back and forth keeps it.                                          *)

\* m, to the map.
LEMMA EnterMapKeeps ==
  ASSUME IInv, EnterMap
  PROVE  IInv'
<1> DEFINE k == KeyOf(board, cursor)
           zoom == IF IsPrefix(view.zoom.key, k) THEN view.zoom ELSE Whole
<1>1. /\ cursor' = Nothing /\ fold' = Revealed(board, fold, k)
      /\ view' = Built(board, fold', showLog, tall, k, zoom)
      /\ UNCHANGED <<board, foldPrev, showLog, tall>>
  BY DEF EnterMap
<1>2. IsTree(board) /\ Folds(fold) /\ zoom \in Zooms
  BY RekeyedOnce DEF IInv
<1> HIDE DEF k, zoom
<1>3. Folds(fold')
  BY <1>1, <1>2, FoldsMade
<1>4. Picture(board, fold', showLog, view') /\ view'.zoom \in Zooms /\ "focus" \in DOMAIN view'
  BY <1>1, <1>2, BuiltParts
<1> QED
  BY <1>1, <1>3, <1>4 DEF IInv, inMap

\* m, to the outline.
LEMMA ExitMapKeeps ==
  ASSUME IInv, NEW x \in OnBoard(board) \ {Title}, ExitMap(x)
  PROVE  IInv'
<1>1. cursor' = x /\ view' = Stored(view.zoom) /\ UNCHANGED <<board, fold, foldPrev, showLog>>
  BY DEF ExitMap, folds
<1>2. x # Nothing
  BY OnBoardParts DEF IInv
<1>3. view'.zoom = view.zoom /\ "focus" \in DOMAIN view' /\ DOMAIN view'.side = {}
  BY <1>1 DEF Stored
<1> QED
  BY <1>1, <1>2, <1>3 DEF IInv, inMap

\* A jump from search.
LEMMA JumpKeeps ==
  ASSUME IInv, NEW x, Jump(x)
  PROVE  IInv'
<1> DEFINE k == KeyOf(board, x)
           zoom == IF IsPrefix(Root, k) THEN view.zoom ELSE [view.zoom EXCEPT !.key = <<>>]
           f == Revealed(board, fold, k)
           v == Built(board, f, showLog, tall, k, zoom)
<1>1. Refold(f, v)
  BY Zenon DEF Jump
<1>2. <<>> \in Seq(Nat)
  OBVIOUS
<1>3. IsTree(board) /\ Folds(fold) /\ zoom \in Zooms
  BY <1>2 DEF IInv, Zooms
<1> HIDE DEF k, zoom
<1>4. Folds(f)
  BY <1>3, FoldsMade
<1> HIDE DEF f, v
<1>5. Picture(board, f, showLog, v) /\ v.zoom \in Zooms /\ "focus" \in DOMAIN v
  BY <1>3, BuiltParts DEF v
<1> QED
  BY <1>1, <1>4, <1>5, RefoldKeeps

-----------------------------------------------------------------------------

\* The start.
LEMMA InitHolds ==
  ASSUME Init
  PROVE  IInv
<1>1. IsTree(board)
  BY ViewAssumption DEF Init
<1>2. Folds(fold)
  BY DEF Init, Folds
<1>3. view.zoom = Whole /\ "focus" \in DOMAIN view /\ DOMAIN view.side = {}
  BY DEF Init, Stored
<1>4. cursor # Nothing
  BY <1>1, OnBoardParts DEF Init
<1>5. Whole \in Zooms
  BY DEF Whole, Zooms
<1> QED
  BY <1>1, <1>2, <1>3, <1>4, <1>5 DEF Init, IInv, inMap

\* Every step.
LEMMA NextKeeps ==
  ASSUME IInv, [Next]_vars
  PROVE  IInv'
<1>1. ASSUME NEW d \in {-1, 1}, \/ Vertical(d) \/ CenterVertical(d) \/ Descend(d) \/ Ascend(d)
                                \/ ExpandInto(d) \/ CycleSection(d)
      PROVE  IInv'
  BY <1>1, VerticalKeeps, CenterVerticalKeeps, DescendKeeps, AscendKeeps, ExpandIntoKeeps, CycleSectionKeeps
<1>2. ASSUME NEW last \in BOOLEAN, SiblingEnd(last) PROVE IInv'
  BY <1>2, SiblingEndKeeps
<1>3. ASSUME NEW i \in DOMAIN board.kids[Title], JumpToSection(i) PROVE IInv'
  BY <1>3, JumpToSectionKeeps
<1>4. ASSUME ToggleFold \/ FocusFold \/ FocusUnfold \/ ToggleTall \/ ToggleLog \/ FocusIn \/ FocusOut PROVE IInv'
  BY <1>4, ToggleFoldKeeps, LooksKeep, FocusInKeeps
<1>5. ASSUME DeleteItem \/ DeleteSection \/ ArchiveItem \/ ArchiveSection \/ EditText PROVE IInv'
  BY <1>5, EditsKeep
<1>6. ASSUME NEW x \in New, AddChild(x) \/ AddSibling(x) PROVE IInv'
  BY <1>6, AddsKeep
<1>7. ASSUME NEW s \in Section \ OnBoard(board), AddSection(s) PROVE IInv'
  BY <1>7, AddSectionKeeps
<1>8. ASSUME NEW x \in New \cup (Item \cap OnBoard(board)), Reload(x) PROVE IInv'
  BY <1>8, ReloadKeeps
<1>9. ASSUME EnterMap PROVE IInv'
  BY <1>9, EnterMapKeeps
<1>10. ASSUME NEW x \in OnBoard(board) \ {Title}, ExitMap(x) PROVE IInv'
  BY <1>10, ExitMapKeeps
<1>11. ASSUME NEW x \in OnBoard(board) \cap Item, Jump(x) PROVE IInv'
  BY <1>11, JumpKeeps
<1>12. ASSUME UNCHANGED vars PROVE IInv'
  BY <1>12 DEF vars, folds, IInv, inMap
<1>13. CASE Next
  BY <1>13, <1>1, <1>2, <1>3, <1>4, <1>5, <1>6, <1>7, <1>8, <1>9, <1>10, <1>11, Zenon DEF Next
<1> QED
  BY <1>12, <1>13

\* Every map that is shown was built from the board, the folds and the zoom of now
\* (ensureMap after every key, reload and repaint), and the board is a tree.
LEMMA Invariant == Spec => []IInv
<1>1. Init => IInv
  BY InitHolds
<1>2. IInv /\ [Next]_vars => IInv'
  BY NextKeeps
<1> QED
  BY <1>1, <1>2, PTL DEF Spec

\* The focus and the zoom's root are always in the picture, each key there leads
\* to something on the board, and folds are folds: no edit, reload, fold or zoom
\* leaves mapFocusKey or mapFocusRoot behind (ensureMap).
THEOREM ViewTypes == Spec => []TypeOK
<1>1. IInv => TypeOK
  <2> SUFFICES ASSUME IInv PROVE TypeOK
    OBVIOUS
  <2>1. CASE inMap
    <3>1. InPicture
      BY <2>1 DEF IInv, InPicture
    <3>2. view.focus \in Drawn /\ Root \in Drawn /\ Drawn \subseteq DOMAIN view.kids
          /\ \A k \in DOMAIN view.kids : ThingAt(board, k) # Nothing
      BY <3>1, PictureParts
    <3>3. \A k \in DOMAIN fold : FoldAt(fold, k) \in {"collapsed", "expanded"}
      BY DEF IInv, Folds, FoldAt
    <3> QED
      BY <3>2, <3>3 DEF TypeOK, Drawn
  <2>2. CASE ~inMap
    <3>1. DOMAIN view.side = {} /\ Folds(fold)
      BY <2>2 DEF IInv
    <3>2. \A k \in DOMAIN fold : FoldAt(fold, k) \in {"collapsed", "expanded"}
      BY <3>1 DEF Folds, FoldAt
    <3> QED
      BY <2>2, <3>1, <3>2 DEF TypeOK
  <2> QED
    BY <2>1, <2>2
<1> QED
  BY <1>1, Invariant, PTL

\* Whatever is in the picture can be reached from its center with h, j, k and l
\* (mapVertical, centerVertical, mapLateral), for any board, folds, zoom and
\* whatever mapChildMem remembers.
THEOREM EverythingReachable == Spec => []AllReachable
<1>1. IInv => AllReachable
  <2> SUFFICES ASSUME IInv PROVE AllReachable
    OBVIOUS
  <2>1. CASE inMap
    BY <2>1, AllNear DEF IInv, InPicture
  <2>2. CASE ~inMap
    BY <2>2, Zenon DEF AllReachable
  <2> QED
    BY <2>1, <2>2
<1> QED
  BY <1>1, Invariant, PTL

-----------------------------------------------------------------------------
(* The map opens where the outline was.                                    *)

\* Shown, said of the steps of one key.
LEMMA ShownIs ==
  ASSUME NEW b, IsTree(b), NEW f, NEW log, NEW k \in Seq(Nat), ThingAt(b, k) # Nothing,
         \A n \in 1 .. Len(k) : Emits(b, f, log, ThingAt(b, SubSeq(k, 1, n - 1)), SubSeq(k, 1, n - 1),
                                      ThingAt(b, SubSeq(k, 1, n)))
  PROVE  k \in Shown(b, f, log)
<1>1. k \in {KeyOf(b, x) : x \in OnBoard(b)}
  BY KeysLead
<1> QED
  BY <1>1, Zenon DEF Shown

\* A way down a key, step by step.
LEMMA WayDown ==
  ASSUME NEW b, IsTree(b), NEW k \in Seq(Nat), NEW n \in 1 .. Len(k)
  PROVE  /\ SubSeq(k, 1, n - 1) \in Seq(Nat) /\ Len(SubSeq(k, 1, n - 1)) = n - 1
         /\ SubSeq(k, 1, n) \in Seq(Nat) /\ Len(SubSeq(k, 1, n)) = n
         /\ ThingAt(b, SubSeq(k, 1, n - 1)) = Title => n = 1
         /\ SubSeq(k, 1, n - 1) \in {SubSeq(k, 1, m) : m \in 0 .. Len(k) - 1}
<1>1. Len(k) \in Nat /\ n \in 0 .. Len(k) /\ n - 1 \in 0 .. Len(k) /\ n - 1 \in 0 .. Len(k) - 1 /\ n \in Nat
  BY SeqParts
<1> DEFINE m == SubSeq(k, 1, n - 1)
<1>2. /\ m \in Seq(Nat) /\ Len(m) = n - 1
      /\ SubSeq(k, 1, n) \in Seq(Nat) /\ Len(SubSeq(k, 1, n)) = n
  BY <1>1, CutParts
<1>3. m \in {SubSeq(k, 1, i) : i \in 0 .. Len(k) - 1}
  BY <1>1
<1> HIDE DEF m
<1>4. ThingAt(b, m) = Title => n = 1
  <2>1. Title # Nothing
    BY OnBoardParts
  <2>2. ThingAt(b, m) = Title => m = <<>>
    BY <1>2, <2>1, ThingAtOnBoard
  <2>3. m = <<>> => Len(m) = 0
    OBVIOUS
  <2> QED
    BY <1>1, <1>2, <2>2, <2>3
<1> QED
  BY <1>2, <1>3, <1>4 DEF m

\* What is revealed is shown, but for a log that is hidden.
LEMMA RevealedShown ==
  ASSUME NEW b, IsTree(b), NEW f, NEW log, NEW x \in OnBoard(b) \ {Title},
         SectionOf(b, x) # Log \/ log
  PROVE  KeyOf(b, x) \in Shown(b, Revealed(b, f, KeyOf(b, x)), log)
<1> DEFINE k == KeyOf(b, x)
           ups == {SubSeq(k, 1, n) : n \in 0 .. Len(k) - 1}
           replied == {m \in ups : ThingAt(b, SubSeq(k, 1, Len(m) + 1)) \in b.reply}
           opened == {m \in ups \ replied : FoldAt(f, m) = "collapsed"}
           g == [m \in (DOMAIN f \cup replied) \ opened |-> IF m \in replied THEN "expanded" ELSE f[m]]
<1>1. k \in Seq(Nat) /\ ThingAt(b, k) = x /\ x # Nothing /\ SectionOf(b, x) = ThingAt(b, SubSeq(k, 1, 1))
  BY KeyOfPlace, SectionParts, OnBoardParts
<1>2. Revealed(b, f, k) = g
  BY Zenon DEF Revealed
<1> HIDE DEF k
<1>3. ASSUME NEW n \in 1 .. Len(k)
      PROVE  Emits(b, g, log, ThingAt(b, SubSeq(k, 1, n - 1)), SubSeq(k, 1, n - 1), ThingAt(b, SubSeq(k, 1, n)))
  <2> DEFINE m == SubSeq(k, 1, n - 1)
             c == ThingAt(b, SubSeq(k, 1, n))
  <2>0. n \in Nat
    BY <1>1, SeqParts
  <2>1. m \in Seq(Nat) /\ Len(m) = n - 1 /\ (ThingAt(b, m) = Title => n = 1) /\ m \in ups
    <3>1. /\ SubSeq(k, 1, n - 1) \in Seq(Nat) /\ Len(SubSeq(k, 1, n - 1)) = n - 1
          /\ ThingAt(b, SubSeq(k, 1, n - 1)) = Title => n = 1
      BY <1>1, WayDown
    <3>2. SubSeq(k, 1, n - 1) \in {SubSeq(k, 1, i) : i \in 0 .. Len(k) - 1}
      BY <1>1, WayDown
    <3> QED
      BY <3>1, <3>2
  <2>2. Len(m) + 1 = n
    BY <2>0, <2>1
  <2> HIDE DEF m
  <2>3. m \in replied <=> c \in b.reply
    BY <2>1, <2>2
  <2> HIDE DEF c, ups
  <2>4. ASSUME ThingAt(b, m) = Title PROVE Emits(b, g, log, ThingAt(b, m), m, c)
    <3>1. c = SectionOf(b, x)
      BY <1>1, <2>1, <2>4 DEF c
    <3> QED
      BY <2>4, <3>1 DEF Emits
  <2>5. ASSUME ThingAt(b, m) # Title PROVE Emits(b, g, log, ThingAt(b, m), m, c)
    <3>1. CASE m \in replied
      <4>1. m \in DOMAIN g /\ g[m] = "expanded"
        BY <3>1
      <4>2. FoldAt(g, m) = "expanded"
        BY <4>1 DEF FoldAt
      <4> QED
        BY <2>5, <4>2 DEF Emits
    <3>2. CASE m \notin replied
      <4>1. FoldAt(g, m) # "collapsed"
        <5>1. CASE m \in opened
          BY <5>1 DEF FoldAt
        <5>2. CASE m \notin opened
          <6>1. FoldAt(f, m) # "collapsed"
            BY <2>1, <3>2, <5>2
          <6>2. FoldAt(g, m) = FoldAt(f, m)
            BY <3>2, <5>2 DEF FoldAt
          <6> QED
            BY <6>1, <6>2
        <5> QED
          BY <5>1, <5>2
      <4> QED
        BY <2>3, <2>5, <3>2, <4>1 DEF Emits
    <3> QED
      BY <3>1, <3>2
  <2> QED
    BY <2>4, <2>5 DEF m, c
<1>4. k \in Shown(b, g, log)
  <2> HIDE DEF g
  <2> QED
    BY <1>1, <1>3, ShownIs
<1> QED
  BY <1>2, <1>4 DEF k

\* A focus that is shown, below a zoom that need not move, is kept.
LEMMA FocusKept ==
  ASSUME NEW b, IsTree(b), NEW f, NEW log, NEW wrapped, NEW k \in Shown(b, f, log), NEW zoom \in Zooms,
         Rekeyed(b, zoom) = zoom, IsPrefix(zoom.key, k),
         NEW v, v = Built(b, f, log, wrapped, k, zoom)
  PROVE  v.focus = k /\ v.zoom = zoom /\ k \in DOMAIN v.side /\ Picture(b, f, log, v)
<1>1. k \in Seq(Nat) /\ zoom.key \in Seq(Nat)
  BY ShownSteps DEF Zooms
<1>2. zoom.key \in Shown(b, f, log)
  BY <1>1, PrefixShown
<1>3. /\ Picture(b, f, log, v) /\ v.zoom = zoom
      /\ v.focus = IF k \in DOMAIN v.side THEN k ELSE v.zoom.key
  BY <1>2, BuiltParts
<1>4. k \in DOMAIN v.side
  <2>1. v.kids = Rows(b, f, log) /\ v.side = SideOf(v.kids, zoom.key)
    BY <1>3 DEF Picture
  <2>2. Hung(Shown(b, f, log), v.kids, zoom.key, v.side)
    BY <1>2, <2>1, SideParts
  <2> QED
    BY <2>2 DEF Hung
<1> QED
  BY <1>3, <1>4

\* m finds the item the outline's cursor was on.
LEMMA OpensOnCursor ==
  ASSUME IInv, EnterMap, ~inMap, SectionOf(board, cursor) # Log \/ showLog,
         Rekeyed(board, view.zoom) = view.zoom
  PROVE  ThingAt(board, view'.focus) = cursor
<1> DEFINE k == KeyOf(board, cursor)
           zoom == IF IsPrefix(view.zoom.key, k) THEN view.zoom ELSE Whole
<1>1. /\ fold' = Revealed(board, fold, k)
      /\ view' = Built(board, fold', showLog, tall, k, zoom)
  BY DEF EnterMap
<1>2. IsTree(board) /\ cursor \in OnBoard(board) \ {Title} /\ view.zoom \in Zooms
  BY DEF IInv, inMap
<1>3. k \in Seq(Nat) /\ ThingAt(board, k) = cursor
  BY <1>2, KeyOfPlace
<1>4. k \in Shown(board, fold', showLog)
  BY <1>1, <1>2, RevealedShown
<1> HIDE DEF k
<1>5. zoom \in Zooms /\ Rekeyed(board, zoom) = zoom /\ IsPrefix(zoom.key, k)
  BY <1>2, <1>3, RekeyedOnce, PrefixParts DEF Whole
<1> HIDE DEF zoom
<1>6. view'.focus = k
  BY <1>1, <1>2, <1>4, <1>5, FocusKept
<1> QED
  BY <1>3, <1>6

\* Only m leads from the outline to the map.
LEMMA OnlyEnterMap ==
  ASSUME IInv, [Next]_vars, ~inMap, inMap'
  PROVE  EnterMap
<1>1. ~UNCHANGED cursor
  BY DEF inMap
<1>2. ASSUME NEW b, NEW k, NEW zoom, Edited(b, k, zoom) PROVE FALSE
  BY <1>1, <1>2 DEF Edited
<1>3. ASSUME NEW x \in New \cup (Item \cap OnBoard(board)), Reload(x) PROVE FALSE
  <2>1. PICK b \in OutsideEdits(board, x) : cursor' \in OnBoard(b) \ {Title}
    BY <1>3 DEF Reload
  <2>2. IsTree(b)
    <3>1. x \in Item
      BY NewParts
    <3> QED
      BY <3>1, OutsideTree DEF IInv
  <2> QED
    BY <2>1, <2>2, OnBoardParts DEF inMap
<1>4. ASSUME NEW d, \/ Vertical(d) \/ CenterVertical(d) \/ Descend(d) \/ Ascend(d)
                    \/ ExpandInto(d) \/ CycleSection(d) \/ SiblingEnd(d) \/ JumpToSection(d)
      PROVE  FALSE
  BY <1>4 DEF Vertical, CenterVertical, Descend, Ascend, ExpandInto, CycleSection, SiblingEnd, JumpToSection
<1>5. ASSUME ToggleFold \/ FocusFold \/ FocusUnfold \/ ToggleTall \/ ToggleLog \/ FocusIn \/ FocusOut PROVE FALSE
  BY <1>5 DEF ToggleFold, FocusFold, FocusUnfold, ToggleTall, ToggleLog, FocusIn, FocusOut, Refold, Looks
<1>6. ASSUME DeleteItem \/ DeleteSection \/ ArchiveItem \/ ArchiveSection \/ EditText PROVE FALSE
  BY <1>6 DEF DeleteItem, DeleteSection, ArchiveItem, ArchiveSection, EditText
<1>7. ASSUME NEW x, AddChild(x) \/ AddSibling(x) \/ AddSection(x) \/ ExitMap(x) \/ Jump(x) PROVE FALSE
  BY <1>7 DEF AddChild, AddSibling, AddSection, ExitMap, Jump
<1>8. Next
  BY <1>1 DEF vars
<1> QED
  BY <1>3, <1>4, <1>5, <1>6, <1>7, <1>8, Zenon DEF Next

\* m in the outline (enterMap) focuses what the cursor was on, whatever was folded
\* on the way to it, but in a hidden log or when the zoom's root has moved.
THEOREM OpensOnTheCursor == Spec => MapOpensOnCursor
<1>1. IInv /\ [Next]_vars =>
        [/\ ~inMap /\ inMap'
         /\ SectionOf(board, cursor) # Log \/ showLog
         /\ Rekeyed(board, view.zoom) = view.zoom
         => ThingAt(board, view'.focus) = cursor]_vars
  BY OnlyEnterMap, OpensOnCursor
<1> QED
  BY <1>1, Invariant, PTL DEF Spec, MapOpensOnCursor

-----------------------------------------------------------------------------
(* z keeps the place.                                                      *)

\* Beginning alike, said of the steps.
LEMMA PrefixIs ==
  ASSUME NEW r \in Seq(Nat), NEW k \in Seq(Nat)
  PROVE  IsPrefix(r, k) <=> Len(r) <= Len(k) /\ \A j \in 1 .. Len(r) : r[j] = k[j]
<1>1. Len(r) \in Nat /\ Len(k) \in Nat /\ SubSeq(r, 1, Len(r)) = r
  BY SeqParts, StepsOfKey
<1>2. CASE Len(r) <= Len(k)
  <2> DEFINE c == SubSeq(k, 1, Len(r))
  <2>1. c \in Seq(Nat) /\ Len(c) = Len(r) /\ \A j \in 1 .. Len(r) : c[j] = k[j]
    BY <1>1, <1>2, CutParts
  <2>2. IsPrefix(r, k) <=> r = c
    BY <1>1, <1>2 DEF IsPrefix
  <2> HIDE DEF c
  <2>3. (\A j \in 1 .. Len(r) : r[j] = c[j]) => r = c
    BY <2>1, SeqEqual
  <2> QED
    BY <1>2, <2>1, <2>2, <2>3
<1>3. CASE ~(Len(r) <= Len(k))
  BY <1>3 DEF IsPrefix
<1> QED
  BY <1>2, <1>3

\* Of two keys that begin a third, one begins the other.
LEMMA PrefixesMeet ==
  ASSUME NEW r \in Seq(Nat), NEW k \in Seq(Nat), NEW m \in Seq(Nat), NEW i \in Nat
  PROVE  /\ IsPrefix(Append(m, i), k) => IsPrefix(m, k)
         /\ IsPrefix(Append(m, i), k) /\ IsPrefix(r, k) => IsPrefix(r, m) \/ IsPrefix(Append(m, i), r)
         /\ IsPrefix(r, k) /\ IsPrefix(k, m) => IsPrefix(r, m)
         /\ IsPrefix(r, k) /\ Len(r) = Len(k) => r = k
<1> DEFINE l == Append(m, i)
<1>1. /\ l \in Seq(Nat) /\ Len(l) = Len(m) + 1 /\ Len(m) \in Nat /\ Len(r) \in Nat /\ Len(k) \in Nat
      /\ \A j \in 1 .. Len(m) : l[j] = m[j]
  BY AppendParts, SeqParts, StepsOfKey
<1> HIDE DEF l
<1>2. /\ IsPrefix(l, k) <=> Len(l) <= Len(k) /\ \A j \in 1 .. Len(l) : l[j] = k[j]
      /\ IsPrefix(m, k) <=> Len(m) <= Len(k) /\ \A j \in 1 .. Len(m) : m[j] = k[j]
      /\ IsPrefix(r, k) <=> Len(r) <= Len(k) /\ \A j \in 1 .. Len(r) : r[j] = k[j]
      /\ IsPrefix(r, m) <=> Len(r) <= Len(m) /\ \A j \in 1 .. Len(r) : r[j] = m[j]
      /\ IsPrefix(k, m) <=> Len(k) <= Len(m) /\ \A j \in 1 .. Len(k) : k[j] = m[j]
      /\ IsPrefix(l, r) <=> Len(l) <= Len(r) /\ \A j \in 1 .. Len(l) : l[j] = r[j]
  BY <1>1, PrefixIs
<1>3. ASSUME IsPrefix(l, k) PROVE IsPrefix(m, k)
  <2>1. Len(l) <= Len(k) /\ \A j \in 1 .. Len(l) : l[j] = k[j]
    BY <1>2, <1>3
  <2>2. ASSUME NEW j \in 1 .. Len(m) PROVE m[j] = k[j]
    <3>1. j \in 1 .. Len(l)
      BY <1>1
    <3> QED
      BY <1>1, <2>1, <3>1
  <2>3. Len(m) <= Len(k)
    BY <1>1, <2>1
  <2> QED
    BY <1>2, <2>2, <2>3
<1>4. ASSUME IsPrefix(l, k), IsPrefix(r, k) PROVE IsPrefix(r, m) \/ IsPrefix(l, r)
  <2>1. /\ Len(l) <= Len(k) /\ \A j \in 1 .. Len(l) : l[j] = k[j]
        /\ Len(r) <= Len(k) /\ \A j \in 1 .. Len(r) : r[j] = k[j]
    BY <1>2, <1>4
  <2>2. CASE Len(r) <= Len(m)
    <3>1. ASSUME NEW j \in 1 .. Len(r) PROVE r[j] = m[j]
      <4>1. Len(m) \in Nat /\ Len(r) \in Nat /\ Len(l) = Len(m) + 1
        BY <1>1
      <4>2. j \in 1 .. Len(m) /\ j \in 1 .. Len(l)
        BY <2>2, <4>1
      <4> QED
        BY <1>1, <2>1, <4>2
    <3> QED
      BY <1>2, <2>2, <3>1
  <2>3. CASE Len(l) <= Len(r)
    <3>1. ASSUME NEW j \in 1 .. Len(l) PROVE l[j] = r[j]
      <4>1. j \in 1 .. Len(r)
        BY <1>1, <2>3
      <4> QED
        BY <2>1, <4>1
    <3> QED
      BY <1>2, <2>3, <3>1
  <2> QED
    BY <1>1, <2>2, <2>3
<1>5. IsPrefix(r, k) /\ IsPrefix(k, m) => IsPrefix(r, m)
  BY <1>1, <1>2
<1>6. IsPrefix(r, k) /\ Len(r) = Len(k) => r = k
  BY <1>1, <1>2, SeqEqual
<1> QED
  BY <1>3, <1>4, <1>5, <1>6 DEF l

\* The folds that z makes.
LEMMA WayFolds ==
  ASSUME NEW b, IsTree(b), NEW r \in Seq(Nat), NEW k \in Seq(Nat), NEW f, f = OnlyTheWay(b, r, k),
         NEW m \in Seq(Nat), ThingAt(b, m) # Nothing, ThingAt(b, m) # Title
  PROVE  FoldAt(f, m) = IF b.kids[ThingAt(b, m)] = <<>> \/ ~IsPrefix(r, m) THEN "default"
                        ELSE IF IsPrefix(m, k) THEN "expanded" ELSE "collapsed"
<1> DEFINE at(x) == KeyOf(b, x)
           some == {x \in OnBoard(b) \ {Title} : b.kids[x] # <<>> /\ IsPrefix(r, at(x))}
<1>1. f = [l \in {at(x) : x \in some} |-> IF IsPrefix(l, k) /\ IsPrefix(r, l) THEN "expanded" ELSE "collapsed"]
  BY Zenon DEF OnlyTheWay
<1> DEFINE x == ThingAt(b, m)
<1>2. x \in OnBoard(b) \ {Title} /\ at(x) = m
  BY ThingAtOnBoard, KeysLead
<1>3. \A y \in some : at(y) = m => y = x
  BY KeyOfPlace
<1>4. DOMAIN f = {at(y) : y \in some}
  BY <1>1
<1> HIDE DEF x
<1>5. m \in DOMAIN f <=> b.kids[x] # <<>> /\ IsPrefix(r, m)
  BY <1>2, <1>3, <1>4
<1>6. m \in DOMAIN f => f[m] = IF IsPrefix(m, k) /\ IsPrefix(r, m) THEN "expanded" ELSE "collapsed"
  BY <1>1
<1> QED
  BY <1>5, <1>6 DEF FoldAt, x

\* What is shown on the way to the focus stays shown.
LEMMA WayStays ==
  ASSUME NEW b, IsTree(b), NEW f, NEW log, NEW k \in Shown(b, f, log), NEW r \in Seq(Nat), IsPrefix(r, k),
         \A n \in 1 .. Len(r) : ThingAt(b, SubSeq(r, 1, n)) \notin b.reply,
         NEW g, g = OnlyTheWay(b, r, k)
  PROVE  k \in Shown(b, g, log)
<1> DEFINE T == {m \in Seq(Nat) : m \in Shown(b, f, log) /\ IsPrefix(m, k) => m \in Shown(b, g, log)}
<1>1. k \in Seq(Nat)
  BY ShownSteps
<1>2. <<>> \in T
  <2>1. <<>> \in Seq(Nat)
    OBVIOUS
  <2> QED
    BY <2>1, ShownSteps
<1>3. ASSUME NEW m \in T, NEW i \in Nat PROVE Append(m, i) \in T
  <2> DEFINE l == Append(m, i)
  <2>1. m \in Seq(Nat) /\ l \in Seq(Nat) /\ Len(l) = Len(m) + 1 /\ Len(m) \in Nat
    BY StepsOfKey
  <2>2. SUFFICES ASSUME l \in Shown(b, f, log), IsPrefix(l, k) PROVE l \in Shown(b, g, log)
    BY <2>1
  <2>3. /\ m \in Shown(b, f, log) /\ ThingAt(b, m) # Nothing /\ ThingAt(b, l) # Nothing
        /\ Emits(b, f, log, ThingAt(b, m), m, ThingAt(b, l))
    BY <2>1, <2>2, ShownSteps
  <2>4. IsPrefix(m, k) /\ (IsPrefix(r, m) \/ IsPrefix(l, r))
    BY <1>1, <2>1, <2>2, PrefixesMeet
  <2>5. m \in Shown(b, g, log)
    BY <2>3, <2>4
  <2>6. b.kids[ThingAt(b, m)] # <<>>
    <3>1. Front(l) = m /\ l # <<>>
      BY <2>1, StepsOfKey DEF Above
    <3>2. Last(l) \in DOMAIN b.kids[ThingAt(b, m)]
      BY <2>1, <2>3, <3>1, ThingAtOnBoard
    <3> QED
      BY <3>2
  <2>7. ASSUME IsPrefix(l, r) PROVE ThingAt(b, l) \notin b.reply
    <3>1. Len(l) <= Len(r) /\ SubSeq(l, 1, Len(l)) = SubSeq(r, 1, Len(l))
      BY <2>7 DEF IsPrefix
    <3>2. SubSeq(l, 1, Len(l)) = l /\ Len(r) \in Nat
      BY <2>1, StepsOfKey
    <3>3. Len(l) \in 1 .. Len(r) /\ l = SubSeq(r, 1, Len(l))
      BY <2>1, <3>1, <3>2
    <3> QED
      BY <3>3
  <2> HIDE DEF l
  <2>8. Emits(b, g, log, ThingAt(b, m), m, ThingAt(b, l))
    <3>1. CASE ThingAt(b, m) = Title
      BY <2>3, <3>1 DEF Emits
    <3>2. CASE ThingAt(b, m) # Title
      <4>1. FoldAt(g, m) = IF ~IsPrefix(r, m) THEN "default" ELSE "expanded"
        BY <1>1, <2>1, <2>3, <2>4, <2>6, <3>2, WayFolds
      <4> QED
        BY <2>4, <2>7, <3>2, <4>1 DEF Emits
    <3> QED
      BY <3>1, <3>2
  <2> QED
    BY <2>1, <2>3, <2>5, <2>8, ShownSteps DEF l
<1> HIDE DEF T
<1>4. T = Seq(Nat)
  <2>1. T \in SUBSET Seq(Nat)
    BY DEF T
  <2> QED
    BY <1>2, <1>3, <2>1, KeyInduction
<1>5. IsPrefix(k, k)
  BY <1>1, PrefixParts
<1> QED
  BY <1>1, <1>4, <1>5 DEF T

\* Below k just its own children are shown.
OpensOneLevel(b, f, log, k) ==
  \A m : m \in Shown(b, f, log) /\ IsStrictPrefix(k, m)
           <=> \E i \in DOMAIN b.kids[ThingAt(b, k)] : m = Append(k, i)

\* z opens the focus by its own children, and they are closed.
LEMMA OneLevel ==
  ASSUME NEW b, IsTree(b), NEW log, NEW r \in Seq(Nat), NEW k \in Seq(Nat), IsPrefix(r, k), k # <<>>,
         NEW g, g = OnlyTheWay(b, r, k), k \in Shown(b, g, log)
  PROVE  OpensOneLevel(b, g, log, k)
<1> DEFINE S == Shown(b, g, log)
           x == ThingAt(b, k)
<1>1. x # Nothing /\ x # Title /\ x \in Thing
  BY ThingAtOnBoard, ShownSteps, ThingAtSteps
<1>2. \A i \in DOMAIN b.kids[x] : i \in Nat
  BY <1>1, TreeParts
<1>3. ASSUME NEW i \in DOMAIN b.kids[x] PROVE Append(k, i) \in S /\ IsStrictPrefix(k, Append(k, i))
  <2>1. i \in Nat /\ Append(k, i) \in Seq(Nat) /\ Append(k, i) # k /\ IsPrefix(k, k)
    BY <1>2, StepsOfKey, PrefixParts
  <2>2. IsStrictPrefix(k, Append(k, i))
    BY <2>1, PrefixParts DEF IsStrictPrefix
  <2>3. ThingAt(b, Append(k, i)) # Nothing
    <3>1. ThingAt(b, Append(k, i)) = StepTo(b, x, i)
      BY <2>1, ThingAtSteps
    <3>2. StepTo(b, x, i) = b.kids[x][i]
      BY <1>1 DEF StepTo
    <3>3. b.kids[x][i] \in Kids(b, x)
      BY <1>1, TreeParts
    <3> QED
      BY <1>1, <3>1, <3>2, <3>3, TreeParts, OnBoardParts
  <2>4. FoldAt(g, k) = "expanded"
    <3>1. b.kids[x] # <<>>
      OBVIOUS
    <3> QED
      BY <1>1, <2>1, <3>1, WayFolds
  <2>5. Emits(b, g, log, x, k, ThingAt(b, Append(k, i)))
    BY <1>1, <2>4 DEF Emits
  <2> QED
    BY <2>1, <2>2, <2>3, <2>5, ShownSteps
<1> DEFINE T == {m \in Seq(Nat) : m \in S /\ IsStrictPrefix(k, m) => \E i \in DOMAIN b.kids[x] : m = Append(k, i)}
<1>4. <<>> \in T
  <2>1. <<>> \in Seq(Nat) /\ ~IsPrefix(k, <<>>)
    BY PrefixParts
  <2> QED
    BY <2>1 DEF IsStrictPrefix
<1>5. ASSUME NEW m \in T, NEW j \in Nat PROVE Append(m, j) \in T
  <2> DEFINE l == Append(m, j)
  <2>1. m \in Seq(Nat) /\ l \in Seq(Nat) /\ l # <<>> /\ Above(l) = m
    BY SMTT(30), StepsOfKey
  <2>2. SUFFICES ASSUME l \in S, IsStrictPrefix(k, l)
                 PROVE  \E i \in DOMAIN b.kids[x] : l = Append(k, i)
    BY <2>1
  <2>3. m \in S /\ ThingAt(b, m) # Nothing /\ ThingAt(b, l) # Nothing /\ Emits(b, g, log, ThingAt(b, m), m, ThingAt(b, l))
    BY <2>1, <2>2, ShownSteps
  <2>4. j \in DOMAIN b.kids[ThingAt(b, m)]
    <3>1. ThingAt(b, l) = StepTo(b, ThingAt(b, m), j)
      BY <2>1, ThingAtSteps
    <3> QED
      BY <2>3, <3>1 DEF StepTo
  <2>5. IsPrefix(k, m)
    BY <2>1, <2>2, PrefixParts DEF IsStrictPrefix
  <2>6. CASE m = k
    BY <2>4, <2>6
  <2>7. CASE m # k
    <3>1. PICK i \in DOMAIN b.kids[x] : m = Append(k, i)
      BY <2>3, <2>5, <2>7 DEF IsStrictPrefix
    <3>2. IsPrefix(k, m) /\ IsPrefix(r, m) /\ i \in Nat
      BY <1>2, <2>1, <2>5, PrefixesMeet
    <3>3. ~IsPrefix(m, k) /\ m # <<>>
      <4>1. IsPrefix(k, k)
        BY PrefixParts
      <4>2. Len(m) = Len(k) + 1 /\ Len(k) \in Nat /\ m # <<>>
        BY <3>1, <3>2, StepsOfKey
      <4>3. ~(Len(m) <= Len(k))
        BY <4>2
      <4> QED
        BY <4>2, <4>3 DEF IsPrefix
    <3>4. ThingAt(b, m) # Title
      BY <2>1, <2>3, <3>3, ThingAtOnBoard
    <3>5. b.kids[ThingAt(b, m)] # <<>>
      BY <2>4
    <3>6. FoldAt(g, m) = "collapsed"
      BY <2>1, <2>3, <3>2, <3>3, <3>4, <3>5, WayFolds
    <3> QED
      BY <2>3, <3>4, <3>6 DEF Emits
  <2> QED
    BY <2>6, <2>7
<1> HIDE DEF T
<1>6. T = Seq(Nat)
  <2>1. T \in SUBSET Seq(Nat)
    BY DEF T
  <2> QED
    BY <1>4, <1>5, <2>1, KeyInduction
<1>7. ASSUME NEW m \in S, IsStrictPrefix(k, m) PROVE \E i \in DOMAIN b.kids[x] : m = Append(k, i)
  <2>1. m \in Seq(Nat)
    BY ShownSteps
  <2> QED
    BY <1>6, <1>7, <2>1 DEF T
<1> HIDE DEF S, x
<1>8. \A m : m \in S /\ IsStrictPrefix(k, m) <=> \E i \in DOMAIN b.kids[x] : m = Append(k, i)
  BY <1>3, <1>7
<1> QED
  BY <1>8 DEF S, x, OpensOneLevel

\* z keeps the focus and opens it by one level.
LEMMA FoldKeepsPlace ==
  ASSUME IInv, FocusFold, ~InThread(Root)
  PROVE  /\ view'.focus = view.focus
         /\ view.focus # Root => {k \in DOMAIN view'.kids : IsStrictPrefix(view.focus, k)}
              = {Append(view.focus, i) : i \in DOMAIN board.kids[Focused]}
<1>1. /\ inMap /\ fold' = OnlyTheWay(board, Root, view.focus) /\ foldPrev' = fold
      /\ view' = Built(board, fold', showLog, tall, view.focus, view.zoom)
  BY DEF FocusFold, Looks
<1>2. IsTree(board) /\ Picture(board, fold, showLog, view) /\ view.zoom \in Zooms /\ InPicture
  BY <1>1 DEF IInv, InPicture
<1>3. Rekeyed(board, view.zoom) = view.zoom /\ Root = view.zoom.key /\ Root \in Seq(Nat)
  BY <1>2 DEF Picture, Root, Zooms
<1>4. view.focus \in Shown(board, fold, showLog) /\ IsPrefix(Root, view.focus) /\ view.focus \in Seq(Nat)
  <2>1. /\ Hung(Shown(board, fold, showLog), view.kids, Root, view.side) /\ view.focus \in DOMAIN view.side
    BY <1>2, PictureParts DEF Drawn
  <2>2. view.focus \in Shown(board, fold, showLog) /\ IsPrefix(Root, view.focus)
    BY <2>1 DEF Hung
  <2> QED
    BY <1>2, <2>2, ShownSteps
<1>5. view.focus \in Shown(board, fold', showLog)
  <2>1. \A n \in 1 .. Len(Root) : ThingAt(board, SubSeq(Root, 1, n)) \notin board.reply
    BY DEF InThread
  <2> QED
    BY <1>1, <1>2, <1>3, <1>4, <2>1, WayStays
<1>6. view'.focus = view.focus /\ Picture(board, fold', showLog, view')
  BY <1>1, <1>2, <1>3, <1>4, <1>5, FocusKept
<1>7. DOMAIN view'.kids = Shown(board, fold', showLog)
  BY <1>6 DEF Picture, Rows
<1>8. ASSUME view.focus # Root
      PROVE  {k \in DOMAIN view'.kids : IsStrictPrefix(view.focus, k)}
              = {Append(view.focus, i) : i \in DOMAIN board.kids[Focused]}
  <2>1. view.focus # <<>>
    BY <1>3, <1>4, <1>8, PrefixParts
  <2>2. /\ IsTree(board) /\ Root \in Seq(Nat) /\ view.focus \in Seq(Nat) /\ IsPrefix(Root, view.focus)
        /\ fold' = OnlyTheWay(board, Root, view.focus) /\ view.focus \in Shown(board, fold', showLog)
    BY <1>1, <1>2, <1>3, <1>4, <1>5
  <2>3. OpensOneLevel(board, fold', showLog, view.focus)
    BY <2>1, <2>2, OneLevel
  <2> QED
    BY <1>7, <2>3 DEF Focused, OpensOneLevel
<1> QED
  BY <1>6, <1>8

\* z (mapFocusFoldToggle) keeps the focus where it is and leaves below it exactly
\* its own children, but for a zoom into a thread.
THEOREM FoldsAroundTheFocus == Spec => ZoomFoldKeepsPlace
<1>1. IInv /\ [Next]_vars =>
        [foldPrev' # foldPrev /\ FocusFold /\ ~InThread(Root) =>
           /\ view'.focus = view.focus
           /\ view.focus # Root => {k \in DOMAIN view'.kids : IsStrictPrefix(view.focus, k)}
                = {Append(view.focus, i) : i \in DOMAIN board.kids[Focused]}]_vars
  BY FoldKeepsPlace
<1> QED
  BY <1>1, Invariant, PTL DEF Spec, ZoomFoldKeepsPlace

-----------------------------------------------------------------------------
(* What takes a removed item's place.                                      *)

\* What is below a thing has a key that begins with the thing's.
LEMMA SubtreeKeys ==
  ASSUME NEW b, IsTree(b), NEW k \in Seq(Nat), ThingAt(b, k) # Nothing,
         NEW m \in Seq(Nat), ThingAt(b, m) \in Subtree(b, ThingAt(b, k))
  PROVE  IsPrefix(k, m)
<1> DEFINE x == ThingAt(b, k)
           S == {y \in Thing : \E l \in Seq(Nat) : ThingAt(b, l) = y /\ IsPrefix(k, l)}
<1>1. x \in Thing
  BY ThingAtSteps
<1>2. x \in S
  BY <1>1, PrefixParts
<1>3. ASSUME NEW y \in S, NEW c \in Kids(b, y) PROVE c \in S
  <2>1. PICK l \in Seq(Nat) : ThingAt(b, l) = y /\ IsPrefix(k, l)
    OBVIOUS
  <2>2. y \in Thing
    OBVIOUS
  <2>3. PICK i \in DOMAIN b.kids[y] : b.kids[y][i] = c
    BY <2>2, TreeParts
  <2>4. i \in Nat /\ c \in Thing
    <3>1. b.kids[y] \in Seq(Section \cup Item)
      BY <2>2, TreeParts
    <3>2. i \in Nat
      BY <3>1, SeqParts
    <3> QED
      BY <2>2, <3>2, OnBoardParts
  <2>5. ThingAt(b, Append(l, i)) = c
    BY <2>1, <2>2, <2>3, <2>4, ThingAtSteps, OnBoardParts DEF StepTo
  <2>6. Append(l, i) \in Seq(Nat) /\ IsPrefix(k, Append(l, i))
    BY <2>1, <2>4, StepsOfKey, PrefixParts
  <2> QED
    BY <2>4, <2>5, <2>6
<1>4. Subtree(b, x) \subseteq S
  <2>1. S \in SUBSET Thing /\ \A y \in S : Kids(b, y) \subseteq S
    BY <1>3
  <2> HIDE DEF S
  <2> QED
    BY <1>1, <1>2, <2>1, SubtreeParts
<1>5. PICK l \in Seq(Nat) : ThingAt(b, l) = ThingAt(b, m) /\ IsPrefix(k, l)
  BY <1>4
<1>6. ThingAt(b, m) # Nothing
  BY <1>1, SubtreeParts, OnBoardParts
<1> QED
  BY <1>5, <1>6, OnePlace

\* A change that no step on the way to p notices.
Unmoved(b, c, p) ==
  \A m \in Seq(Nat), n \in Nat :
    IsPrefix(Append(m, n), p) => StepTo(c, ThingAt(b, m), n) = StepTo(b, ThingAt(b, m), n)

\* Then the way to p leads through the same things.
LEMMA WayUnmoved ==
  ASSUME NEW b, IsTree(b), NEW c, IsTree(c), NEW p \in Seq(Nat), Unmoved(b, c, p),
         NEW k \in Seq(Nat), IsPrefix(k, p)
  PROVE  ThingAt(c, k) = ThingAt(b, k)
<1> DEFINE T == {m \in Seq(Nat) : IsPrefix(m, p) => ThingAt(c, m) = ThingAt(b, m)}
<1>1. <<>> \in T
  <2>1. <<>> \in Seq(Nat)
    OBVIOUS
  <2> QED
    BY <2>1, ThingAtSteps
<1>2. ASSUME NEW m \in T, NEW i \in Nat PROVE Append(m, i) \in T
  <2>1. Append(m, i) \in Seq(Nat) /\ m \in Seq(Nat)
    BY StepsOfKey
  <2>2. SUFFICES ASSUME IsPrefix(Append(m, i), p) PROVE ThingAt(c, Append(m, i)) = ThingAt(b, Append(m, i))
    BY <2>1
  <2>3. ThingAt(c, m) = ThingAt(b, m)
    BY <2>1, <2>2, PrefixesMeet
  <2>4. ThingAt(c, Append(m, i)) = StepTo(c, ThingAt(c, m), i) /\ ThingAt(b, Append(m, i)) = StepTo(b, ThingAt(b, m), i)
    BY <2>1, ThingAtSteps
  <2>5. StepTo(c, ThingAt(b, m), i) = StepTo(b, ThingAt(b, m), i)
    BY <2>1, <2>2 DEF Unmoved
  <2> QED
    BY <2>3, <2>4, <2>5
<1>3. T \in SUBSET Seq(Nat)
  OBVIOUS
<1> HIDE DEF T
<1>4. T = Seq(Nat)
  BY <1>1, <1>2, <1>3, KeyInduction
<1> QED
  BY <1>4 DEF T

\* A change that no step and no fold on the way to p notices.
LEMMA WayShown ==
  ASSUME NEW b, IsTree(b), NEW c, IsTree(c), NEW f, NEW log, NEW p \in Shown(b, f, log), Unmoved(b, c, p),
         \A m \in Seq(Nat) : IsPrefix(m, p) => (ThingAt(b, m) \in c.reply <=> ThingAt(b, m) \in b.reply)
  PROVE  p \in Shown(c, f, log)
<1> DEFINE T == {m \in Seq(Nat) : IsPrefix(m, p) => m \in Shown(c, f, log)}
<1>0. p \in Seq(Nat)
  BY ShownSteps
<1>1. <<>> \in T
  <2>1. <<>> \in Seq(Nat)
    OBVIOUS
  <2> QED
    BY <2>1, ShownSteps
<1>2. ASSUME NEW m \in T, NEW i \in Nat PROVE Append(m, i) \in T
  <2> DEFINE l == Append(m, i)
  <2>1. l \in Seq(Nat) /\ m \in Seq(Nat)
    BY StepsOfKey
  <2>2. SUFFICES ASSUME IsPrefix(l, p) PROVE l \in Shown(c, f, log)
    BY <2>1
  <2>3. IsPrefix(m, p)
    BY <1>0, <2>1, <2>2, PrefixesMeet
  <2>4. l \in Shown(b, f, log)
    BY <2>1, <2>2, PrefixShown
  <2>5. ThingAt(b, l) # Nothing /\ Emits(b, f, log, ThingAt(b, m), m, ThingAt(b, l))
    BY <2>1, <2>4, ShownSteps
  <2>6. ThingAt(c, m) = ThingAt(b, m) /\ ThingAt(c, l) = ThingAt(b, l)
    <3> HIDE DEF l
    <3>1. ThingAt(c, m) = ThingAt(b, m)
      BY <1>0, <2>1, <2>3, WayUnmoved
    <3>2. ThingAt(c, l) = ThingAt(b, l)
      BY <1>0, <2>1, <2>2, WayUnmoved
    <3> QED
      BY <3>1, <3>2
  <2>7. ThingAt(b, l) \in c.reply <=> ThingAt(b, l) \in b.reply
    BY <2>1, <2>2
  <2> HIDE DEF l
  <2>8. Emits(c, f, log, ThingAt(c, m), m, ThingAt(c, l))
    BY <2>5, <2>6, <2>7 DEF Emits
  <2>9. m \in Shown(c, f, log)
    BY <2>3
  <2> QED
    BY <2>1, <2>5, <2>6, <2>8, <2>9, ShownSteps DEF l
<1>3. T \in SUBSET Seq(Nat)
  OBVIOUS
<1> HIDE DEF T
<1>4. T = Seq(Nat)
  BY <1>1, <1>2, <1>3, KeyInduction
<1>5. IsPrefix(p, p)
  BY <1>0, PrefixParts
<1> QED
  BY <1>0, <1>4, <1>5 DEF T

\* c is b without what is at the i-th place below p.
Taken(b, c, p, i) ==
  /\ Unmoved(b, c, p)
  /\ c.kids[ThingAt(b, p)] = RemoveFirst(b.kids[ThingAt(b, p)], b.kids[ThingAt(b, p)][i])
  /\ \A m \in Seq(Nat) : ThingAt(b, m) # Nothing /\ ~IsPrefix(Append(p, i), m)
                           => (ThingAt(b, m) \in c.reply <=> ThingAt(b, m) \in b.reply)

\* The way to where it was is as before.
LEMMA WayKept ==
  ASSUME NEW b, IsTree(b), NEW c, IsTree(c), NEW f, NEW log, NEW p \in Shown(b, f, log), NEW i \in Nat,
         Taken(b, c, p, i)
  PROVE  /\ p \in Shown(c, f, log)
         /\ \A m \in Seq(Nat) : IsPrefix(m, p) => ThingAt(c, m) = ThingAt(b, m) /\ ~IsPrefix(Append(p, i), m)
<1>1. p \in Seq(Nat) /\ Unmoved(b, c, p)
  BY ShownSteps DEF Taken
<1>2. ASSUME NEW m \in Seq(Nat), IsPrefix(m, p) PROVE ThingAt(c, m) = ThingAt(b, m)
  BY <1>1, <1>2, WayUnmoved
<1>3. ASSUME NEW m \in Seq(Nat), IsPrefix(m, p) PROVE ~IsPrefix(Append(p, i), m)
  <2>1. SUFFICES ASSUME IsPrefix(Append(p, i), m) PROVE FALSE
    OBVIOUS
  <2>2. Append(p, i) \in Seq(Nat) /\ Len(Append(p, i)) = Len(p) + 1 /\ Len(p) \in Nat
    BY <1>1, StepsOfKey
  <2>3. IsPrefix(Append(p, i), p)
    BY <1>1, <1>3, <2>1, <2>2, PrefixesMeet
  <2> QED
    BY <2>2, <2>3 DEF IsPrefix
<1>4. ASSUME NEW m \in Seq(Nat), IsPrefix(m, p) PROVE ThingAt(b, m) \in c.reply <=> ThingAt(b, m) \in b.reply
  <2>1. ThingAt(b, m) # Nothing
    BY <1>4, PrefixShown, ShownSteps
  <2> QED
    BY <1>3, <1>4, <2>1 DEF Taken
<1>5. p \in Shown(c, f, log)
  BY <1>1, <1>4, WayShown
<1> QED
  BY <1>2, <1>3, <1>5

\* Its siblings move up, and are shown as before.
LEMMA SiblingsMoveUp ==
  ASSUME NEW b, IsTree(b), NEW c, IsTree(c), NEW f, NEW log, NEW p \in Seq(Nat), NEW i \in Nat, NEW j \in Nat,
         ThingAt(b, p) # Title, Append(p, i) \in Shown(b, f, log), Append(p, j) \in Shown(b, f, log), i # j,
         Taken(b, c, p, i),
         NEW h, h = IF j < i THEN j ELSE j - 1
  PROVE  /\ h \in Nat
         /\ Append(p, h) \in Shown(c, f, log) /\ ThingAt(c, Append(p, h)) = ThingAt(b, Append(p, j))
<1> DEFINE x == ThingAt(b, p)
           s == b.kids[x]
           r == RemoveFirst(s, s[i])
<1>1. /\ p \in Shown(b, f, log) /\ x # Nothing /\ x \in Thing
      /\ ThingAt(b, Append(p, i)) # Nothing /\ ThingAt(b, Append(p, j)) # Nothing
      /\ Emits(b, f, log, x, p, ThingAt(b, Append(p, j)))
  BY ShownSteps, ThingAtSteps
<1>2. s \in Seq(Section \cup Item) /\ IsInjective(s) /\ DOMAIN s = 1 .. Len(s) /\ Len(s) \in Nat
  BY <1>1, RowParts, SeqParts
<1>3. i \in DOMAIN s /\ j \in DOMAIN s /\ ThingAt(b, Append(p, j)) = s[j]
  <2>1. /\ ThingAt(b, Append(p, i)) = StepTo(b, x, i)
        /\ ThingAt(b, Append(p, j)) = StepTo(b, x, j)
    BY ThingAtSteps
  <2> QED
    BY <1>1, <2>1 DEF StepTo
<1>4. c.kids[x] = r
  BY DEF Taken
<1>6. ~IsPrefix(Append(p, i), Append(p, j))
  <2>1. Append(p, i) \in Seq(Nat) /\ Append(p, j) \in Seq(Nat) /\ Append(p, i) # Append(p, j)
        /\ Len(Append(p, i)) = Len(p) + 1 /\ Len(Append(p, j)) = Len(p) + 1
    BY StepsOfKey
  <2> QED
    BY <2>1, PrefixesMeet
<1>7. p \in Shown(c, f, log) /\ ThingAt(c, p) = x
  <2>1. IsPrefix(p, p)
    BY PrefixParts
  <2> QED
    BY <1>1, <2>1, WayKept
<1>8. s[j] \in c.reply <=> s[j] \in b.reply
  <2>1. Append(p, j) \in Seq(Nat)
    BY StepsOfKey
  <2> QED
    BY <1>1, <1>3, <1>6, <2>1 DEF Taken
<1>9. s[j] # Nothing
  BY <1>1, <1>3
<1> HIDE DEF s
<1>10. h \in 1 .. Len(s) - 1 /\ h \in Nat /\ (h < i => h = j) /\ (~(h < i) => h + 1 = j)
  BY <1>2, <1>3
<1>11. r \in Seq(Section \cup Item) /\ Len(r) = Len(s) - 1
       /\ \A n \in 1 .. Len(s) - 1 : r[n] = IF n < i THEN s[n] ELSE s[n + 1]
  BY <1>2, <1>3, RemoveFirstParts
<1> HIDE DEF r
<1>12. h \in DOMAIN r /\ r[h] = s[j]
  <2>1. DOMAIN r = 1 .. Len(s) - 1
    BY <1>11, SeqParts
  <2> QED
    BY <1>10, <1>11, <2>1
<1>13. ThingAt(c, Append(p, h)) = s[j]
  <2>1. ThingAt(c, Append(p, h)) = StepTo(c, x, h)
    BY <1>7, <1>10, ThingAtSteps
  <2> QED
    BY <1>1, <1>4, <1>12, <2>1 DEF StepTo
<1>14. Append(p, h) \in Shown(c, f, log)
  <2>1. Emits(c, f, log, x, p, s[j])
    <3>1. Emits(b, f, log, x, p, s[j])
      BY <1>1, <1>3
    <3> QED
      BY <1>8, <3>1 DEF Emits
  <2> QED
    BY <1>7, <1>9, <1>10, <1>13, <2>1, ShownSteps
<1> QED
  BY <1>3, <1>10, <1>13, <1>14

\* What is at the i-th place below p, and what is above it.
LEMMA TakenFrom ==
  ASSUME NEW b, IsTree(b), NEW p \in Seq(Nat), NEW i \in Nat, ThingAt(b, Append(p, i)) # Nothing
  PROVE  /\ ThingAt(b, p) \in Thing /\ ThingAt(b, p) # Nothing
         /\ i \in DOMAIN b.kids[ThingAt(b, p)]
         /\ b.kids[ThingAt(b, p)][i] = ThingAt(b, Append(p, i))
         /\ Parent(b, ThingAt(b, Append(p, i))) = ThingAt(b, p)
         /\ ThingAt(b, Append(p, i)) \in OnBoard(b) \ {Title}
<1>1. ThingAt(b, Append(p, i)) = StepTo(b, ThingAt(b, p), i) /\ ThingAt(b, p) \in Thing \cup {Nothing}
  BY ThingAtSteps
<1>2. ThingAt(b, p) \in Thing /\ i \in DOMAIN b.kids[ThingAt(b, p)]
      /\ b.kids[ThingAt(b, p)][i] = ThingAt(b, Append(p, i))
  BY <1>1, StepType
<1>3. ThingAt(b, p) # Nothing
  BY <1>2, OnBoardParts
<1>4. Parent(b, ThingAt(b, Append(p, i))) = ThingAt(b, p)
  BY <1>2, ParentPlace
<1>5. Append(p, i) \in Seq(Nat) /\ Append(p, i) # <<>>
  BY StepsOfKey
<1>6. ThingAt(b, Append(p, i)) \in OnBoard(b) \ {Title}
  BY <1>5, ThingAtOnBoard
<1> QED
  BY <1>2, <1>3, <1>4, <1>6

\* On the way to p, before p, nothing is p, and nothing is below it.
LEMMA OnTheWay ==
  ASSUME NEW b, IsTree(b), NEW p \in Seq(Nat), NEW i \in Nat, ThingAt(b, Append(p, i)) # Nothing,
         NEW m \in Seq(Nat), IsPrefix(m, p), ThingAt(b, m) # Nothing
  PROVE  /\ ThingAt(b, m) \notin Subtree(b, ThingAt(b, Append(p, i)))
         /\ \A n \in Nat : IsPrefix(Append(m, n), p) => ThingAt(b, m) # ThingAt(b, p)
<1>1. Append(p, i) \in Seq(Nat) /\ Len(Append(p, i)) = Len(p) + 1 /\ Len(p) \in Nat
  BY StepsOfKey
<1>2. ASSUME ThingAt(b, m) \in Subtree(b, ThingAt(b, Append(p, i))) PROVE FALSE
  <2>1. IsPrefix(Append(p, i), m)
    BY <1>1, <1>2, SubtreeKeys
  <2>2. IsPrefix(Append(p, i), p)
    BY <1>1, <2>1, PrefixesMeet
  <2> QED
    BY <1>1, <2>2 DEF IsPrefix
<1>3. ASSUME NEW n \in Nat, IsPrefix(Append(m, n), p), ThingAt(b, m) = ThingAt(b, p) PROVE FALSE
  <2>1. m = p
    BY <1>3, OnePlace
  <2>2. Len(Append(p, n)) = Len(p) + 1
    BY StepsOfKey
  <2> QED
    BY <1>1, <1>3, <2>1, <2>2 DEF IsPrefix
<1> QED
  BY <1>2, <1>3

\* Without, row by row.
LEMMA WithoutRows ==
  ASSUME NEW b, IsTree(b), NEW x
  PROVE  /\ \A y \in Thing : Without(b, x).kids[y] = IF y \in Subtree(b, x) THEN <<>>
                                                     ELSE IF y = Parent(b, x) THEN RemoveFirst(b.kids[y], x)
                                                     ELSE b.kids[y]
         /\ Without(b, x).reply = b.reply \ Subtree(b, x)
<1> DEFINE gone == Subtree(b, x)
           p == Parent(b, x)
<1>1. b \in BoardShape
  BY RowParts
<1> HIDE DEF gone, p
<1>2. /\ Without(b, x).kids = [y \in Thing |-> IF y \in gone THEN <<>>
                                               ELSE IF y = p THEN RemoveFirst(b.kids[y], x) ELSE b.kids[y]]
      /\ Without(b, x).reply = b.reply \ gone
  BY <1>1 DEF Without, BoardShape, gone, p
<1> QED
  BY <1>2 DEF gone, p

\* d takes the item, and nothing else on the way or beside it.
LEMMA DeleteTaken ==
  ASSUME NEW b, IsTree(b), NEW p \in Seq(Nat), NEW i \in Nat, NEW x, x = ThingAt(b, Append(p, i)), x # Nothing
  PROVE  Taken(b, Without(b, x), p, i)
<1> DEFINE c == Without(b, x)
           q == ThingAt(b, p)
<1>1. /\ q \in Thing /\ q # Nothing /\ i \in DOMAIN b.kids[q] /\ b.kids[q][i] = x /\ Parent(b, x) = q
      /\ x \in OnBoard(b) \ {Title} /\ Append(p, i) \in Seq(Nat)
  BY TakenFrom, StepsOfKey
<1>2. /\ \A y \in Thing : c.kids[y] = IF y \in Subtree(b, x) THEN <<>>
                                      ELSE IF y = q THEN RemoveFirst(b.kids[y], x)
                                      ELSE b.kids[y]
      /\ c.reply = b.reply \ Subtree(b, x)
  BY <1>1, WithoutRows
<1> HIDE DEF c
<1>3. Unmoved(b, c, p)
  <2>1. SUFFICES ASSUME NEW m \in Seq(Nat), NEW n \in Nat, IsPrefix(Append(m, n), p)
                 PROVE  StepTo(c, ThingAt(b, m), n) = StepTo(b, ThingAt(b, m), n)
    BY DEF Unmoved
  <2>2. CASE ThingAt(b, m) = Nothing
    BY <2>2 DEF StepTo
  <2>3. CASE ThingAt(b, m) # Nothing
    <3>1. IsPrefix(m, p)
      BY <2>1, PrefixesMeet
    <3>2. ThingAt(b, m) \notin Subtree(b, x) /\ ThingAt(b, m) # q
      BY <2>1, <2>3, <3>1, OnTheWay
    <3>3. ThingAt(b, m) \in Thing
      BY <2>3, ThingAtSteps
    <3>4. c.kids[ThingAt(b, m)] = b.kids[ThingAt(b, m)]
      BY <1>2, <3>2, <3>3
    <3> QED
      BY <3>4 DEF StepTo
  <2> QED
    BY <2>2, <2>3
<1>4. c.kids[q] = RemoveFirst(b.kids[q], b.kids[q][i])
  <2>1. IsPrefix(p, p)
    BY PrefixParts
  <2>2. q \notin Subtree(b, x)
    BY <1>1, <2>1, OnTheWay
  <2> QED
    BY <1>1, <1>2, <2>2
<1>5. ASSUME NEW m \in Seq(Nat), ThingAt(b, m) # Nothing, ~IsPrefix(Append(p, i), m)
      PROVE  ThingAt(b, m) \in c.reply <=> ThingAt(b, m) \in b.reply
  <2>1. ThingAt(b, m) \notin Subtree(b, x)
    BY <1>1, <1>5, SubtreeKeys
  <2> QED
    BY <1>2, <2>1
<1>6. Taken(b, c, p, i)
  BY <1>3, <1>4, <1>5 DEF Taken
<1> QED
  BY <1>6 DEF c

\* A row of sections with one more: what is above Log, and every section when
\* there is no Log, stays where it is.
LEMMA SectionsStay ==
  ASSUME NEW b \in BoardShape, IsInjective(b.kids[Title]), NEW s \in Section,
         NEW j \in DOMAIN b.kids[Title],
         s \in Kids(b, Title) \/ Log \notin Kids(b, Title) \/ j < Place(b.kids[Title], Log)
  PROVE  j \in DOMAIN WithSection(b, s).kids[Title] /\ WithSection(b, s).kids[Title][j] = b.kids[Title][j]
<1> DEFINE all == b.kids[Title]
           at == IF Log \in ToSet(all) THEN Place(all, Log) ELSE Len(all) + 1
           r == InsertAt(all, at, s)
           c == WithSection(b, s)
<1>0. Title \in Thing
  BY DEF Thing
<1>1. CASE s \in ToSet(all)
  BY <1>1 DEF WithSection
<1>2. CASE s \notin ToSet(all)
  <2>1. all \in Seq(Section \cup Item) /\ s \in Section \cup Item
    BY <1>0 DEF BoardShape
  <2>2. c.kids[Title] = r
    <3>1. c = [b EXCEPT !.kids = [b.kids EXCEPT ![Title] = r]]
      BY <1>2 DEF WithSection, BoardShape
    <3> HIDE DEF r, c
    <3> QED
      BY <1>0, <3>1 DEF BoardShape
  <2>3. j \in DOMAIN all /\ (Log \notin ToSet(all) \/ j < Place(all, Log))
    BY <1>2 DEF Kids
  <2> HIDE DEF all, c
  <2>4. Len(all) \in Nat /\ DOMAIN all = 1 .. Len(all)
    BY <2>1, SeqParts
  <2>5. at \in 1 .. Len(all) + 1 /\ j < at
    <3>1. CASE Log \in ToSet(all)
      <4>1. Place(all, Log) \in 1 .. Len(all)
        BY <2>1, <3>1, PlaceParts
      <4> QED
        BY <2>3, <2>4, <3>1, <4>1
    <3>2. CASE Log \notin ToSet(all)
      BY <2>3, <2>4, <3>2
    <3> QED
      BY <3>1, <3>2
  <2> HIDE DEF at
  <2>6. j \in 1 .. Len(all)
    BY <2>3, <2>4
  <2>7. j \in DOMAIN r /\ r[j] = all[j]
    <3>1. r \in Seq(Section \cup Item) /\ Inserted(r, all, at, s)
      BY <2>1, <2>5, InsertAtParts
    <3>2. Len(r) = Len(all) + 1 /\ DOMAIN r = 1 .. Len(r)
      BY <3>1, SeqParts DEF Inserted
    <3>3. j \in 1 .. Len(all) + 1
      BY <2>4, <2>6
    <3> HIDE DEF r
    <3> QED
      BY <2>5, <3>1, <3>2, <3>3 DEF Inserted
  <2> QED
    BY <2>2, <2>7 DEF c, all
<1> QED
  BY <1>1, <1>2

\* WithArchived, row by row, but for what Archive gains.
LEMMA ArchivedRows ==
  ASSUME NEW b, IsTree(b), NEW x \in Item \cap OnBoard(b), NEW p, p = Parent(b, x), NEW c, c = WithArchived(b, x)
  PROVE  /\ c.reply = b.reply
         /\ \A y \in Thing \ {Title, Archive} : c.kids[y] = IF y = p THEN RemoveFirst(b.kids[p], x) ELSE b.kids[y]
         /\ \A j \in DOMAIN b.kids[Title] :
              Archive \in Kids(b, Title) \/ Log \notin Kids(b, Title) \/ j < Place(b.kids[Title], Log)
                => j \in DOMAIN c.kids[Title] /\ c.kids[Title][j] = b.kids[Title][j]
<1> DEFINE r == RemoveFirst(b.kids[p], x)
           d == [b EXCEPT !.kids[p] = r]
           e == WithSection(d, Archive)
           t == Append(e.kids[Archive], x)
<1>0. /\ Archive \in Section /\ Archive \in Thing /\ Archive # Title /\ Title \in Thing
      /\ x # Title /\ x \in Section \cup Item /\ x \notin Section /\ b \in BoardShape
  BY RowParts, TreeAssumption DEF Thing
<1>1. p \in Thing /\ p # Title /\ x \in Kids(b, p)
  BY <1>0, ParentParts
<1>2. r \in Seq(Section \cup Item)
  <2> DEFINE s == b.kids[p]
  <2>1. s \in Seq(Section \cup Item) /\ IsInjective(s) /\ x \in ToSet(s)
    BY <1>1, RowParts DEF Kids
  <2> HIDE DEF s
  <2>2. RemoveFirst(s, x) \in Seq(Section \cup Item)
    BY <2>1, RemoveFirstSet
  <2> QED
    BY <2>2 DEF s
<1>3. c = [e EXCEPT !.kids[Archive] = t]
  BY DEF WithArchived
<1> HIDE DEF r
<1>4. d \in BoardShape /\ d.reply = b.reply /\ \A y \in Thing : d.kids[y] = IF y = p THEN r ELSE b.kids[y]
  BY <1>0, <1>1, <1>2 DEF BoardShape
<1>5. d.kids[Title] = b.kids[Title] /\ IsInjective(d.kids[Title])
  BY <1>0, <1>1, <1>4, RowParts
<1> HIDE DEF d
<1>6. /\ e \in BoardShape /\ e.reply = d.reply
      /\ \A y \in Thing \ {Title} : e.kids[y] = d.kids[y]
  BY <1>0, <1>4, <1>5, SectionRow
<1>7. ASSUME NEW j \in DOMAIN b.kids[Title],
             Archive \in Kids(b, Title) \/ Log \notin Kids(b, Title) \/ j < Place(b.kids[Title], Log)
      PROVE  j \in DOMAIN e.kids[Title] /\ e.kids[Title][j] = b.kids[Title][j]
  <2>1. /\ d \in BoardShape /\ IsInjective(d.kids[Title]) /\ j \in DOMAIN d.kids[Title]
        /\ Archive \in Kids(d, Title) \/ Log \notin Kids(d, Title) \/ j < Place(d.kids[Title], Log)
    BY <1>4, <1>5, <1>7 DEF Kids
  <2>2. j \in DOMAIN e.kids[Title] /\ e.kids[Title][j] = d.kids[Title][j]
    BY <1>0, <2>1, SectionsStay
  <2> QED
    BY <1>5, <2>2
<1> HIDE DEF e, t
<1>8. c.reply = e.reply /\ \A y \in Thing \ {Archive} : c.kids[y] = e.kids[y]
  BY <1>0, <1>3, <1>6 DEF BoardShape
<1>9. c.reply = b.reply
  BY <1>4, <1>6, <1>8
<1>10. ASSUME NEW y \in Thing \ {Title, Archive}
       PROVE  c.kids[y] = IF y = p THEN RemoveFirst(b.kids[p], x) ELSE b.kids[y]
  BY <1>4, <1>6, <1>8 DEF r
<1>11. c.kids[Title] = e.kids[Title]
  BY <1>0, <1>8
<1> QED
  BY <1>7, <1>9, <1>10, <1>11

\* Creating Archive does not move the sections up to the i-th.
StaysPut(b, i) ==
  Log \in OnBoard(b) /\ Archive \notin OnBoard(b) => i < Place(b.kids[Title], Log)

\* On the way to something there is something.
LEMMA WayThere ==
  ASSUME NEW b, IsTree(b), NEW k \in Seq(Nat), ThingAt(b, k) # Nothing, NEW m \in Seq(Nat), IsPrefix(m, k)
  PROVE  ThingAt(b, m) # Nothing
<1> DEFINE T == {l \in Seq(Nat) : IsPrefix(m, l) /\ ThingAt(b, l) # Nothing => ThingAt(b, m) # Nothing}
<1>1. <<>> \in T
  <2>1. <<>> \in Seq(Nat)
    OBVIOUS
  <2> QED
    BY <2>1, PrefixParts
<1>2. ASSUME NEW l \in T, NEW i \in Nat PROVE Append(l, i) \in T
  <2>1. Append(l, i) \in Seq(Nat) /\ l \in Seq(Nat)
    BY StepsOfKey
  <2>2. SUFFICES ASSUME IsPrefix(m, Append(l, i)), ThingAt(b, Append(l, i)) # Nothing
                 PROVE  ThingAt(b, m) # Nothing
    BY <2>1
  <2>3. CASE m = Append(l, i)
    BY <2>2, <2>3
  <2>4. CASE m # Append(l, i)
    <3>1. IsPrefix(m, l)
      BY <2>1, <2>2, <2>4, PrefixParts
    <3>2. ThingAt(b, l) # Nothing
      BY <2>1, <2>2, ThingAtSteps DEF StepTo
    <3> QED
      BY <3>1, <3>2
  <2> QED
    BY <2>3, <2>4
<1>3. T \in SUBSET Seq(Nat)
  OBVIOUS
<1> HIDE DEF T
<1>4. T = Seq(Nat)
  BY <1>1, <1>2, <1>3, KeyInduction
<1> QED
  BY <1>4 DEF T

\* A section on the way is the first step.
LEMMA SectionOnTheWay ==
  ASSUME NEW b, IsTree(b), NEW p \in Seq(Nat), NEW m \in Seq(Nat), IsPrefix(m, p), ThingAt(b, m) \in Section
  PROVE  m = SubSeq(p, 1, 1) /\ 1 \in 0 .. Len(p)
<1> DEFINE s == ThingAt(b, m)
<1>1. s # Title /\ s # Nothing /\ s \notin Item
  BY TreeAssumption
<1>2. m # <<>>
  BY <1>1, ThingAtSteps
<1>3. ThingAt(b, Front(m)) \in Thing /\ s \in Kids(b, ThingAt(b, Front(m)))
  BY <1>1, <1>2, ThingAtOnBoard
<1>4. Front(m) \in Seq(Nat) /\ Len(Front(m)) = Len(m) - 1 /\ Len(m) \in Nat /\ Len(p) \in Nat
  BY <1>2, FrontParts, SeqParts
<1>5. ThingAt(b, Front(m)) = Title
  <2>1. ThingAt(b, Front(m)) \notin Section \cup Item
    BY <1>1, <1>3, TreeParts
  <2> QED
    BY <1>3, <2>1 DEF Thing
<1>6. Front(m) = <<>>
  BY <1>4, <1>5, ThingAtOnBoard, TreeAssumption
<1>7. Len(m) = 1
  <2>1. Len(Front(m)) = 0
    BY <1>6
  <2> QED
    BY <1>4, <2>1
<1>8. Len(m) <= Len(p) /\ SubSeq(m, 1, 1) = SubSeq(p, 1, 1)
  <2>1. Len(m) <= Len(p) /\ SubSeq(m, 1, Len(m)) = SubSeq(p, 1, Len(m))
    BY DEF IsPrefix
  <2> QED
    BY <1>7, <2>1
<1>9. SubSeq(m, 1, 1) = m
  BY <1>7, StepsOfKey
<1>10. 1 \in 0 .. Len(p)
  BY <1>4, <1>7, <1>8
<1> QED
  BY <1>8, <1>9, <1>10

\* So does D, whatever Archive gains, where it does not move the sections.
LEMMA ArchiveTaken ==
  ASSUME NEW b, IsTree(b), NEW p \in Seq(Nat), NEW i \in Nat, NEW x, x = ThingAt(b, Append(p, i)), x \in Item,
         Archivable(b, x), StaysPut(b, Append(p, i)[1])
  PROVE  Taken(b, WithArchived(b, x), p, i)
<1> DEFINE c == WithArchived(b, x)
           q == ThingAt(b, p)
           k == Append(p, i)
<1>0. x # Nothing /\ Archive # Title /\ x # Title /\ Archive \in Section /\ Log \in Section
  BY TreeAssumption
<1>1. /\ q \in Thing /\ q # Nothing /\ i \in DOMAIN b.kids[q] /\ b.kids[q][i] = x /\ Parent(b, x) = q
      /\ x \in Item \cap OnBoard(b) /\ k \in Seq(Nat)
  BY <1>0, TakenFrom, StepsOfKey
<1>2. q # Title
  <2>1. x \in OnBoard(b) \ {Title} /\ x \notin Section
    BY <1>0, <1>1, TreeAssumption
  <2> QED
    BY <1>1, <2>1, ParentParts
<1>3. p # <<>>
  BY <1>1, <1>2, ThingAtOnBoard
<1>4. /\ \A y : y \in Kids(b, Title) <=> y \in OnBoard(b) /\ y \in Section
  <2>1. ASSUME NEW y \in Kids(b, Title) PROVE y \in OnBoard(b) /\ y \in Section
    BY TreeParts, OnBoardParts
  <2>2. ASSUME NEW y \in OnBoard(b), y \in Section PROVE y \in Kids(b, Title)
    <3>1. y # Title
      BY <2>2, TreeAssumption
    <3> QED
      BY <2>2, <3>1, ParentParts
  <2> QED
    BY <2>1, <2>2
<1>5. /\ c.reply = b.reply
      /\ \A y \in Thing \ {Title, Archive} : c.kids[y] = IF y = q THEN RemoveFirst(b.kids[q], x) ELSE b.kids[y]
      /\ \A j \in DOMAIN b.kids[Title] :
           Archive \in Kids(b, Title) \/ Log \notin Kids(b, Title) \/ j < Place(b.kids[Title], Log)
             => j \in DOMAIN c.kids[Title] /\ c.kids[Title][j] = b.kids[Title][j]
  <2>1. IsTree(b) /\ x \in Item \cap OnBoard(b) /\ q = Parent(b, x)
    BY <1>1
  <2> HIDE DEF q
  <2> QED
    BY <2>1, ArchivedRows
<1> HIDE DEF c
\* the section of x is the first step of its key, and not Archive
<1>6. KeyOf(b, x) = k
  BY <1>0, <1>1, KeysLead
<1>7. ThingAt(b, SubSeq(k, 1, 1)) # Archive
  <2>1. x \in OnBoard(b) \ {Title}
    BY <1>0, <1>1
  <2>2. SectionOf(b, x) = ThingAt(b, SubSeq(KeyOf(b, x), 1, 1))
    BY <2>1, SectionParts
  <2>3. SectionOf(b, x) # Archive
    BY DEF Archivable
  <2> QED
    BY <1>6, <2>2, <2>3
<1>8. ASSUME NEW m \in Seq(Nat), IsPrefix(m, p) PROVE ThingAt(b, m) # Archive
  <2>1. SUFFICES ASSUME ThingAt(b, m) = Archive PROVE FALSE
    OBVIOUS
  <2>2. m = SubSeq(p, 1, 1) /\ 1 \in 0 .. Len(p)
    BY <1>0, <1>8, <2>1, SectionOnTheWay
  <2>3. SubSeq(k, 1, 1) = SubSeq(p, 1, 1)
    BY <2>2, StepsOfKey
  <2> QED
    BY <1>7, <2>1, <2>2, <2>3
<1>9. Unmoved(b, c, p)
  <2>1. SUFFICES ASSUME NEW m \in Seq(Nat), NEW n \in Nat, IsPrefix(Append(m, n), p)
                 PROVE  StepTo(c, ThingAt(b, m), n) = StepTo(b, ThingAt(b, m), n)
    BY DEF Unmoved
  <2>2. CASE ThingAt(b, m) = Nothing
    BY <2>2 DEF StepTo
  <2>3. CASE ThingAt(b, m) # Nothing /\ ThingAt(b, m) # Title
    <3>1. IsPrefix(m, p)
      BY <2>1, PrefixesMeet
    <3>2. ThingAt(b, m) # q
      BY <1>0, <2>1, <2>3, <3>1, OnTheWay
    <3>3. ThingAt(b, m) \in Thing \ {Title, Archive}
      BY <1>8, <2>3, <3>1, ThingAtSteps
    <3>4. c.kids[ThingAt(b, m)] = b.kids[ThingAt(b, m)]
      BY <1>5, <3>2, <3>3
    <3> QED
      BY <3>4 DEF StepTo
  <2>4. CASE ThingAt(b, m) = Title
    <3>1. m = <<>>
      BY <2>4, ThingAtOnBoard, TreeAssumption
    <3>2. p[1] = n /\ Append(p, i)[1] = n
      <4>1. Append(m, n) \in Seq(Nat) /\ Len(Append(m, n)) = 1 /\ Append(m, n)[1] = n
        BY <3>1
      <4>2. Len(p) \in Nat /\ 1 <= Len(p) /\ p[1] = n
        <5>1. Len(p) \in Nat
          BY SeqParts
        <5>2. Len(Append(m, n)) <= Len(p) /\ \A j \in 1 .. Len(Append(m, n)) : Append(m, n)[j] = p[j]
          BY <2>1, <4>1, PrefixIs
        <5>3. 1 \in 1 .. Len(Append(m, n))
          BY <4>1
        <5> QED
          BY <4>1, <5>1, <5>2, <5>3
      <4>3. 1 \in 1 .. Len(p)
        BY <4>2
      <4> QED
        BY <4>2, <4>3, AppendParts
    <3>3. n \in DOMAIN b.kids[Title]
      <4>1. Append(m, n) \in Seq(Nat) /\ IsPrefix(p, Append(p, i)) /\ IsPrefix(Append(m, n), Append(p, i))
        BY <1>1, <2>1, StepsOfKey, PrefixParts, PrefixesMeet
      <4>2. ThingAt(b, Append(m, n)) # Nothing
        BY <1>0, <1>1, <4>1, WayThere
      <4> QED
        BY <2>4, <4>2, ThingAtSteps DEF StepTo
    <3>4. Archive \in Kids(b, Title) \/ Log \notin Kids(b, Title) \/ n < Place(b.kids[Title], Log)
      BY <1>0, <1>4, <3>2 DEF StaysPut
    <3>5. n \in DOMAIN c.kids[Title] /\ c.kids[Title][n] = b.kids[Title][n]
      BY <1>5, <3>3, <3>4
    <3> QED
      BY <2>4, <3>3, <3>5 DEF StepTo
  <2> QED
    BY <2>2, <2>3, <2>4
<1>10. c.kids[q] = RemoveFirst(b.kids[q], b.kids[q][i])
  <2>1. q # Archive
    <3>1. IsPrefix(p, p)
      BY PrefixParts
    <3> QED
      BY <1>8, <3>1
  <2> QED
    BY <1>1, <1>2, <1>5, <2>1
<1>11. Taken(b, c, p, i)
  BY <1>5, <1>9, <1>10 DEF Taken
<1> QED
  BY <1>11 DEF c

\* The neighbours of a child in the row that is shown.
LEMMA Neighbours ==
  ASSUME NEW b, IsTree(b), NEW f, NEW log, NEW p \in Shown(b, f, log), NEW i \in Nat,
         NEW s, s = Below(b, f, log, p), Append(p, i) \in ToSet(s), NEW at, at = Place(s, Append(p, i))
  PROVE  /\ at < Len(s) => \E j \in Nat : s[at + 1] = Append(p, j) /\ i < j /\ Append(p, j) \in Shown(b, f, log)
         /\ at > 1 => \E j \in Nat : s[at - 1] = Append(p, j) /\ j < i /\ Append(p, j) \in Shown(b, f, log)
<1>1. p \in Seq(Nat) /\ ThingAt(b, p) # Nothing
  BY ShownSteps
<1>2. /\ s \in Seq(Seq(Nat)) /\ StepsGrow(s, p)
      /\ \A c : c \in ToSet(s) <=> \E j \in Nat : /\ c = Append(p, j) /\ ThingAt(b, c) # Nothing
                                                 /\ Emits(b, f, log, ThingAt(b, p), p, ThingAt(b, c))
  BY <1>1, BelowAll
<1>3. at \in 1 .. Len(s) /\ s[at] = Append(p, i) /\ Len(s) \in Nat
  BY <1>2, PlaceParts
<1>4. ASSUME NEW n \in 1 .. Len(s) PROVE \E j \in Nat : s[n] = Append(p, j) /\ Append(p, j) \in Shown(b, f, log)
  <2>1. s[n] \in ToSet(s)
    BY <1>2, SeqParts
  <2>2. PICK j \in Nat : /\ s[n] = Append(p, j) /\ ThingAt(b, s[n]) # Nothing
                         /\ Emits(b, f, log, ThingAt(b, p), p, ThingAt(b, s[n]))
    BY <1>2, <2>1
  <2> QED
    BY <1>1, <2>2, ShownSteps
<1>5. ASSUME at < Len(s)
      PROVE  \E j \in Nat : s[at + 1] = Append(p, j) /\ i < j /\ Append(p, j) \in Shown(b, f, log)
  <2>1. at + 1 \in 1 .. Len(s) /\ at < at + 1
    BY <1>3, <1>5
  <2>2. PICK j \in Nat : s[at + 1] = Append(p, j) /\ Append(p, j) \in Shown(b, f, log)
    BY <1>4, <2>1
  <2>3. i < j
    BY <1>2, <1>3, <2>1, <2>2 DEF StepsGrow
  <2> QED
    BY <2>2, <2>3
<1>6. ASSUME at > 1
      PROVE  \E j \in Nat : s[at - 1] = Append(p, j) /\ j < i /\ Append(p, j) \in Shown(b, f, log)
  <2> DEFINE n == at - 1
  <2>1. n \in 1 .. Len(s) /\ n < at
    BY <1>3, <1>6
  <2> HIDE DEF n
  <2>2. PICK j \in Nat : s[n] = Append(p, j) /\ Append(p, j) \in Shown(b, f, log)
    BY <1>4, <2>1
  <2>3. j < i
    BY <1>2, <1>3, <2>1, <2>2 DEF StepsGrow
  <2> QED
    BY <2>2, <2>3 DEF n
<1> QED
  BY <1>5, <1>6

\* One place up.
LEMMA PlaceUp ==
  ASSUME NEW p \in Seq(Nat), NEW j \in Nat, j > 0, NEW k, k = Append(p, j)
  PROVE  [k EXCEPT ![Len(k)] = @ - 1] = Append(p, j - 1)
<1> DEFINE u == [k EXCEPT ![Len(k)] = @ - 1]
           l == Append(p, j - 1)
           n == Len(p) + 1
<1>0. j - 1 \in Nat /\ Len(p) \in Nat
  BY SeqParts
<1>1. k \in Seq(Nat) /\ Len(k) = n /\ k[n] = j /\ (\A h \in 1 .. Len(p) : k[h] = p[h]) /\ DOMAIN k = 1 .. n
  <2>1. k \in Seq(Nat) /\ Len(k) = n /\ k[n] = j /\ (\A h \in 1 .. Len(p) : k[h] = p[h])
    BY AppendParts
  <2> QED
    BY <2>1, SeqParts
<1>2. l \in Seq(Nat) /\ Len(l) = n /\ l[n] = j - 1 /\ (\A h \in 1 .. Len(p) : l[h] = p[h]) /\ DOMAIN l = 1 .. n
  <2>1. l \in Seq(Nat) /\ Len(l) = n /\ l[n] = j - 1 /\ (\A h \in 1 .. Len(p) : l[h] = p[h])
    BY <1>0, AppendParts
  <2> QED
    BY <2>1, SeqParts
<1> HIDE DEF l
<1>3. u = [h \in 1 .. n |-> IF h = n THEN j - 1 ELSE k[h]]
  BY <1>1
<1>4. l = [h \in 1 .. n |-> l[h]]
  <2>1. l \in [1 .. n -> Nat]
    BY <1>2, SeqParts
  <2> QED
    BY <2>1
<1>5. ASSUME NEW h \in 1 .. n PROVE l[h] = IF h = n THEN j - 1 ELSE k[h]
  <2>1. h = n \/ h \in 1 .. Len(p)
    BY <1>0
  <2>2. h \in 1 .. Len(p) => h # n
    BY <1>0
  <2> QED
    BY <1>1, <1>2, <2>1, <2>2
<1>6. u = l
  BY <1>3, <1>4, <1>5
<1> QED
  BY <1>6 DEF l

\* At land there is afterwards what was at heir.
Lands(b, c, f, log, p, heir, land) ==
  land \in Shown(c, f, log) /\ ThingAt(c, land) = ThingAt(b, heir) /\ IsPrefix(p, land)

\* Where the focus goes when what is at Append(p, i) is removed, and on what.
LEMMA Landing ==
  ASSUME NEW b, IsTree(b), NEW c, IsTree(c), NEW f, NEW log, NEW p \in Shown(b, f, log), NEW i \in Nat,
         ThingAt(b, p) # Title, Append(p, i) \in Shown(b, f, log), Taken(b, c, p, i),
         NEW s, s = Below(b, f, log, p), Append(p, i) \in ToSet(s), NEW at, at = Place(s, Append(p, i)),
         NEW heir, heir = IF at < Len(s) THEN s[at + 1] ELSE IF at > 1 THEN s[at - 1] ELSE p,
         NEW land, land = IF at < Len(s) THEN [s[at + 1] EXCEPT ![Len(s[at + 1])] = @ - 1] ELSE heir
  PROVE  Lands(b, c, f, log, p, heir, land)
<1>1. p \in Seq(Nat) /\ IsPrefix(p, p)
  BY ShownSteps, PrefixParts
<1>2. CASE at < Len(s)
  <2>1. PICK j \in Nat : s[at + 1] = Append(p, j) /\ i < j /\ Append(p, j) \in Shown(b, f, log)
    BY <1>2, Neighbours
  <2>2. land = Append(p, j - 1) /\ heir = Append(p, j)
    <3>1. j > 0
      BY <2>1
    <3>2. [s[at + 1] EXCEPT ![Len(s[at + 1])] = @ - 1] = Append(p, j - 1)
      BY <1>1, <2>1, <3>1, PlaceUp
    <3> QED
      BY <1>2, <2>1, <3>2
  <2>3. i # j /\ j - 1 = IF j < i THEN j ELSE j - 1
    BY <2>1
  <2>4. j - 1 \in Nat /\ Append(p, j - 1) \in Shown(c, f, log) /\ ThingAt(c, Append(p, j - 1)) = ThingAt(b, Append(p, j))
    BY <1>1, <2>1, <2>3, SiblingsMoveUp
  <2>5. IsPrefix(p, Append(p, j - 1))
    BY <1>1, <2>4, PrefixParts
  <2> QED
    BY <2>2, <2>4, <2>5 DEF Lands
<1>3. CASE ~(at < Len(s)) /\ at > 1
  <2>1. PICK j \in Nat : s[at - 1] = Append(p, j) /\ j < i /\ Append(p, j) \in Shown(b, f, log)
    BY <1>3, Neighbours
  <2>2. land = Append(p, j) /\ heir = Append(p, j)
    BY <1>3, <2>1
  <2>3. i # j /\ j = IF j < i THEN j ELSE j - 1
    BY <2>1
  <2>4. Append(p, j) \in Shown(c, f, log) /\ ThingAt(c, Append(p, j)) = ThingAt(b, Append(p, j))
    BY <1>1, <2>1, <2>3, SiblingsMoveUp
  <2>5. IsPrefix(p, Append(p, j))
    BY <1>1, PrefixParts
  <2> QED
    BY <2>2, <2>4, <2>5 DEF Lands
<1>4. CASE ~(at < Len(s)) /\ ~(at > 1)
  <2>1. land = p /\ heir = p
    BY <1>4
  <2>2. p \in Shown(c, f, log) /\ ThingAt(c, p) = ThingAt(b, p)
    BY <1>1, WayKept
  <2> QED
    BY <1>1, <2>1, <2>2 DEF Lands
<1> QED
  BY <1>2, <1>3, <1>4

\* A zoom on the way to where something was is still where it was.
LEMMA ZoomKept ==
  ASSUME NEW b, IsTree(b), NEW c, IsTree(c), NEW f, NEW log, NEW p \in Shown(b, f, log), NEW i \in Nat,
         Taken(b, c, p, i), NEW zoom \in Zooms, Rekeyed(b, zoom) = zoom, IsPrefix(zoom.key, p)
  PROVE  Rekeyed(c, zoom) = zoom
<1>1. CASE zoom.id = Nothing
  BY <1>1 DEF Rekeyed
<1>2. CASE zoom.id # Nothing
  <2>1. zoom.id \in OnBoard(b) /\ zoom.key \in Seq(Nat)
    BY <1>2 DEF Rekeyed, Whole, Zooms
  <2>2. KeyOf(b, zoom.id) = zoom.key
    <3>1. zoom = [zoom EXCEPT !.key = KeyOf(b, zoom.id)]
      BY <1>2, <2>1 DEF Rekeyed
    <3> QED
      BY <3>1 DEF Zooms
  <2>3. ThingAt(b, zoom.key) = zoom.id
    BY <2>1, <2>2, KeyOfPlace
  <2>4. ThingAt(c, zoom.key) = zoom.id
    BY <2>1, <2>3, WayKept
  <2>5. zoom.id \in OnBoard(c) /\ KeyOf(c, zoom.id) = zoom.key
    BY <1>2, <2>1, <2>4, ThingAtOnBoard, KeysLead
  <2>6. Rekeyed(c, zoom) = [zoom EXCEPT !.key = zoom.key]
    BY <1>2, <2>5 DEF Rekeyed
  <2> QED
    BY <2>6 DEF Zooms
<1> QED
  BY <1>1, <1>2

\* The focus in the picture, below its root.
LEMMA FocusedParts ==
  ASSUME IInv, inMap, view.focus # Root, Focused \in Item
  PROVE  /\ IsTree(board) /\ view.zoom \in Zooms /\ Rekeyed(board, view.zoom) = view.zoom
         /\ Above(view.focus) \in Shown(board, fold, showLog) /\ Above(view.focus) \in Seq(Nat)
         /\ IsPrefix(Root, Above(view.focus))
         /\ Last(view.focus) \in Nat /\ view.focus = Append(Above(view.focus), Last(view.focus))
         /\ view.focus \in Shown(board, fold, showLog)
         /\ view.kids[Above(view.focus)] = Below(board, fold, showLog, Above(view.focus))
         /\ view.focus \in ToSet(view.kids[Above(view.focus)])
         /\ ThingAt(board, Above(view.focus)) # Title
<1> DEFINE k == view.focus
           p == Above(k)
<1>1. IsTree(board) /\ Picture(board, fold, showLog, view) /\ view.zoom \in Zooms /\ InPicture
  BY DEF IInv, InPicture
<1>2. Rekeyed(board, view.zoom) = view.zoom /\ view.kids = Rows(board, fold, showLog)
  BY <1>1 DEF Picture
<1>3. Hung(Shown(board, fold, showLog), view.kids, Root, view.side) /\ k \in DOMAIN view.side
  BY <1>1, PictureParts DEF Drawn
<1>4. /\ k \in Shown(board, fold, showLog) /\ k # <<>> /\ p \in Shown(board, fold, showLog)
      /\ IsPrefix(Root, p) /\ k \in ToSet(view.kids[p])
  BY <1>3 DEF Hung
<1>5. k \in Seq(Nat) /\ p \in Seq(Nat) /\ Last(k) \in Nat /\ k = Append(p, Last(k))
  BY <1>1, <1>4, ShownSteps, AboveParts
<1>6. view.kids[p] = Below(board, fold, showLog, p)
  BY <1>2, <1>4 DEF Rows
<1>7. ThingAt(board, p) # Title
  <2> DEFINE i == Last(k)
  <2>1. i \in Nat /\ Append(p, i) = k
    BY <1>5
  <2>2. Focused = ThingAt(board, Append(p, i))
    BY <2>1 DEF Focused
  <2> HIDE DEF i, k, p
  <2>3. Focused # Nothing /\ Focused # Title /\ Focused \notin Section
    BY TreeAssumption
  <2>4. Parent(board, Focused) = ThingAt(board, p) /\ Focused \in OnBoard(board) \ {Title}
    <3>1. IsTree(board) /\ p \in Seq(Nat) /\ i \in Nat /\ ThingAt(board, Append(p, i)) # Nothing
      BY <1>1, <1>5, <2>1, <2>2, <2>3 DEF p
    <3>2. Parent(board, ThingAt(board, Append(p, i))) = ThingAt(board, p)
          /\ ThingAt(board, Append(p, i)) \in OnBoard(board) \ {Title}
      BY <3>1, TakenFrom
    <3> QED
      BY <2>2, <3>2
  <2> QED
    BY <1>1, <2>3, <2>4, ParentParts
<1> QED
  BY <1>1, <1>2, <1>4, <1>5, <1>6, <1>7

\* The map built after the removal has its focus there.
LEMMA RemovedLands ==
  ASSUME IInv, inMap, view.focus # Root, Focused \in Item,
         NEW c, IsTree(c), Taken(board, c, Above(view.focus), Last(view.focus)),
         Edited(c, RemovalFocus, view.zoom)
  PROVE  ThingAt(board', view'.focus) = Heir
<1> DEFINE p == Above(view.focus)
           i == Last(view.focus)
           s == view.kids[p]
           at == Place(s, view.focus)
           heir == IF at < Len(s) THEN s[at + 1] ELSE IF at > 1 THEN s[at - 1] ELSE p
           land == IF at < Len(s) THEN [s[at + 1] EXCEPT ![Len(s[at + 1])] = @ - 1] ELSE heir
<1>1. board' = c /\ view' = Built(c, fold, showLog, tall, RemovalFocus, view.zoom)
  BY DEF Edited, Writes
<1>2. RemovalFocus = land
  BY DEF RemovalFocus
<1>3. Heir = ThingAt(board, heir)
  BY DEF Heir
<1>4. /\ IsTree(board) /\ view.zoom \in Zooms /\ Rekeyed(board, view.zoom) = view.zoom
      /\ p \in Shown(board, fold, showLog) /\ p \in Seq(Nat) /\ IsPrefix(Root, p)
      /\ i \in Nat /\ view.focus = Append(p, i) /\ Append(p, i) \in Shown(board, fold, showLog)
      /\ s = Below(board, fold, showLog, p) /\ Append(p, i) \in ToSet(s) /\ ThingAt(board, p) # Title
      /\ at = Place(s, Append(p, i))
  BY FocusedParts
<1>5. Taken(board, c, p, i)
  OBVIOUS
<1> HIDE DEF p, i, s, at
<1>6. land \in Shown(c, fold, showLog) /\ ThingAt(c, land) = ThingAt(board, heir) /\ IsPrefix(p, land)
  <2>1. ASSUME NEW h, h = (IF at < Len(s) THEN s[at + 1] ELSE IF at > 1 THEN s[at - 1] ELSE p),
               NEW l, l = (IF at < Len(s) THEN [s[at + 1] EXCEPT ![Len(s[at + 1])] = @ - 1] ELSE h)
        PROVE  l \in Shown(c, fold, showLog) /\ ThingAt(c, l) = ThingAt(board, h) /\ IsPrefix(p, l)
    <3>1. /\ IsTree(board) /\ IsTree(c) /\ p \in Shown(board, fold, showLog) /\ i \in Nat
          /\ ThingAt(board, p) # Title /\ Append(p, i) \in Shown(board, fold, showLog) /\ Taken(board, c, p, i)
          /\ s = Below(board, fold, showLog, p) /\ Append(p, i) \in ToSet(s) /\ at = Place(s, Append(p, i))
      BY <1>4, <1>5
    <3>2. Lands(board, c, fold, showLog, p, h, l)
      BY <2>1, <3>1, Landing
    <3> QED
      BY <3>2 DEF Lands
  <2> QED
    BY <2>1
<1> HIDE DEF heir, land
<1>7. Rekeyed(c, view.zoom) = view.zoom
  BY <1>4, <1>5, ZoomKept DEF Root
<1>8. IsPrefix(view.zoom.key, land) /\ land \in Seq(Nat)
  <2>1. land \in Seq(Nat) /\ view.zoom.key \in Seq(Nat)
    BY <1>4, <1>6, ShownSteps DEF Zooms
  <2> QED
    BY <1>4, <1>6, <2>1, PrefixesMeet DEF Root
<1>9. view'.focus = land
  BY <1>1, <1>2, <1>4, <1>6, <1>7, <1>8, FocusKept
<1> QED
  BY <1>1, <1>3, <1>6, <1>9

\* d and D land on the heir.
LEMMA RemovalLanding ==
  ASSUME IInv, DeleteItem \/ (ArchiveItem /\ ~MovesItsSection), view.focus # Root
  PROVE  ThingAt(board', view'.focus) = Heir
<1> DEFINE p == Above(view.focus)
           i == Last(view.focus)
<1>1. inMap /\ Focused \in Item
  BY DEF DeleteItem, ArchiveItem
<1>2. IsTree(board) /\ p \in Seq(Nat) /\ i \in Nat /\ view.focus = Append(p, i) /\ Focused = ThingAt(board, Append(p, i))
  BY <1>1, FocusedParts DEF Focused
<1>3. Focused # Nothing /\ Focused # Title
  BY <1>1, TreeAssumption
<1> HIDE DEF p, i
<1>4. Focused \in OnBoard(board) \ {Title}
  BY <1>2, <1>3, TakenFrom
<1>5. ASSUME DeleteItem PROVE ThingAt(board', view'.focus) = Heir
  <2>1. Taken(board, Without(board, Focused), p, i) /\ IsTree(Without(board, Focused))
    BY <1>2, <1>3, <1>4, DeleteTaken, WithoutTree
  <2>2. Edited(Without(board, Focused), RemovalFocus, view.zoom)
    BY <1>5 DEF DeleteItem
  <2> QED
    BY <1>1, <2>1, <2>2, RemovedLands DEF p, i
<1>6. ASSUME ArchiveItem, ~MovesItsSection PROVE ThingAt(board', view'.focus) = Heir
  <2>1. Archivable(board, Focused) /\ Edited(WithArchived(board, Focused), RemovalFocus, view.zoom)
    BY <1>6 DEF ArchiveItem
  <2>2. StaysPut(board, Append(p, i)[1])
    <3>1. SUFFICES ASSUME Log \in OnBoard(board), Archive \notin OnBoard(board)
                   PROVE  view.focus[1] < Place(board.kids[Title], Log)
      BY <1>2 DEF StaysPut
    <3>2. ~(Place(board.kids[Title], Log) <= view.focus[1])
      BY <1>6, <3>1 DEF MovesItsSection
    <3>3. Place(board.kids[Title], Log) \in Nat
      <4>1. Log \in Section /\ Log # Title /\ Title \in Thing
        BY TreeAssumption DEF Thing
      <4>2. Log \in ToSet(board.kids[Title])
        BY <1>2, <3>1, <4>1, ParentParts DEF Kids
      <4>3. board.kids[Title] \in Seq(Section \cup Item)
        BY <1>2, <4>1, RowParts
      <4> QED
        BY <4>2, <4>3, PlaceParts
    <3>4. view.focus[1] \in Nat
      <4>1. view.focus \in Seq(Nat) /\ view.focus # <<>>
        BY <1>2, StepsOfKey
      <4> QED
        BY <4>1
    <3> QED
      BY <3>2, <3>3, <3>4
  <2>3. Taken(board, WithArchived(board, Focused), p, i) /\ IsTree(WithArchived(board, Focused))
    BY <1>1, <1>2, <1>4, <2>1, <2>2, ArchiveTaken, WithArchivedTree
  <2> QED
    BY <1>1, <2>1, <2>3, RemovedLands DEF p, i
<1> QED
  BY <1>5, <1>6

\* After a deletion or an archiving (mapRemovalFocusKey) the focus is on what took the removed item's
\* place: the next sibling shown, one place up now, else the one before, else
\* the parent.  Only where Archive has to be made, above Log, do the keys of the
\* sections from Log on lead elsewhere afterwards.
THEOREM RemovalsLand == Spec => RemovalLands
<1>1. IInv /\ [Next]_vars =>
        [edits' # edits /\ (DeleteItem \/ (ArchiveItem /\ ~MovesItsSection)) /\ view.focus # Root
           => ThingAt(board', view'.focus) = Heir]_vars
  BY RemovalLanding
<1> QED
  BY <1>1, Invariant, PTL DEF Spec, RemovalLands

-----------------------------------------------------------------------------
(* Rows.                                                                   *)

\* Up is h summed up along s: what the first n of s take.
SumsUp(up, h, s) ==
  /\ up[0] = 0
  /\ \A n \in 1 .. Len(s) : up[n] = up[n - 1] + h[s[n]]
  /\ \A n \in 0 .. Len(s) : up[n] \in Nat /\ RowsOf(h, s, n) = up[n]

\* Rows are summed up along a sequence.
LEMMA RowsOfSums ==
  ASSUME NEW S, NEW s \in Seq(S), NEW h, \A n \in 1 .. Len(s) : h[s[n]] \in Nat
  PROVE  \E up \in [0 .. Len(s) -> Nat] : SumsUp(up, h, s)
<1> DEFINE L == Len(s)
           own == [n \in 1 .. L |-> h[s[n]]]
           step == [p \in (1 .. L) \X Nat |-> p[2] + own[p[1]]]
<1>1. L \in Nat /\ 0 \in Nat
  BY SeqParts
<1>2. \A n \in 1 .. L : own[n] \in Nat /\ own[n] = h[s[n]]
  OBVIOUS
<1> HIDE DEF L, own
<1>3. step \in [(1 .. L) \X Nat -> Nat]
  BY <1>2
<1>4. \A n \in 1 .. L, m \in Nat : step[<<n, m>>] = m + own[n]
  OBVIOUS
<1> HIDE DEF step
<1>5. PICK up : Iterates(up, L, Nat, 0, step)
  BY <1>1, <1>3, Iteration
<1>6. up \in [0 .. L -> Nat] /\ up[0] = 0
  BY <1>5 DEF Iterates
<1>7. ASSUME NEW n \in 1 .. L PROVE n - 1 \in 0 .. L /\ up[n - 1] \in Nat /\ up[n] = up[n - 1] + own[n]
  <2>1. n - 1 \in 0 .. L
    BY <1>1
  <2>2. up[n - 1] \in Nat
    BY <1>6, <2>1
  <2>3. up[n] = step[<<n, up[n - 1]>>]
    BY <1>5 DEF Iterates
  <2> QED
    BY <1>4, <2>1, <2>2, <2>3
\* summed up to n, and read off at n
<1>8. ASSUME NEW n \in 0 .. L PROVE RowsOf(h, s, n) = up[n]
  <2> DEFINE Equation(f) == f = [i \in 0 .. n |-> IF i = 0 THEN 0 ELSE f[i - 1] + h[s[i]]]
             rows == CHOOSE f : Equation(f)
             g == [i \in 0 .. n |-> up[i]]
  <2>0. n \in Nat /\ 0 \in 0 .. n /\ \A i \in 0 .. n : i # 0 => i \in 1 .. L /\ i - 1 \in 0 .. n
    BY <1>1
  <2>1. Equation(g)
    <3>1. ASSUME NEW i \in 0 .. n PROVE up[i] = IF i = 0 THEN 0 ELSE g[i - 1] + h[s[i]]
      <4>1. CASE i = 0
        BY <1>6, <4>1
      <4>2. CASE i # 0
        <5>1. i \in 1 .. L /\ i - 1 \in 0 .. n
          BY <2>0, <4>2
        <5>2. g[i - 1] = up[i - 1]
          BY <5>1
        <5> QED
          BY <1>2, <1>7, <4>2, <5>1, <5>2
      <4> QED
        BY <4>1, <4>2
    <3> QED
      BY <3>1
  <2>2. Equation(rows)
    BY <2>1
  <2>3. RowsOf(h, s, n) = rows[n]
    BY DEF RowsOf
  <2> HIDE DEF rows, g
  <2>4. rows[0] = 0 /\ \A i \in 0 .. n : i # 0 => rows[i] = rows[i - 1] + h[s[i]]
    BY <2>0, <2>2
  <2> DEFINE T == {i \in Nat : i <= n => rows[i] = up[i]}
  <2>5. T \subseteq Nat /\ 0 \in T
    BY <1>6, <2>4
  <2>6. ASSUME NEW i \in T PROVE i + 1 \in T
    <3>1. SUFFICES ASSUME i + 1 <= n PROVE rows[i + 1] = up[i + 1]
      OBVIOUS
    <3>2. i \in Nat /\ i + 1 \in 1 .. L /\ i + 1 \in 0 .. n /\ (i + 1) - 1 = i /\ i + 1 # 0 /\ i <= n
      BY <2>0, <3>1, <1>1
    <3>3. rows[i] = up[i]
      BY <3>2
    <3>4. rows[i + 1] = rows[i] + h[s[i + 1]]
      BY <2>4, <3>2
    <3>5. up[i + 1] = up[i] + own[i + 1]
      BY <1>7, <3>2
    <3> QED
      BY <1>2, <3>2, <3>3, <3>4, <3>5
  <2> HIDE DEF T
  <2>7. T = Nat
    BY <2>5, <2>6, SetInduction
  <2>8. rows[n] = up[n]
    BY <2>0, <2>7 DEF T
  <2> QED
    BY <2>3, <2>8
<1>9. up \in [0 .. Len(s) -> Nat]
  BY <1>6 DEF L
<1>10. \A n \in 1 .. Len(s) : up[n] = up[n - 1] + h[s[n]]
  BY <1>2, <1>7 DEF L
<1>11. \A n \in 0 .. Len(s) : up[n] \in Nat /\ RowsOf(h, s, n) = up[n]
  BY <1>6, <1>8 DEF L
<1> QED
  BY <1>6, <1>9, <1>10, <1>11 DEF SumsUp

\* A sum along a sequence only grows.
LEMMA SumsGrow ==
  ASSUME NEW L \in Nat, NEW up \in [0 .. L -> Nat], \A n \in 1 .. L : up[n - 1] <= up[n],
         NEW m \in 0 .. L, NEW n \in m .. L
  PROVE  up[m] <= up[n]
<1> DEFINE T == {d \in Nat : m + d <= L => up[m] <= up[m + d]}
<1>1. T \subseteq Nat /\ 0 \in T
  BY DEF T
<1>2. ASSUME NEW d \in T PROVE d + 1 \in T
  <2>1. SUFFICES ASSUME m + (d + 1) <= L PROVE up[m] <= up[m + (d + 1)]
    OBVIOUS
  <2>2. d \in Nat /\ m + d <= L /\ m + (d + 1) \in 1 .. L /\ (m + (d + 1)) - 1 = m + d
        /\ m + d \in 0 .. L /\ m + (d + 1) \in 0 .. L
    BY <2>1
  <2>3. up[m] <= up[m + d]
    BY <2>2
  <2>4. up[m + d] <= up[m + (d + 1)]
    BY <2>2
  <2>5. up[m] \in Nat /\ up[m + d] \in Nat /\ up[m + (d + 1)] \in Nat
    BY <2>2
  <2> QED
    BY <2>3, <2>4, <2>5
<1> HIDE DEF T
<1>3. T = Nat
  BY <1>1, <1>2, SetInduction
<1>4. n - m \in T /\ m + (n - m) = n /\ n <= L
  BY <1>3
<1> QED
  BY <1>4 DEF T

\* What the first of some nodes take, and where in it each has its rows.
LEMMA RowsOfParts ==
  ASSUME NEW S, NEW s \in Seq(S), NEW h, \A n \in 1 .. Len(s) : h[s[n]] \in Nat
  PROVE  /\ AllRowsOf(h, s) \in Nat
         /\ s = <<>> => AllRowsOf(h, s) = 0
         /\ \A n \in 1 .. Len(s) : /\ RowsOf(h, s, n - 1) \in Nat
                                   /\ RowsOf(h, s, n - 1) + h[s[n]] <= AllRowsOf(h, s)
                                   /\ n = 1 => RowsOf(h, s, n - 1) = 0
                                   /\ n = Len(s) => RowsOf(h, s, n - 1) + h[s[n]] = AllRowsOf(h, s)
         /\ \A m, n \in 1 .. Len(s) : m < n => RowsOf(h, s, m - 1) + h[s[m]] <= RowsOf(h, s, n - 1)
<1> DEFINE L == Len(s)
<1>1. L \in Nat /\ (s = <<>> => L = 0)
  BY SeqParts
<1>2. PICK up \in [0 .. L -> Nat] : SumsUp(up, h, s)
  BY RowsOfSums
<1>3. /\ up[0] = 0 /\ \A n \in 1 .. L : up[n] = up[n - 1] + h[s[n]]
      /\ \A n \in 0 .. L : RowsOf(h, s, n) = up[n]
      /\ AllRowsOf(h, s) = RowsOf(h, s, L)
  BY <1>2 DEF SumsUp, AllRowsOf
<1>4. \A n \in 1 .. L : h[s[n]] \in Nat
  OBVIOUS
<1> HIDE DEF L
<1>5. \A n \in 1 .. L : up[n] = up[n - 1] + h[s[n]] /\ up[n] \in Nat /\ up[n - 1] \in Nat /\ h[s[n]] \in Nat
                        /\ RowsOf(h, s, n - 1) = up[n - 1] /\ up[n - 1] <= up[n]
  <2> SUFFICES ASSUME NEW n \in 1 .. L
               PROVE  up[n] = up[n - 1] + h[s[n]] /\ up[n] \in Nat /\ up[n - 1] \in Nat /\ h[s[n]] \in Nat
                        /\ RowsOf(h, s, n - 1) = up[n - 1] /\ up[n - 1] <= up[n]
    OBVIOUS
  <2>1. n - 1 \in 0 .. L /\ n \in 0 .. L
    BY <1>1
  <2>2. up[n - 1] \in Nat /\ up[n] \in Nat /\ h[s[n]] \in Nat /\ up[n] = up[n - 1] + h[s[n]]
    BY <1>3, <1>4, <2>1
  <2>3. up[n - 1] <= up[n]
    BY <2>2
  <2> QED
    BY <1>3, <2>1, <2>2, <2>3
<1>6. \A m \in 0 .. L : \A n \in m .. L : up[m] <= up[n]
  BY <1>1, <1>5, SumsGrow
<1>7. AllRowsOf(h, s) = up[L] /\ up[L] \in Nat /\ (L = 0 => up[L] = 0)
  <2>1. L \in 0 .. L
    BY <1>1
  <2> QED
    BY <1>3, <2>1
<1>8. ASSUME NEW n \in 1 .. L
      PROVE  /\ RowsOf(h, s, n - 1) \in Nat
             /\ RowsOf(h, s, n - 1) + h[s[n]] <= AllRowsOf(h, s)
             /\ n = 1 => RowsOf(h, s, n - 1) = 0
             /\ n = L => RowsOf(h, s, n - 1) + h[s[n]] = AllRowsOf(h, s)
  <2>1. n \in 0 .. L /\ L \in n .. L
    BY <1>1
  <2>2. up[n] <= up[L]
    BY <1>6, <2>1
  <2>3. n = 1 => n - 1 = 0
    OBVIOUS
  <2> QED
    BY <1>3, <1>5, <1>7, <2>2, <2>3
<1>9. ASSUME NEW m \in 1 .. L, NEW n \in 1 .. L, m < n
      PROVE  RowsOf(h, s, m - 1) + h[s[m]] <= RowsOf(h, s, n - 1)
  <2>1. m \in 0 .. L /\ n - 1 \in m .. L
    BY <1>1, <1>9
  <2>2. up[m] <= up[n - 1]
    BY <1>6, <2>1
  <2> QED
    BY <1>5, <2>2
<1> QED
  BY <1>1, <1>7, <1>8, <1>9 DEF L

\* Finitely many keys have a longest.
LEMMA KeysBounded ==
  ASSUME NEW S \in SUBSET Seq(Nat), IsFiniteSet(S)
  PROVE  \E M \in Nat : \A k \in S : Len(k) <= M
<1>1. PICK N \in Nat : ExistsBijection(1 .. N, S)
  BY FS_NatBijection
<1>2. PICK f \in Bijection(1 .. N, S) : TRUE
  BY <1>1 DEF ExistsBijection
<1>3. \A i \in 1 .. N : f[i] \in S
  BY <1>2 DEF Bijection, Injection
<1>4. \A k \in S : \E i \in 1 .. N : f[i] = k
  BY <1>2 DEF Bijection, Surjection
<1>5. \A i \in 1 .. N : Len(f[i]) \in Nat
  BY <1>3
<1> DEFINE Bounded(n) == \E M \in Nat : \A i \in 1 .. n : Len(f[i]) <= M
           T == {n \in Nat : n <= N => Bounded(n)}
<1>6. Bounded(0)
  <2>1. 0 \in Nat /\ \A i \in 1 .. 0 : Len(f[i]) <= 0
    OBVIOUS
  <2> QED
    BY <2>1
<1>7. ASSUME NEW n \in Nat, n + 1 <= N, Bounded(n) PROVE Bounded(n + 1)
  <2>1. PICK M \in Nat : \A i \in 1 .. n : Len(f[i]) <= M
    BY <1>7
  <2> DEFINE m == Len(f[n + 1])
             B == IF m > M THEN m ELSE M
  <2>2. m \in Nat
    BY <1>5, <1>7
  <2>3. B \in Nat /\ m <= B /\ M <= B
    BY <2>2
  <2>4. ASSUME NEW i \in 1 .. n + 1 PROVE Len(f[i]) <= B
    <3>1. CASE i = n + 1
      BY <2>3, <3>1
    <3>2. CASE i # n + 1
      <4>1. i \in 1 .. n /\ i \in 1 .. N
        BY <1>7, <3>2
      <4>2. Len(f[i]) \in Nat /\ Len(f[i]) <= M
        BY <1>5, <2>1, <4>1
      <4> QED
        BY <2>3, <4>2
    <3> QED
      BY <3>1, <3>2
  <2> HIDE DEF B
  <2> QED
    BY <2>3, <2>4
<1> HIDE DEF Bounded
<1>8. T \subseteq Nat /\ 0 \in T /\ \A n \in T : n + 1 \in T
  <2>1. \A n \in Nat : n + 1 <= N => n <= N
    OBVIOUS
  <2> QED
    BY <1>6, <1>7, <2>1
<1> HIDE DEF T
<1>9. N \in T
  BY <1>8, SetInduction
<1>10. Bounded(N)
  BY <1>9 DEF T
<1> QED
  BY <1>4, <1>10 DEF Bounded

\* Less than the next number, and not the last.
LEMMA UpToNext == \A n, r \in Nat : r < n + 1 /\ r # n => r < n
OBVIOUS

\* The step at k only looks at what ranks lower than k.
LooksLower(S, V, rank, step) ==
  \A k \in S : \A f, g \in [S -> V] :
    (\A l \in S : rank[l] < rank[k] => f[l] = g[l]) => step[<<k, f>>] = step[<<k, g>>]
Recurs(S, V, step) == \E f \in [S -> V] : \A k \in S : f[k] = step[<<k, f>>]

\* Such a step defines a function.
LEMMA Recursion ==
  ASSUME NEW S, NEW V, NEW v \in V, NEW rank \in [S -> Nat], NEW M \in Nat, \A k \in S : rank[k] <= M,
         NEW step \in [S \X [S -> V] -> V],
         LooksLower(S, V, rank, step)
  PROVE  Recurs(S, V, step)
<1> DEFINE Upto(n) == \E f \in [S -> V] : \A k \in S : rank[k] < n => f[k] = step[<<k, f>>]
           T == {n \in Nat : Upto(n)}
<1>1. Upto(0)
  <2>1. [k \in S |-> v] \in [S -> V] /\ \A k \in S : ~(rank[k] < 0)
    OBVIOUS
  <2> QED
    BY <2>1
<1>2. ASSUME NEW n \in Nat, Upto(n) PROVE Upto(n + 1)
  <2>1. PICK f \in [S -> V] : \A k \in S : rank[k] < n => f[k] = step[<<k, f>>]
    BY <1>2
  <2> DEFINE g == [k \in S |-> IF rank[k] = n THEN step[<<k, f>>] ELSE f[k]]
  <2>2. \A k \in S : step[<<k, f>>] \in V
    <3> SUFFICES ASSUME NEW k \in S PROVE step[<<k, f>>] \in V
      OBVIOUS
    <3>1. <<k, f>> \in S \X [S -> V]
      OBVIOUS
    <3> QED
      BY <3>1
  <2>3. g \in [S -> V]
    BY <2>2
  <2>4. \A k \in S : g[k] = IF rank[k] = n THEN step[<<k, f>>] ELSE f[k]
    OBVIOUS
  <2> HIDE DEF g
  <2>5. ASSUME NEW k \in S, rank[k] < n + 1 PROVE g[k] = step[<<k, g>>]
    <3>0. n \in Nat /\ rank[k] \in Nat /\ rank[k] < n + 1
      BY <2>5
    <3>1. ASSUME NEW l \in S, rank[l] < rank[k] PROVE rank[l] # n
      <4>1. rank[l] \in Nat
        OBVIOUS
      <4> QED
        BY <3>0, <3>1, <4>1
    <3>2. \A l \in S : rank[l] < rank[k] => f[l] = g[l]
      BY <2>4, <3>1
    <3>3. step[<<k, f>>] = step[<<k, g>>]
      BY <2>3, <3>2 DEF LooksLower
    <3>4. rank[k] # n => rank[k] < n
      <4> DEFINE r == rank[k]
      <4>1. n \in Nat /\ r \in Nat /\ r < n + 1
        BY <3>0
      <4> HIDE DEF r
      <4>2. r # n => r < n
        BY <4>1, UpToNext, Zenon
      <4> QED
        BY <4>2 DEF r
    <3> QED
      BY <2>1, <2>4, <3>3, <3>4
  <2> QED
    BY <2>3, <2>5
<1> HIDE DEF Upto
<1>3. T \subseteq Nat /\ 0 \in T /\ \A n \in T : n + 1 \in T
  BY <1>1, <1>2
<1> HIDE DEF T
<1>4. M + 1 \in T
  BY <1>3, SetInduction
<1>5. Upto(M + 1) /\ \A k \in S : rank[k] < M + 1
  BY <1>4 DEF T
<1> QED
  BY <1>5 DEF Upto, Recurs

\* Sums only look at the nodes they sum over.
LEMMA RowsAgree ==
  ASSUME NEW S, NEW s \in Seq(S), NEW g, NEW h, \A n \in 1 .. Len(s) : h[s[n]] \in Nat /\ g[s[n]] = h[s[n]]
  PROVE  AllRowsOf(g, s) = AllRowsOf(h, s)
<1> DEFINE L == Len(s)
<1>1. L \in Nat
  BY SeqParts
<1>2. PICK up \in [0 .. L -> Nat] : SumsUp(up, h, s)
  BY RowsOfSums
<1>3. PICK vp \in [0 .. L -> Nat] : SumsUp(vp, g, s)
  <2>1. \A n \in 1 .. Len(s) : g[s[n]] \in Nat
    OBVIOUS
  <2> QED
    BY <2>1, RowsOfSums
<1>4. /\ up[0] = 0 /\ vp[0] = 0
      /\ \A n \in 1 .. L : up[n] = up[n - 1] + h[s[n]] /\ vp[n] = vp[n - 1] + g[s[n]]
  BY <1>2, <1>3 DEF SumsUp
<1>5. AllRowsOf(h, s) = up[L] /\ AllRowsOf(g, s) = vp[L]
  BY <1>1, <1>2, <1>3 DEF SumsUp, AllRowsOf
<1>6. \A n \in 1 .. L : g[s[n]] = h[s[n]]
  OBVIOUS
<1> HIDE DEF L
<1> DEFINE T == {n \in Nat : n <= L => up[n] = vp[n]}
<1>7. T \subseteq Nat /\ 0 \in T
  BY <1>4
<1>8. ASSUME NEW n \in T PROVE n + 1 \in T
  <2>1. SUFFICES ASSUME n + 1 <= L PROVE up[n + 1] = vp[n + 1]
    OBVIOUS
  <2>2. n \in Nat /\ n <= L /\ n + 1 \in 1 .. L /\ (n + 1) - 1 = n
    BY <1>1, <2>1
  <2>3. up[n] = vp[n]
    BY <2>2
  <2>4. up[n + 1] = up[n] + h[s[n + 1]] /\ vp[n + 1] = vp[n] + g[s[n + 1]]
    BY <1>4, <2>2
  <2> QED
    BY <1>6, <2>2, <2>3, <2>4
<1> HIDE DEF T
<1>9. L \in T
  BY <1>1, <1>7, <1>8, SetInduction
<1> QED
  BY <1>5, <1>9 DEF T

\* The children of every node are longer keys, and nodes.
Descends(S, kids) ==
  /\ S \subseteq Seq(Nat) /\ IsFiniteSet(S)
  /\ \A k \in S : /\ kids[k] \in Seq(S)
                  /\ \A n \in 1 .. Len(kids[k]) : Len(kids[k][n]) > Len(k)

\* From the longest keys up, every node gets its height: its own rows or what the
\* children take, whichever is more.
LEMMA HeightParts ==
  ASSUME NEW S, NEW kids, Descends(S, kids), NEW own \in [S -> Nat \ {0}], NEW h, h = Heights(kids, own)
  PROVE  \A k \in S : h[k] \in Nat \ {0} /\ h[k] = Height(own[k], AllRowsOf(h, kids[k]))
<1> DEFINE V == Nat \ {0}
           Equation(f) == f = [k \in DOMAIN own |-> Height(own[k], AllRowsOf(f, kids[k]))]
           height == CHOOSE f : Equation(f)
           step == [p \in S \X [S -> V] |-> Height(own[p[1]], AllRowsOf(p[2], kids[p[1]]))]
<1>1. /\ S \subseteq Seq(Nat) /\ IsFiniteSet(S)
      /\ \A k \in S : Len(k) \in Nat /\ kids[k] \in Seq(S)
      /\ \A k \in S : \A n \in 1 .. Len(kids[k]) : kids[k][n] \in S /\ Len(kids[k][n]) > Len(k)
  <2>1. /\ S \subseteq Seq(Nat) /\ IsFiniteSet(S)
        /\ \A k \in S : /\ kids[k] \in Seq(S)
                        /\ \A n \in 1 .. Len(kids[k]) : Len(kids[k][n]) > Len(k)
    BY DEF Descends
  <2>2. \A k \in S : Len(k) \in Nat
    BY <2>1
  <2>3. \A k \in S : \A n \in 1 .. Len(kids[k]) : kids[k][n] \in S
    BY <2>1, ElementOfSeq
  <2> QED
    BY <2>1, <2>2, <2>3
<1>2. PICK M \in Nat : \A k \in S : Len(k) <= M
  BY <1>1, KeysBounded
<1> DEFINE rank == [k \in S |-> M - Len(k)]
<1>3. /\ rank \in [S -> Nat] /\ \A k \in S : rank[k] <= M
      /\ \A k \in S : \A n \in 1 .. Len(kids[k]) : rank[kids[k][n]] < rank[k]
  <2>1. \A k \in S : M - Len(k) \in Nat /\ M - Len(k) <= M
    BY <1>1, <1>2
  <2>2. ASSUME NEW k \in S, NEW n \in 1 .. Len(kids[k]) PROVE rank[kids[k][n]] < rank[k]
    <3>1. kids[k][n] \in S /\ Len(kids[k][n]) \in Nat /\ Len(kids[k][n]) > Len(k) /\ Len(k) \in Nat
      BY <1>1
    <3>2. rank[kids[k][n]] = M - Len(kids[k][n]) /\ rank[k] = M - Len(k)
      BY <3>1
    <3> QED
      BY <3>1, <3>2
  <2> QED
    BY <2>1, <2>2
<1> HIDE DEF rank
<1>4. \A r \in Nat \ {0}, n \in Nat : Height(r, n) \in V /\ Height(r, n) >= r
  BY DEF Height
<1>5. ASSUME NEW k \in S, NEW f, \A n \in 1 .. Len(kids[k]) : f[kids[k][n]] \in V
      PROVE  AllRowsOf(f, kids[k]) \in Nat /\ Height(own[k], AllRowsOf(f, kids[k])) \in V
  <2>1. kids[k] \in Seq(S) /\ \A n \in 1 .. Len(kids[k]) : f[kids[k][n]] \in Nat
    BY <1>1, <1>5
  <2>2. AllRowsOf(f, kids[k]) \in Nat
    BY <2>1, RowsOfParts
  <2> QED
    BY <1>4, <2>2
<1>6. step \in [S \X [S -> V] -> V]
  <2> SUFFICES ASSUME NEW k \in S, NEW f \in [S -> V]
               PROVE  Height(own[k], AllRowsOf(f, kids[k])) \in V
    OBVIOUS
  <2>1. \A n \in 1 .. Len(kids[k]) : f[kids[k][n]] \in V
    BY <1>1
  <2> QED
    BY <1>5, <2>1
<1>7. \A k \in S : \A f \in [S -> V] : step[<<k, f>>] = Height(own[k], AllRowsOf(f, kids[k]))
  OBVIOUS
<1> HIDE DEF step
<1>8. ASSUME NEW k \in S, NEW f \in [S -> V], NEW g \in [S -> V],
             \A l \in S : rank[l] < rank[k] => f[l] = g[l]
      PROVE  step[<<k, f>>] = step[<<k, g>>]
  <2>1. \A n \in 1 .. Len(kids[k]) : g[kids[k][n]] \in Nat /\ f[kids[k][n]] = g[kids[k][n]]
    BY <1>1, <1>3, <1>8
  <2>2. AllRowsOf(f, kids[k]) = AllRowsOf(g, kids[k])
    BY <1>1, <2>1, RowsAgree
  <2> QED
    BY <1>7, <2>2
<1>9. PICK f \in [S -> V] : \A k \in S : f[k] = step[<<k, f>>]
  <2>1. 1 \in V
    OBVIOUS
  <2> HIDE DEF V
  <2>2. rank \in [S -> Nat] /\ \A k \in S : rank[k] <= M
    BY <1>3
  <2>3. LooksLower(S, V, rank, step)
    BY <1>8 DEF LooksLower
  <2>4. Recurs(S, V, step)
    BY <1>6, <2>1, <2>2, <2>3, Recursion
  <2> QED
    BY <2>4 DEF Recurs
<1>10. Equation(f)
  <2>1. DOMAIN own = S /\ f = [k \in S |-> f[k]]
    OBVIOUS
  <2>2. \A k \in S : f[k] = Height(own[k], AllRowsOf(f, kids[k]))
    BY <1>7, <1>9
  <2> QED
    BY <2>1, <2>2
<1>11. Equation(height)
  BY <1>10
<1>12. h = height
  BY DEF Heights
<1> HIDE DEF height
<1>13. ASSUME NEW k \in S PROVE h[k] = Height(own[k], AllRowsOf(h, kids[k]))
  <2>1. DOMAIN own = S
    OBVIOUS
  <2> QED
    BY <1>11, <1>12, <2>1
\* and it is a number, from the longest keys up
<1> DEFINE T == {n \in Nat : \A k \in S : rank[k] < n => h[k] \in V}
<1>14. T \subseteq Nat /\ 0 \in T
  BY <1>3
<1>15. ASSUME NEW n \in T PROVE n + 1 \in T
  <2>1. n \in Nat /\ \A k \in S : rank[k] < n => h[k] \in V
    OBVIOUS
  <2>2. ASSUME NEW k \in S, rank[k] < n + 1 PROVE h[k] \in V
    <3>1. \A i \in 1 .. Len(kids[k]) : h[kids[k][i]] \in V
      <4> SUFFICES ASSUME NEW i \in 1 .. Len(kids[k]) PROVE h[kids[k][i]] \in V
        OBVIOUS
      <4>1. kids[k][i] \in S /\ rank[kids[k][i]] \in Nat /\ rank[k] \in Nat /\ rank[kids[k][i]] < rank[k]
        BY <1>1, <1>3
      <4>2. rank[kids[k][i]] < n
        BY <2>1, <2>2, <4>1
      <4> QED
        BY <2>1, <4>1, <4>2
    <3> QED
      BY <1>5, <1>13, <3>1
  <2> QED
    BY <2>1, <2>2
<1> HIDE DEF T
<1>16. M + 1 \in T
  BY <1>14, <1>15, SetInduction
<1>17. \A k \in S : h[k] \in V
  <2>1. \A k \in S : rank[k] < M + 1
    BY <1>3
  <2> QED
    BY <1>16, <2>1 DEF T
<1> QED
  BY <1>13, <1>17

\* Every node but the root is in its stack, below a node in the picture.
Stacks(S, kids, root, side) ==
  /\ S \subseteq Seq(Nat) /\ IsFiniteSet(S) /\ DOMAIN side = S
  /\ \A k \in S \ {root} : /\ Stack(kids, side, k) \in Seq(S) /\ k \in ToSet(Stack(kids, side, k))
                           /\ Above(k) \in S /\ Len(Above(k)) < Len(k)

\* From the root down, every node gets its first row.
LEMMA TopParts ==
  ASSUME NEW S, NEW kids, NEW root, NEW side, Stacks(S, kids, root, side),
         NEW h, \A k \in S : h[k] \in Nat, NEW top, top = Tops(kids, root, side, h)
  PROVE  \A k \in S \ {root} : LET s == Stack(kids, side, k) IN
           /\ top[k] \in Int
           /\ top[k] = RowsOf(h, s, Place(s, k) - 1)
                       + IF Above(k) = root THEN - ((AllRowsOf(h, s) - 1) \div 2) ELSE top[Above(k)]
<1> DEFINE R == S \ {root}
           off == [k \in R |-> RowsOf(h, Stack(kids, side, k), Place(Stack(kids, side, k), k) - 1)]
           half == [k \in R |-> - ((AllRowsOf(h, Stack(kids, side, k)) - 1) \div 2)]
           Equation(f) == f = [k \in DOMAIN side \ {root} |->
              LET s == Stack(kids, side, k)
              IN RowsOf(h, s, Place(s, k) - 1)
                 + IF Above(k) = root THEN - ((AllRowsOf(h, s) - 1) \div 2) ELSE f[Above(k)]]
           chosen == CHOOSE f : Equation(f)
           step == [p \in R \X [R -> Int] |->
                      off[p[1]] + IF Above(p[1]) = root THEN half[p[1]] ELSE p[2][Above(p[1])]]
<1>1. /\ S \subseteq Seq(Nat) /\ IsFiniteSet(S) /\ DOMAIN side = S
      /\ \A k \in R : /\ Stack(kids, side, k) \in Seq(S) /\ k \in ToSet(Stack(kids, side, k))
                      /\ Above(k) \in S /\ Len(Above(k)) < Len(k)
  BY DEF Stacks
<1>2. \A k \in S : Len(k) \in Nat
  BY <1>1
<1>3. PICK M \in Nat : \A k \in S : Len(k) <= M
  BY <1>1, KeysBounded
<1> DEFINE rank == [k \in R |-> Len(k)]
<1>4. /\ rank \in [R -> Nat] /\ \A k \in R : rank[k] <= M
      /\ \A k \in R : Above(k) # root => Above(k) \in R /\ rank[Above(k)] < rank[k]
  BY <1>1, <1>2, <1>3
<1> HIDE DEF rank
<1>5. ASSUME NEW k \in R PROVE off[k] \in Int /\ half[k] \in Int
  <2> DEFINE s == Stack(kids, side, k)
  <2>1. s \in Seq(S) /\ k \in ToSet(s)
    BY <1>1
  <2> HIDE DEF s
  <2>2. Place(s, k) \in 1 .. Len(s)
    BY <2>1, PlaceParts
  <2>3. \A n \in 1 .. Len(s) : h[s[n]] \in Nat
    BY <2>1, SeqParts
  <2>4. AllRowsOf(h, s) \in Nat /\ RowsOf(h, s, Place(s, k) - 1) \in Nat
    BY <2>1, <2>2, <2>3, RowsOfParts
  <2>5. off[k] = RowsOf(h, s, Place(s, k) - 1) /\ half[k] = - ((AllRowsOf(h, s) - 1) \div 2)
    BY DEF s
  <2> QED
    BY <2>4, <2>5
<1>6. \A f : Equation(f) <=> f = [k \in R |-> off[k] + IF Above(k) = root THEN half[k] ELSE f[Above(k)]]
  BY <1>1
<1>7. Equation(chosen) <=> chosen = [k \in R |-> off[k] + IF Above(k) = root THEN half[k] ELSE chosen[Above(k)]]
  BY <1>6
<1>8. \A k \in R : LET s == Stack(kids, side, k) IN
        /\ off[k] = RowsOf(h, s, Place(s, k) - 1)
        /\ half[k] = - ((AllRowsOf(h, s) - 1) \div 2)
  OBVIOUS
<1>9. step \in [R \X [R -> Int] -> Int]
  <2> SUFFICES ASSUME NEW k \in R, NEW f \in [R -> Int]
               PROVE  off[k] + (IF Above(k) = root THEN half[k] ELSE f[Above(k)]) \in Int
    OBVIOUS
  <2>1. Above(k) # root => f[Above(k)] \in Int
    BY <1>4
  <2>2. off[k] \in Int /\ half[k] \in Int
    BY <1>5
  <2> HIDE DEF off, half
  <2> QED
    BY <2>1, <2>2
<1>10. \A k \in R : \A f \in [R -> Int] :
         step[<<k, f>>] = off[k] + IF Above(k) = root THEN half[k] ELSE f[Above(k)]
  OBVIOUS
<1> HIDE DEF step, off, half
<1>11. LooksLower(R, Int, rank, step)
  <2> SUFFICES ASSUME NEW k \in R, NEW f \in [R -> Int], NEW g \in [R -> Int],
                      \A l \in R : rank[l] < rank[k] => f[l] = g[l]
               PROVE  step[<<k, f>>] = step[<<k, g>>]
    BY DEF LooksLower
  <2>1. Above(k) # root => f[Above(k)] = g[Above(k)]
    BY <1>4
  <2> QED
    BY <1>10, <2>1
<1>12. PICK f \in [R -> Int] : \A k \in R : f[k] = step[<<k, f>>]
  <2>1. 0 \in Int /\ rank \in [R -> Nat] /\ \A k \in R : rank[k] <= M
    BY <1>4
  <2> HIDE DEF R
  <2>2. Recurs(R, Int, step)
    BY <1>9, <1>11, <2>1, Recursion
  <2> QED
    BY <2>2 DEF Recurs
<1>13. Equation(f)
  <2>1. f = [k \in R |-> f[k]]
    OBVIOUS
  <2>2. \A k \in R : f[k] = off[k] + IF Above(k) = root THEN half[k] ELSE f[Above(k)]
    BY <1>10, <1>12
  <2>3. f = [k \in R |-> off[k] + IF Above(k) = root THEN half[k] ELSE f[Above(k)]]
    BY <2>1, <2>2
  <2> QED
    BY <1>6, <2>3
<1>14. Equation(chosen)
  BY <1>13
<1>15. top = chosen
  BY DEF Tops
<1> HIDE DEF chosen
<1>16. \A k \in R : top[k] = off[k] + IF Above(k) = root THEN half[k] ELSE top[Above(k)]
  BY <1>7, <1>14, <1>15
<1> DEFINE T == {n \in Nat : \A k \in R : rank[k] < n => top[k] \in Int}
<1>17. T \subseteq Nat /\ 0 \in T
  BY <1>4
<1>18. ASSUME NEW n \in T PROVE n + 1 \in T
  <2>1. n \in Nat /\ \A k \in R : rank[k] < n => top[k] \in Int
    OBVIOUS
  <2>2. ASSUME NEW k \in R, rank[k] < n + 1 PROVE top[k] \in Int
    <3>1. rank[k] \in Nat
      BY <1>4
    <3>2. Above(k) # root => top[Above(k)] \in Int
      <4> SUFFICES ASSUME Above(k) # root PROVE top[Above(k)] \in Int
        OBVIOUS
      <4>1. Above(k) \in R /\ rank[Above(k)] < rank[k] /\ rank[Above(k)] \in Nat
        BY <1>4
      <4>2. rank[Above(k)] < n
        BY <2>1, <2>2, <3>1, <4>1
      <4> QED
        BY <2>1, <4>1, <4>2
    <3>3. off[k] \in Int /\ half[k] \in Int
      BY <1>5
    <3> QED
      BY <1>16, <3>2, <3>3
  <2> QED
    BY <2>1, <2>2
<1> HIDE DEF T
<1>19. M + 1 \in T
  BY <1>17, <1>18, SetInduction
<1>20. \A k \in R : top[k] \in Int
  <2>1. \A k \in R : rank[k] < M + 1
    BY <1>4
  <2> QED
    BY <1>19, <2>1 DEF T
<1> QED
  BY <1>8, <1>16, <1>20

\* Where a node below the root is centered, once its children are.
Center(kids, top, own, row, k) ==
  IF kids[k] = <<>> THEN top[k] + (own[k] - 1) \div 2
  ELSE (row[Head(kids[k])] + row[Last(kids[k])]) \div 2

\* From the longest keys up, every node gets its center.
LEMMA CenterParts ==
  ASSUME NEW S, NEW kids, Descends(S, kids), NEW own \in [S -> Nat \ {0}],
         NEW root, NEW top, \A k \in S \ {root} : top[k] \in Int,
         NEW row, row = Centers(kids, root, top, own)
  PROVE  /\ \A k \in S : row[k] \in Int
         /\ root \in S => row[root] = 0
         /\ \A k \in S \ {root} : row[k] = Center(kids, top, own, row, k)
<1> DEFINE Step(k, f) == IF k = root THEN 0 ELSE Center(kids, top, own, f, k)
           Equation(f) == f = [k \in DOMAIN own |->
              IF k = root THEN 0
              ELSE IF kids[k] = <<>> THEN top[k] + (own[k] - 1) \div 2
              ELSE (f[Head(kids[k])] + f[Last(kids[k])]) \div 2]
           chosen == CHOOSE f : Equation(f)
           step == [p \in S \X [S -> Int] |-> Step(p[1], p[2])]
<1>1. /\ S \subseteq Seq(Nat) /\ IsFiniteSet(S)
      /\ \A k \in S : Len(k) \in Nat /\ kids[k] \in Seq(S)
      /\ \A k \in S : \A n \in 1 .. Len(kids[k]) : kids[k][n] \in S /\ Len(kids[k][n]) > Len(k)
  <2>1. /\ S \subseteq Seq(Nat) /\ IsFiniteSet(S)
        /\ \A k \in S : /\ kids[k] \in Seq(S)
                        /\ \A n \in 1 .. Len(kids[k]) : Len(kids[k][n]) > Len(k)
    BY DEF Descends
  <2>2. \A k \in S : Len(k) \in Nat
    BY <2>1
  <2>3. \A k \in S : \A n \in 1 .. Len(kids[k]) : kids[k][n] \in S
    BY <2>1, ElementOfSeq
  <2> QED
    BY <2>1, <2>2, <2>3
<1>2. PICK M \in Nat : \A k \in S : Len(k) <= M
  BY <1>1, KeysBounded
<1> DEFINE rank == [k \in S |-> M - Len(k)]
<1>3. rank \in [S -> Nat] /\ \A k \in S : rank[k] <= M /\ rank[k] = M - Len(k)
  <2>1. \A k \in S : M - Len(k) \in Nat /\ M - Len(k) <= M
    BY <1>1, <1>2
  <2> QED
    BY <2>1
<1> HIDE DEF rank
\* the children it is centered on
<1>4. ASSUME NEW k \in S, kids[k] # <<>>
      PROVE  /\ Head(kids[k]) \in S /\ Last(kids[k]) \in S
             /\ rank[Head(kids[k])] < rank[k] /\ rank[Last(kids[k])] < rank[k]
  <2> DEFINE s == kids[k]
  <2>1. s \in Seq(S) /\ s # <<>> /\ \A n \in 1 .. Len(s) : s[n] \in S /\ Len(s[n]) > Len(k)
    BY <1>1, <1>4
  <2>2. \A n \in 1 .. Len(s) : rank[s[n]] < rank[k]
    <3> SUFFICES ASSUME NEW n \in 1 .. Len(s) PROVE rank[s[n]] < rank[k]
      OBVIOUS
    <3>1. s[n] \in S /\ Len(s[n]) \in Nat /\ Len(k) \in Nat /\ Len(s[n]) > Len(k)
      BY <1>1, <2>1
    <3> HIDE DEF s
    <3> QED
      BY <1>3, <3>1
  <2> HIDE DEF s
  <2>3. 1 \in 1 .. Len(s) /\ Len(s) \in 1 .. Len(s) /\ Head(s) = s[1] /\ Last(s) = s[Len(s)]
    BY <2>1 DEF Last
  <2>4. Head(s) \in S /\ Last(s) \in S /\ rank[Head(s)] < rank[k] /\ rank[Last(s)] < rank[k]
    BY <2>1, <2>2, <2>3
  <2> QED
    BY <2>4 DEF s
<1>5. ASSUME NEW k \in S, NEW f,
             kids[k] # <<>> => f[Head(kids[k])] \in Int /\ f[Last(kids[k])] \in Int
      PROVE  Step(k, f) \in Int
  <2>1. k # root => top[k] \in Int
    OBVIOUS
  <2>2. own[k] \in Nat
    OBVIOUS
  <2> QED
    BY <1>5, <2>1, <2>2 DEF Center
<1>6. \A f : Equation(f) <=> f = [k \in S |-> Step(k, f)]
  <2>1. DOMAIN own = S
    OBVIOUS
  <2> QED
    BY <2>1 DEF Center
<1>7. step \in [S \X [S -> Int] -> Int]
  <2> SUFFICES ASSUME NEW k \in S, NEW f \in [S -> Int] PROVE Step(k, f) \in Int
    OBVIOUS
  <2>1. kids[k] # <<>> => f[Head(kids[k])] \in Int /\ f[Last(kids[k])] \in Int
    BY <1>4
  <2> HIDE DEF Step
  <2> QED
    BY <1>5, <2>1
<1>8. \A k \in S : \A f \in [S -> Int] : step[<<k, f>>] = Step(k, f)
  OBVIOUS
<1> HIDE DEF step
<1>9. LooksLower(S, Int, rank, step)
  <2> SUFFICES ASSUME NEW k \in S, NEW f \in [S -> Int], NEW g \in [S -> Int],
                      \A l \in S : rank[l] < rank[k] => f[l] = g[l]
               PROVE  step[<<k, f>>] = step[<<k, g>>]
    BY DEF LooksLower
  <2>1. kids[k] # <<>> => f[Head(kids[k])] = g[Head(kids[k])] /\ f[Last(kids[k])] = g[Last(kids[k])]
    BY <1>4
  <2>2. Step(k, f) = Step(k, g)
    BY <2>1 DEF Center
  <2> HIDE DEF Step
  <2> QED
    BY <1>8, <2>2
<1> HIDE DEF Step, Equation
<1>10. PICK f \in [S -> Int] : \A k \in S : f[k] = step[<<k, f>>]
  <2>1. 0 \in Int /\ rank \in [S -> Nat] /\ \A k \in S : rank[k] <= M
    BY <1>3
  <2>2. Recurs(S, Int, step)
    BY <1>7, <1>9, <2>1, Recursion
  <2> QED
    BY <2>2 DEF Recurs
<1>11. Equation(f)
  <2>1. f = [k \in S |-> f[k]] /\ \A k \in S : f[k] = Step(k, f)
    BY <1>8, <1>10
  <2>2. f = [k \in S |-> Step(k, f)]
    BY <2>1
  <2> QED
    BY <1>6, <2>2
<1>12. Equation(chosen)
  BY <1>11
<1>13. row = chosen
  BY DEF Centers, Equation
<1> HIDE DEF chosen
<1>14. \A k \in S : row[k] = Step(k, row)
  <2>1. row = [k \in S |-> Step(k, row)]
    BY <1>6, <1>12, <1>13
  <2> QED
    BY <2>1
<1> DEFINE T == {n \in Nat : \A k \in S : rank[k] < n => row[k] \in Int}
<1>15. T \subseteq Nat /\ 0 \in T
  BY <1>3
<1>16. ASSUME NEW n \in T PROVE n + 1 \in T
  <2>1. n \in Nat /\ \A k \in S : rank[k] < n => row[k] \in Int
    OBVIOUS
  <2>2. ASSUME NEW k \in S, rank[k] < n + 1 PROVE row[k] \in Int
    <3>1. ASSUME NEW l \in S, rank[l] < rank[k] PROVE row[l] \in Int
      <4>1. rank[k] \in Nat /\ rank[l] \in Nat
        BY <1>3
      <4>2. rank[l] < n
        BY <2>1, <2>2, <3>1, <4>1
      <4> QED
        BY <2>1, <4>2
    <3>2. kids[k] # <<>> => row[Head(kids[k])] \in Int /\ row[Last(kids[k])] \in Int
      BY <1>4, <3>1
    <3>3. Step(k, row) \in Int
      BY <1>5, <3>2
    <3> QED
      BY <1>14, <3>3
  <2> QED
    BY <2>1, <2>2
<1> HIDE DEF T
<1>17. M + 1 \in T
  BY <1>15, <1>16, SetInduction
<1>18. \A k \in S : row[k] \in Int
  <2>1. \A k \in S : rank[k] < M + 1
    BY <1>3
  <2> QED
    BY <1>17, <2>1 DEF T
<1>19. \A k \in S : row[k] = IF k = root THEN 0 ELSE Center(kids, top, own, row, k)
  BY <1>14 DEF Step
<1> QED
  BY <1>18, <1>19

\* A row of which nothing is left out stays as it is.
LEMMA AmongEverything ==
  ASSUME NEW S, NEW s \in Seq(S), NEW T, ToSet(s) \subseteq T
  PROVE  Among(s, T) = s
<1> DEFINE V == Seq(S)
           step == [p \in (1 .. Len(s)) \X V |-> Append(p[2], s[p[1]])]
           Equation(f) == f = [n \in 0 .. Len(s) |->
              IF n = 0 THEN <<>> ELSE IF s[n] \in T THEN Append(f[n - 1], s[n]) ELSE f[n - 1]]
           kept == CHOOSE f : Equation(f)
<1>1. Len(s) \in Nat /\ <<>> \in V /\ \A n \in 1 .. Len(s) : s[n] \in S /\ s[n] \in T
  <2>1. \A n \in 1 .. Len(s) : s[n] \in ToSet(s)
    BY SeqParts
  <2> QED
    BY <2>1, SeqParts
<1>2. \A q \in V : \A n \in 1 .. Len(s) : Append(q, s[n]) \in V
  BY <1>1, AppendParts
<1>3. step \in [(1 .. Len(s)) \X V -> V]
  BY <1>2
<1>4. \A n \in 1 .. Len(s) : \A q \in V : step[<<n, q>>] = Append(q, s[n])
  OBVIOUS
<1> HIDE DEF step
<1>5. PICK f : Iterates(f, Len(s), V, <<>>, step)
  <2> HIDE DEF V
  <2> QED
    BY <1>1, <1>3, Iteration
<1>6. f \in [0 .. Len(s) -> V] /\ f[0] = <<>> /\ \A n \in 1 .. Len(s) : f[n] = Append(f[n - 1], s[n])
  <2>1. f \in [0 .. Len(s) -> V] /\ f[0] = <<>> /\ \A n \in 1 .. Len(s) : f[n] = step[<<n, f[n - 1]>>]
    BY <1>5 DEF Iterates
  <2>2. \A n \in 1 .. Len(s) : f[n - 1] \in V
    BY SMTT(30), <1>1, <2>1
  <2> QED
    BY <1>4, <2>1, <2>2
<1>7. Equation(f)
  <2>1. \A n \in 0 .. Len(s) : n # 0 => n \in 1 .. Len(s)
    BY <1>1
  <2>2. \A n \in 0 .. Len(s) : n # 0 => f[n] = Append(f[n - 1], s[n]) /\ s[n] \in T
    BY <1>1, <1>6, <2>1
  <2> QED
    BY <1>6, <2>2
<1>8. Equation(kept)
  BY <1>7
<1>9. Among(s, T) = kept[Len(s)]
  BY DEF Among
<1> HIDE DEF kept
<1>10. kept[0] = <<>> /\ \A n \in 1 .. Len(s) : kept[n] = Append(kept[n - 1], s[n])
  <2>1. 0 \in 0 .. Len(s) /\ \A n \in 1 .. Len(s) : n \in 0 .. Len(s) /\ n # 0
    BY <1>1
  <2> QED
    BY <1>1, <1>8, <2>1
<1> DEFINE Good(n) == kept[n] \in V /\ Len(kept[n]) = n /\ \A i \in 1 .. n : kept[n][i] = s[i]
           N == {n \in Nat : n <= Len(s) => Good(n)}
<1>11. Good(0)
  <2>1. Len(<<>>) = 0 /\ 1 .. 0 = {}
    OBVIOUS
  <2> QED
    BY <1>1, <1>10, <2>1
<1>12. ASSUME NEW n \in Nat, n + 1 <= Len(s), Good(n) PROVE Good(n + 1)
  <2> DEFINE q == kept[n]
             e == s[n + 1]
  <2>1. n + 1 \in 1 .. Len(s) /\ (n + 1) - 1 = n /\ e \in S
    BY <1>1, <1>12
  <2>2. kept[n + 1] = Append(q, e)
    BY <1>10, <2>1
  <2>3. q \in Seq(S) /\ Len(q) = n /\ \A i \in 1 .. n : q[i] = s[i]
    BY <1>12
  <2> HIDE DEF q
  <2>4. Append(q, e) \in Seq(S) /\ Len(Append(q, e)) = n + 1 /\ Append(q, e)[n + 1] = e
        /\ \A i \in 1 .. n : Append(q, e)[i] = q[i]
    BY <2>1, <2>3, AppendParts
  <2>5. \A i \in 1 .. n + 1 : i \in 1 .. n \/ i = n + 1
    BY <1>12
  <2>6. \A i \in 1 .. n + 1 : Append(q, e)[i] = s[i]
    BY <2>3, <2>4, <2>5
  <2> QED
    BY <2>2, <2>4, <2>6
<1>13. N = Nat
  <2> HIDE DEF Good
  <2>1. N \in SUBSET Nat /\ 0 \in N
    BY <1>11
  <2>2. ASSUME NEW n \in N PROVE n + 1 \in N
    <3>1. n + 1 <= Len(s) => n <= Len(s)
      BY <1>1
    <3> QED
      BY <1>12, <3>1
  <2> HIDE DEF N
  <2> QED
    BY <2>1, <2>2, SetInduction
<1>14. Good(Len(s))
  <2> HIDE DEF Good
  <2>1. Len(s) \in N
    BY <1>1, <1>13
  <2> QED
    BY <1>1, <2>1
<1>15. kept[Len(s)] = s
  BY <1>14, SeqEqual
<1> QED
  BY <1>9, <1>15

-----------------------------------------------------------------------------
(* The layout of a part that hangs together.                               *)

\* A part that hangs together, its rows in the order of the keys.
Grows(S, kids, root, side) ==
  /\ Hung(S, kids, root, side) /\ DOMAIN side \subseteq Seq(Nat)
  /\ \A k \in DOMAIN side : StepsGrow(kids[k], k)

\* It can be measured from the leaves up.
LEMMA GrowsDown ==
  ASSUME NEW S, NEW kids, NEW root, NEW side, Grows(S, kids, root, side)
  PROVE  Descends(DOMAIN side, kids)
<1> DEFINE V == DOMAIN side
<1>1. V \subseteq Seq(Nat) /\ IsFiniteSet(V)
      /\ \A k \in V : k \in S /\ \A c \in ToSet(kids[k]) : c \in V \ {root} /\ Above(c) = k
  BY DEF Grows, Hung
<1>2. \A k \in V : kids[k] \in Seq(Seq(Nat))
  BY <1>1 DEF Grows, Hung
<1>3. \A k \in V \ {root} : k # <<>>
  BY DEF Grows, Hung
<1> HIDE DEF V
<1>4. ASSUME NEW k \in V PROVE kids[k] \in Seq(V) /\ \A n \in 1 .. Len(kids[k]) : Len(kids[k][n]) > Len(k)
  <2> DEFINE s == kids[k]
  <2>1. s \in Seq(Seq(Nat)) /\ \A c \in ToSet(s) : c \in V \ {root} /\ Above(c) = k
    BY <1>1, <1>2
  <2> HIDE DEF s
  <2>2. Len(s) \in Nat /\ s \in [1 .. Len(s) -> Seq(Nat)] /\ \A n \in 1 .. Len(s) : s[n] \in ToSet(s)
    BY <2>1, SeqParts
  <2>3. s \in Seq(V)
    BY <2>1, <2>2, SeqDef
  <2>4. ASSUME NEW n \in 1 .. Len(s) PROVE Len(s[n]) > Len(k)
    <3> DEFINE c == s[n]
    <3>1. c \in V \ {root} /\ Above(c) = k
      BY <2>1, <2>2
    <3> HIDE DEF c
    <3>2. c \in Seq(Nat) /\ c # <<>>
      BY <1>1, <1>3, <3>1
    <3>3. k \in Seq(Nat) /\ Last(c) \in Nat /\ c = Append(k, Last(c))
      BY <3>1, <3>2, AboveParts
    <3>4. Len(c) = Len(k) + 1 /\ Len(k) \in Nat
      BY <3>3, StepsOfKey
    <3>5. Len(c) > Len(k)
      BY <3>4
    <3> QED
      BY <3>5 DEF c
  <2> QED
    BY <2>3, <2>4 DEF s
<1>5. Descends(V, kids)
  BY <1>1, <1>4 DEF Descends
<1> QED
  BY <1>5 DEF V

\* The stack of a node, and where it is in it: in the order of the keys.  Only
\* the root's children are in two stacks.
LEMMA StackParts ==
  ASSUME NEW S, NEW kids, NEW root, NEW side, Grows(S, kids, root, side),
         NEW k \in DOMAIN side \ {root}, NEW s, s = Stack(kids, side, k)
  PROVE  /\ s \in Seq(DOMAIN side) /\ k \in ToSet(s)
         /\ \A c \in ToSet(s) : c \in DOMAIN side \ {root} /\ Above(c) = Above(k) /\ side[c] = side[k]
         /\ Above(k) \in DOMAIN side
         /\ Above(k) # root => s = kids[Above(k)]
         /\ StepsGrow(s, Above(k))
<1> DEFINE V == DOMAIN side
           p == Above(k)
           q == kids[p]
           T == {c \in V : side[c] = side[k]}
<1>1. /\ p \in V /\ k \in ToSet(q)
      /\ \A c \in V : c \in S /\ \A d \in ToSet(kids[c]) : d \in V \ {root} /\ Above(d) = c
      /\ \A c \in V \ {root} : Above(c) # root => side[Above(c)] = side[c]
  BY DEF Grows, Hung
<1>2. q \in Seq(Seq(Nat)) /\ IsInjective(q) /\ StepsGrow(q, p)
  BY <1>1 DEF Grows, Hung
<1>3. s = Among(q, T)
  BY DEF Stack
<1>4. \A d \in ToSet(q) : d \in V \ {root} /\ Above(d) = p
  BY <1>1
<1>5. \A c : c \in T <=> c \in V /\ side[c] = side[k]
  OBVIOUS
<1>6. p # root => \A d \in ToSet(q) : side[d] = side[k]
  BY <1>1, <1>4
<1> HIDE DEF q, T, V
<1>7. /\ s \in Seq(Seq(Nat)) /\ ToSet(s) = ToSet(q) \cap T /\ InOrder(s, q) /\ IsInjective(s)
  BY <1>2, <1>3, AmongAll
<1>8. k \in ToSet(s) /\ \A c \in ToSet(s) : c \in V \ {root} /\ Above(c) = p /\ side[c] = side[k]
  BY <1>1, <1>4, <1>5, <1>7 DEF V
<1>9. s \in Seq(V)
  <2>1. Len(s) \in Nat /\ s \in [1 .. Len(s) -> Seq(Nat)] /\ \A n \in 1 .. Len(s) : s[n] \in ToSet(s)
    BY <1>7, SeqParts
  <2> QED
    BY <1>8, <2>1, SeqDef
<1>10. p # root => s = q
  <2>1. p # root => ToSet(q) \subseteq T
    BY <1>4, <1>5, <1>6
  <2> QED
    BY <1>2, <1>3, <2>1, AmongEverything
<1>11. StepsGrow(s, p)
  <2> SUFFICES ASSUME NEW a \in 1 .. Len(s), NEW c \in 1 .. Len(s), NEW i \in Nat, NEW j \in Nat,
                      a < c, s[a] = Append(p, i), s[c] = Append(p, j)
               PROVE  i < j
    BY DEF StepsGrow
  <2>0. \A x : x \in ToSet(q) <=> \E n \in 1 .. Len(q) : q[n] = x
    BY <1>2, SeqParts
  <2>1. s[a] \in ToSet(q) /\ s[c] \in ToSet(q)
    BY <1>7, SeqParts
  <2>2. PICK m \in 1 .. Len(q) : q[m] = s[a]
    BY <2>0, <2>1
  <2>3. PICK n \in 1 .. Len(q) : q[n] = s[c]
    BY <2>0, <2>1
  <2>4. m < n
    BY <1>7, <2>2, <2>3 DEF InOrder
  <2> QED
    BY <1>2, <2>2, <2>3, <2>4 DEF StepsGrow
<1> QED
  BY <1>1, <1>8, <1>9, <1>10, <1>11 DEF V, q

\* It can be given rows from the root down.
LEMMA GrowsStacked ==
  ASSUME NEW S, NEW kids, NEW root, NEW side, Grows(S, kids, root, side)
  PROVE  Stacks(DOMAIN side, kids, root, side)
<1>1. DOMAIN side \subseteq Seq(Nat) /\ IsFiniteSet(DOMAIN side)
  BY DEF Grows, Hung
<1>2. ASSUME NEW k \in DOMAIN side \ {root}
      PROVE  /\ Stack(kids, side, k) \in Seq(DOMAIN side) /\ k \in ToSet(Stack(kids, side, k))
             /\ Above(k) \in DOMAIN side /\ Len(Above(k)) < Len(k)
  <2>1. /\ Stack(kids, side, k) \in Seq(DOMAIN side) /\ k \in ToSet(Stack(kids, side, k))
        /\ Above(k) \in DOMAIN side
    BY StackParts
  <2>2. k \in Seq(Nat) /\ k # <<>>
    BY <1>1 DEF Grows, Hung
  <2>3. Above(k) \in Seq(Nat) /\ Last(k) \in Nat /\ k = Append(Above(k), Last(k))
    BY <2>2, AboveParts
  <2>4. Len(k) = Len(Above(k)) + 1 /\ Len(Above(k)) \in Nat
    BY <2>3, StepsOfKey
  <2>5. Len(Above(k)) < Len(k)
    BY <2>4
  <2> QED
    BY <2>1, <2>5
<1> QED
  BY <1>1, <1>2 DEF Stacks

\* Of two in one stack, the one with the smaller step comes first.
LEMMA StackOrder ==
  ASSUME NEW S, NEW kids, NEW root, NEW side, Grows(S, kids, root, side),
         NEW k \in DOMAIN side \ {root}, NEW l \in DOMAIN side \ {root},
         Above(k) = Above(l), side[k] = side[l], Last(k) < Last(l),
         NEW s, s = Stack(kids, side, k)
  PROVE  /\ s = Stack(kids, side, l)
         /\ Place(s, k) \in 1 .. Len(s) /\ Place(s, l) \in 1 .. Len(s) /\ Place(s, k) < Place(s, l)
<1>1. s = Stack(kids, side, l)
  BY DEF Stack
<1>2. s \in Seq(DOMAIN side) /\ k \in ToSet(s) /\ l \in ToSet(s) /\ StepsGrow(s, Above(k))
  <2>1. s \in Seq(DOMAIN side) /\ k \in ToSet(s) /\ StepsGrow(s, Above(k))
    BY StackParts
  <2>2. l \in ToSet(s)
    BY <1>1, StackParts
  <2> QED
    BY <2>1, <2>2
<1>3. k \in Seq(Nat) /\ k # <<>> /\ l \in Seq(Nat) /\ l # <<>>
  BY DEF Grows, Hung
<1>4. PICK i \in Nat : i = Last(k) /\ k = Append(Above(k), i)
  BY <1>3, AboveParts
<1>5. PICK j \in Nat : j = Last(l) /\ l = Append(Above(k), j)
  BY <1>3, AboveParts
<1> DEFINE m == Place(s, k)
           n == Place(s, l)
<1>6. m \in 1 .. Len(s) /\ s[m] = k /\ n \in 1 .. Len(s) /\ s[n] = l
  BY <1>2, PlaceParts
<1> HIDE DEF m, n
<1>7. i < j /\ ~(j < i)
  BY <1>4, <1>5
<1>8. m # n
  <2>1. Append(Above(k), i) = Append(Above(k), j) => i = j
    BY <1>3, AboveParts, StepsOfKey
  <2>2. i # j
    BY <1>7
  <2> QED
    BY <1>4, <1>5, <1>6, <2>1, <2>2
<1>9. ~(n < m)
  BY <1>2, <1>4, <1>5, <1>6, <1>7 DEF StepsGrow
<1>10. m < n
  BY <1>6, <1>8, <1>9
<1> QED
  BY <1>1, <1>6, <1>10 DEF m, n

\* The rows that are kept for every node with what is below it: h of them from top on.
Rowed(S, kids, root, side, own, h, top) ==
  /\ Grows(S, kids, root, side)
  /\ \A k \in DOMAIN side :
       /\ own[k] \in Nat \ {0} /\ h[k] \in Nat \ {0}
       /\ h[k] = Height(own[k], AllRowsOf(h, kids[k]))
  /\ \A k \in DOMAIN side \ {root} :
       /\ top[k] \in Int
       /\ top[k] = RowsOf(h, Stack(kids, side, k), Place(Stack(kids, side, k), k) - 1)
                   + IF Above(k) = root THEN - ((AllRowsOf(h, Stack(kids, side, k)) - 1) \div 2)
                     ELSE top[Above(k)]

\* The layout keeps such rows.
LEMMA LayoutRowed ==
  ASSUME NEW S, NEW kids, NEW root, NEW side, Grows(S, kids, root, side),
         NEW own \in [DOMAIN side -> Nat \ {0}],
         NEW h, h = Heights(kids, own), NEW top, top = Tops(kids, root, side, h)
  PROVE  Rowed(S, kids, root, side, own, h, top)
<1> DEFINE V == DOMAIN side
<1>1. Descends(V, kids) /\ Stacks(V, kids, root, side) /\ own \in [V -> Nat \ {0}]
  BY GrowsDown, GrowsStacked
<1> HIDE DEF V
<1>2. \A k \in V : h[k] \in Nat \ {0} /\ h[k] = Height(own[k], AllRowsOf(h, kids[k]))
  BY <1>1, HeightParts
<1>3. \A k \in V : h[k] \in Nat
  BY <1>2
<1>4. \A k \in V \ {root} : LET s == Stack(kids, side, k) IN
        /\ top[k] \in Int
        /\ top[k] = RowsOf(h, s, Place(s, k) - 1)
                    + IF Above(k) = root THEN - ((AllRowsOf(h, s) - 1) \div 2) ELSE top[Above(k)]
  BY <1>1, <1>3, TopParts
<1>5. \A k \in V : own[k] \in Nat \ {0}
  BY <1>1
<1> QED
  BY <1>2, <1>4, <1>5 DEF Rowed, V

\* The children of a node lie in its rows, from the first on.
LEMMA ChildrenWithin ==
  ASSUME NEW S, NEW kids, NEW root, NEW side, NEW own, NEW h, NEW top,
         Rowed(S, kids, root, side, own, h, top),
         NEW c \in DOMAIN side \ {root}, NEW p, p = Above(c), p # root
  PROVE  /\ p \in DOMAIN side /\ c \in ToSet(kids[p]) /\ kids[p] \in Seq(DOMAIN side)
         /\ AllRowsOf(h, kids[p]) \in Nat /\ AllRowsOf(h, kids[p]) <= h[p]
         /\ top[p] <= top[c] /\ top[c] + h[c] <= top[p] + AllRowsOf(h, kids[p])
         /\ \A n \in 1 .. Len(kids[p]) : /\ kids[p][n] = c /\ n = 1 => top[c] = top[p]
                                         /\ kids[p][n] = c /\ n # Len(kids[p]) => top[c] + h[c] < top[p] + AllRowsOf(h, kids[p])
<1> DEFINE s == kids[p]
           at == Place(s, c)
           n0 == at - 1
<1>1. Grows(S, kids, root, side)
  BY DEF Rowed
<1>2. s = Stack(kids, side, c) /\ s \in Seq(DOMAIN side) /\ c \in ToSet(s) /\ p \in DOMAIN side
  BY <1>1, StackParts
<1>3. /\ \A k \in DOMAIN side : h[k] \in Nat \ {0}
      /\ h[p] = Height(own[p], AllRowsOf(h, s)) /\ own[p] \in Nat \ {0}
  BY <1>2 DEF Rowed
<1>4. /\ top[c] \in Int /\ top[p] \in Int
      /\ top[c] = RowsOf(h, s, n0) + top[p]
  <2>1. p \in DOMAIN side \ {root}
    BY <1>2
  <2>2. Stack(kids, side, c) = s
    BY <1>2
  <2>3. top[c] \in Int /\ top[p] \in Int
    BY <2>1 DEF Rowed
  <2>4. top[c] = RowsOf(h, Stack(kids, side, c), Place(Stack(kids, side, c), c) - 1)
                   + IF Above(c) = root THEN - ((AllRowsOf(h, Stack(kids, side, c)) - 1) \div 2)
                     ELSE top[Above(c)]
    BY DEF Rowed
  <2> QED
    BY <2>2, <2>3, <2>4
<1>5. IsInjective(s)
  BY <1>1, <1>2 DEF Grows, Hung
<1> HIDE DEF s
<1>6. at \in 1 .. Len(s) /\ s[at] = c /\ Len(s) \in Nat /\ DOMAIN s = 1 .. Len(s)
  BY <1>2, PlaceParts
<1> HIDE DEF at
<1>7. \A n \in 1 .. Len(s) : h[s[n]] \in Nat /\ h[s[n]] > 0
  <2>1. \A n \in 1 .. Len(s) : s[n] \in DOMAIN side
    BY <1>2, ElementOfSeq
  <2>2. \A k \in DOMAIN side : h[k] \in Nat /\ h[k] > 0
    BY <1>3
  <2> QED
    BY <2>1, <2>2
<1>8. /\ AllRowsOf(h, s) \in Nat
      /\ \A n \in 1 .. Len(s) : /\ RowsOf(h, s, n - 1) \in Nat
                                /\ RowsOf(h, s, n - 1) + h[s[n]] <= AllRowsOf(h, s)
                                /\ n = 1 => RowsOf(h, s, n - 1) = 0
      /\ \A m, n \in 1 .. Len(s) : m < n => RowsOf(h, s, m - 1) + h[s[m]] <= RowsOf(h, s, n - 1)
  BY <1>2, <1>7, RowsOfParts
<1>9. RowsOf(h, s, n0) \in Nat /\ RowsOf(h, s, n0) + h[c] <= AllRowsOf(h, s) /\ (at = 1 => RowsOf(h, s, n0) = 0)
      /\ h[c] \in Nat
  BY <1>6, <1>7, <1>8
<1>10. at # Len(s) => RowsOf(h, s, n0) + h[c] < AllRowsOf(h, s)
  <2> SUFFICES ASSUME at # Len(s) PROVE RowsOf(h, s, n0) + h[c] < AllRowsOf(h, s)
    OBVIOUS
  <2>0. at \in Nat /\ 1 <= at /\ at <= Len(s) /\ Len(s) \in Nat
    <3> DEFINE L == Len(s)
    <3>1. at \in 1 .. L /\ L \in Nat
      BY <1>6
    <3> HIDE DEF L
    <3>2. at \in Nat /\ 1 <= at /\ at <= L
      BY <3>1
    <3> QED
      BY <3>1, <3>2 DEF L
  <2>1. PICK m \in 1 .. Len(s) : m = Len(s) /\ at < m
    <3>1. Len(s) \in 1 .. Len(s) /\ at < Len(s)
      BY <2>0
    <3> QED
      BY <3>1
  <2>2. RowsOf(h, s, at - 1) + h[s[at]] <= RowsOf(h, s, m - 1)
    BY <1>6, <1>8, <2>1
  <2>3. RowsOf(h, s, m - 1) + h[s[m]] <= AllRowsOf(h, s) /\ RowsOf(h, s, m - 1) \in Nat
        /\ h[s[m]] \in Nat /\ h[s[m]] > 0
    BY <1>7, <1>8, <2>1
  <2> QED
    <3>1. RowsOf(h, s, n0) + h[c] <= RowsOf(h, s, m - 1)
      BY <1>6, <2>2
    <3>2. AllRowsOf(h, s) \in Nat /\ RowsOf(h, s, n0) \in Nat /\ h[c] \in Nat
      BY <1>8, <1>9
    <3> HIDE DEF n0
    <3> QED
      BY <2>3, <3>1, <3>2
<1> HIDE DEF n0
<1>11. AllRowsOf(h, s) <= h[p]
  BY <1>3, <1>8 DEF Height
<1>12. top[p] <= top[c] /\ top[c] + h[c] <= top[p] + AllRowsOf(h, s)
  BY <1>4, <1>8, <1>9
<1>13. at = 1 => top[c] = top[p]
  BY <1>4, <1>9
<1>14. at # Len(s) => top[c] + h[c] < top[p] + AllRowsOf(h, s)
  BY <1>4, <1>8, <1>9, <1>10
<1>15. \A n \in 1 .. Len(s) : s[n] = c => n = at
  BY <1>5, <1>6 DEF IsInjective
<1> QED
  BY <1>2, <1>8, <1>11, <1>12, <1>13, <1>14, <1>15 DEF s

\* Of two in one stack, the rows of the first end above those of the second.
LEMMA SiblingsApart ==
  ASSUME NEW S, NEW kids, NEW root, NEW side, NEW own, NEW h, NEW top,
         Rowed(S, kids, root, side, own, h, top),
         NEW k \in DOMAIN side \ {root}, NEW l \in DOMAIN side \ {root},
         Above(k) = Above(l), side[k] = side[l], Last(k) < Last(l)
  PROVE  top[k] + h[k] <= top[l]
<1> DEFINE s == Stack(kids, side, k)
           m == Place(s, k)
           n == Place(s, l)
           off == IF Above(k) = root THEN - ((AllRowsOf(h, s) - 1) \div 2) ELSE top[Above(k)]
<1>1. Grows(S, kids, root, side)
  BY DEF Rowed
<1>2. s = Stack(kids, side, l) /\ m \in 1 .. Len(s) /\ n \in 1 .. Len(s) /\ m < n
  BY <1>1, StackOrder
<1>3. s \in Seq(DOMAIN side) /\ k \in ToSet(s) /\ l \in ToSet(s) /\ Above(k) \in DOMAIN side
  <2>1. s \in Seq(DOMAIN side) /\ k \in ToSet(s) /\ Above(k) \in DOMAIN side
    BY <1>1, StackParts
  <2>2. l \in ToSet(s)
    BY <1>1, <1>2, StackParts
  <2> QED
    BY <2>1, <2>2
<1>4. top[k] = RowsOf(h, s, m - 1) + off
  BY DEF Rowed
<1>5. top[l] = RowsOf(h, s, n - 1) + off
  <2>1. top[l] = RowsOf(h, Stack(kids, side, l), Place(Stack(kids, side, l), l) - 1)
                   + IF Above(l) = root THEN - ((AllRowsOf(h, Stack(kids, side, l)) - 1) \div 2)
                     ELSE top[Above(l)]
    BY DEF Rowed
  <2>2. Stack(kids, side, l) = s
    BY <1>2
  <2> HIDE DEF s
  <2> QED
    BY <2>1, <2>2
<1>6. \A c \in DOMAIN side : h[c] \in Nat
  BY DEF Rowed
<1>7. Above(k) # root => top[Above(k)] \in Int
  BY <1>3 DEF Rowed
<1> HIDE DEF s
<1>8. s[m] = k /\ s[n] = l
  BY <1>3, PlaceParts
<1> HIDE DEF m, n
<1>9. \A i \in 1 .. Len(s) : h[s[i]] \in Nat
  BY <1>3, <1>6, ElementOfSeq
<1>10. /\ AllRowsOf(h, s) \in Nat
       /\ \A i \in 1 .. Len(s) : RowsOf(h, s, i - 1) \in Nat
       /\ \A i, j \in 1 .. Len(s) : i < j => RowsOf(h, s, i - 1) + h[s[i]] <= RowsOf(h, s, j - 1)
  BY <1>3, <1>9, RowsOfParts
<1>11. /\ RowsOf(h, s, m - 1) \in Nat /\ RowsOf(h, s, n - 1) \in Nat /\ h[k] \in Nat
       /\ RowsOf(h, s, m - 1) + h[k] <= RowsOf(h, s, n - 1)
  BY <1>2, <1>6, <1>8, <1>10
<1>12. off \in Int
  BY <1>7, <1>10
<1> HIDE DEF off
<1> QED
  BY <1>4, <1>5, <1>11, <1>12

\* Which of two keys comes first shows at the last step, or further up.
LEMMA EarlierAbove ==
  ASSUME NEW p \in Seq(Nat), NEW i \in Nat, NEW q \in Seq(Nat), NEW j \in Nat, Len(p) = Len(q),
         Earlier(Append(p, i), Append(q, j))
  PROVE  Earlier(p, q) \/ (p = q /\ i < j)
<1> DEFINE k == Append(p, i)
           l == Append(q, j)
           L == Len(p)
<1>1. /\ k \in Seq(Nat) /\ Len(k) = L + 1 /\ L \in Nat /\ k[L + 1] = i
      /\ \A n \in 1 .. L : k[n] = p[n]
      /\ \A n \in 0 .. L : SubSeq(k, 1, n) = SubSeq(p, 1, n)
      /\ SubSeq(p, 1, L) = p
  BY AppendParts, StepsOfKey
<1>2. /\ l \in Seq(Nat) /\ Len(l) = L + 1 /\ l[L + 1] = j
      /\ \A n \in 1 .. L : l[n] = q[n]
      /\ \A n \in 0 .. L : SubSeq(l, 1, n) = SubSeq(q, 1, n)
      /\ SubSeq(q, 1, L) = q
  BY AppendParts, StepsOfKey
<1>3. DOMAIN k = 1 .. L + 1 /\ DOMAIN p = 1 .. L /\ DOMAIN q = 1 .. L
  BY <1>1, SeqParts
<1>4. Earlier(k, l)
  OBVIOUS
<1> HIDE DEF k, l, L
<1>5. PICK n \in 1 .. L + 1 : SubSeq(k, 1, n - 1) = SubSeq(l, 1, n - 1) /\ k[n] < l[n]
  BY <1>3, <1>4 DEF Earlier
<1>6. n - 1 \in 0 .. L /\ (n \in 1 .. L \/ n = L + 1) /\ (n = L + 1 => n - 1 = L)
  BY <1>1, <1>5
<1>7. SubSeq(p, 1, n - 1) = SubSeq(q, 1, n - 1)
  BY <1>1, <1>2, <1>5, <1>6
<1>8. CASE n \in 1 .. L
  <2>1. p[n] < q[n]
    BY <1>1, <1>2, <1>5, <1>8
  <2>2. Earlier(p, q)
    BY <1>3, <1>7, <1>8, <2>1 DEF Earlier
  <2> QED
    BY <2>2
<1>9. CASE n = L + 1
  <2>1. p = q
    BY <1>1, <1>2, <1>6, <1>7, <1>9
  <2>2. i < j
    BY <1>1, <1>2, <1>5, <1>9
  <2> QED
    BY <2>1, <2>2
<1> QED
  BY <1>6, <1>8, <1>9

\* The last step of the longer one does not matter.
LEMMA EarlierShorter ==
  ASSUME NEW p \in Seq(Nat), NEW i \in Nat, NEW l \in Seq(Nat), Len(l) <= Len(p)
  PROVE  /\ Earlier(Append(p, i), l) => Earlier(p, l)
         /\ Earlier(l, Append(p, i)) => Earlier(l, p)
<1> DEFINE k == Append(p, i)
           L == Len(p)
<1>1. /\ k \in Seq(Nat) /\ L \in Nat /\ Len(l) \in Nat /\ Len(l) <= L
      /\ \A n \in 1 .. L : k[n] = p[n]
      /\ \A n \in 0 .. L : SubSeq(k, 1, n) = SubSeq(p, 1, n)
  BY AppendParts, StepsOfKey, SeqParts
<1>2. DOMAIN l = 1 .. Len(l) /\ DOMAIN p = 1 .. L
  BY SeqParts
<1> HIDE DEF k, L
<1>3. ASSUME NEW n \in DOMAIN l
      PROVE  /\ n \in DOMAIN p /\ k[n] = p[n] /\ SubSeq(k, 1, n - 1) = SubSeq(p, 1, n - 1)
  <2>1. n \in 1 .. L /\ n - 1 \in 0 .. L
    <3>1. n \in 1 .. Len(l)
      BY <1>2
    <3> QED
      BY <1>1, <3>1
  <2> QED
    BY <1>1, <1>2, <2>1
<1>4. Earlier(k, l) => Earlier(p, l)
  BY <1>3 DEF Earlier
<1>5. Earlier(l, k) => Earlier(l, p)
  BY <1>3 DEF Earlier
<1> QED
  BY <1>4, <1>5 DEF k

\* No key comes before itself.
LEMMA NotEarlier ==
  ASSUME NEW k \in Seq(Nat)
  PROVE  ~Earlier(k, k)
<1>1. \A n \in DOMAIN k : k[n] \in Nat
  BY ElementOfSeq, SeqParts
<1>2. \A i \in Nat : ~(i < i)
  OBVIOUS
<1> QED
  BY <1>1, <1>2 DEF Earlier

\* The first comes before the second, on one side.
Before(side, k, l) == side[k] = side[l] /\ Earlier(k, l)

\* The root is alone at its depth, and nothing is above it.
LEMMA RootAlone ==
  ASSUME NEW S, NEW kids, NEW root, NEW side, Grows(S, kids, root, side),
         NEW k \in DOMAIN side, Len(k) <= Len(root)
  PROVE  k = root
<1>1. root \in Seq(Nat) /\ k \in Seq(Nat) /\ IsPrefix(root, k)
  BY DEF Grows, Hung
<1>2. Len(root) <= Len(k) /\ SubSeq(root, 1, Len(root)) = SubSeq(k, 1, Len(root))
  BY <1>1 DEF IsPrefix
<1>3. SubSeq(k, 1, Len(k)) = k /\ SubSeq(root, 1, Len(root)) = root /\ Len(k) \in Nat /\ Len(root) \in Nat
  BY <1>1, StepsOfKey
<1>4. Len(k) = Len(root)
  <2> DEFINE m == Len(k)
             n == Len(root)
  <2>1. m \in Nat /\ n \in Nat /\ n <= m /\ m <= n
    BY <1>2, <1>3
  <2> HIDE DEF m, n
  <2>2. m = n
    BY <2>1
  <2> QED
    BY <2>2 DEF m, n
<1> QED
  BY <1>2, <1>3, <1>4

\* Rows that are kept do not overlap: those of the earlier node end above.
LEMMA RowsApart ==
  ASSUME NEW S, NEW kids, NEW root, NEW side, NEW own, NEW h, NEW top,
         Rowed(S, kids, root, side, own, h, top)
  PROVE  \A k, l \in DOMAIN side \ {root} : Before(side, k, l) => top[k] + h[k] <= top[l]
<1> DEFINE V == DOMAIN side \ {root}
           Apart(k, l) == top[k] + h[k] <= top[l]
           T == {n \in Nat : \A k, l \in V : Len(k) + Len(l) < n /\ Before(side, k, l) => Apart(k, l)}
<1>1. /\ Grows(S, kids, root, side) /\ root \in DOMAIN side
      /\ \A k \in V : k \in Seq(Nat) /\ k # <<>> /\ Above(k) \in DOMAIN side /\ Len(k) \in Nat
      /\ \A k \in V : Above(k) # root => side[Above(k)] = side[k]
  <2>1. Grows(S, kids, root, side)
    BY DEF Rowed
  <2>2. \A k \in V : k \in Seq(Nat)
    BY <2>1 DEF Grows
  <2>3. \A k \in V : Len(k) \in Nat
    BY <2>2
  <2> QED
    BY <2>1, <2>2, <2>3 DEF Grows, Hung
<1>2. \A k \in V : top[k] \in Int /\ h[k] \in Nat
  BY DEF Rowed
<1>3. /\ \A k \in V : k \in DOMAIN side \ {root}
      /\ \A k \in DOMAIN side : k # root => k \in V
  OBVIOUS
<1> HIDE DEF V
\* what one hangs from has its rows around it
<1>4. ASSUME NEW k \in V, Above(k) # root
      PROVE  /\ Above(k) \in V /\ top[Above(k)] <= top[k] /\ top[k] + h[k] <= top[Above(k)] + h[Above(k)]
  <2> DEFINE p == Above(k)
  <2>1. p \in V /\ k \in DOMAIN side \ {root}
    BY <1>1, <1>3, <1>4
  <2>2. /\ AllRowsOf(h, kids[p]) \in Nat /\ AllRowsOf(h, kids[p]) <= h[p]
        /\ top[k] + h[k] <= top[p] + AllRowsOf(h, kids[p]) /\ top[p] <= top[k]
    BY <1>4, <2>1, ChildrenWithin
  <2>3. top[k] \in Int /\ top[p] \in Int /\ h[k] \in Nat /\ h[p] \in Nat
    BY <1>2, <2>1
  <2> HIDE DEF p
  <2>4. top[k] + h[k] <= top[p] + h[p]
    BY <2>2, <2>3
  <2> QED
    BY <2>1, <2>2, <2>4 DEF p
<1>5. ASSUME NEW k \in V
      PROVE  /\ Above(k) \in Seq(Nat) /\ Last(k) \in Nat /\ k = Append(Above(k), Last(k))
             /\ Len(k) = Len(Above(k)) + 1 /\ Len(Above(k)) \in Nat
  <2>1. Above(k) \in Seq(Nat) /\ Last(k) \in Nat /\ k = Append(Above(k), Last(k))
    BY <1>1, AboveParts
  <2>2. Len(k) = Len(Above(k)) + 1 /\ Len(Above(k)) \in Nat
    BY <2>1, StepsOfKey
  <2> QED
    BY <2>1, <2>2
<1>6. \A k \in V : ~(Len(k) <= Len(root))
  BY <1>1, <1>3, RootAlone
<1>7. T \subseteq Nat /\ 0 \in T
  <2>1. \A k, l \in V : ~(Len(k) + Len(l) < 0)
    BY <1>1
  <2> QED
    BY <2>1
<1>8. ASSUME NEW n \in T PROVE n + 1 \in T
  <2>1. n \in Nat /\ \A k, l \in V : Len(k) + Len(l) < n /\ Before(side, k, l) => Apart(k, l)
    OBVIOUS
  <2> HIDE DEF T
  <2>2. ASSUME NEW k \in V, NEW l \in V, Len(k) + Len(l) < n + 1, Before(side, k, l) PROVE Apart(k, l)
    <3> DEFINE p == Above(k)
               q == Above(l)
    <3>1. /\ p \in Seq(Nat) /\ Last(k) \in Nat /\ k = Append(p, Last(k)) /\ p \in DOMAIN side
          /\ q \in Seq(Nat) /\ Last(l) \in Nat /\ l = Append(q, Last(l)) /\ q \in DOMAIN side
          /\ k \in Seq(Nat) /\ l \in Seq(Nat)
      BY <1>1, <1>5
    <3>2. /\ Len(k) = Len(p) + 1 /\ Len(l) = Len(q) + 1 /\ Len(p) \in Nat /\ Len(q) \in Nat
          /\ Len(k) \in Nat /\ Len(l) \in Nat
      BY <1>1, <1>5
    <3>3. side[k] = side[l] /\ Earlier(k, l)
      BY <2>2 DEF Before
    <3>4. /\ p # root => p \in V /\ side[p] = side[k] /\ top[k] + h[k] <= top[p] + h[p] /\ h[p] \in Nat /\ top[p] \in Int
          /\ q # root => q \in V /\ side[q] = side[l] /\ top[q] <= top[l] /\ top[q] \in Int
          /\ top[k] \in Int /\ top[l] \in Int /\ h[k] \in Nat
      BY <1>1, <1>2, <1>4
    <3>5. ~(Len(k) <= Len(root)) /\ ~(Len(l) <= Len(root))
      BY <1>6
    <3> DEFINE i == Last(k)
               j == Last(l)
    <3>6. i \in Nat /\ j \in Nat /\ k = Append(p, i) /\ l = Append(q, j)
      BY <3>1
    <3> HIDE DEF p, q, i, j
    <3>7. CASE Len(k) = Len(l)
      <4>1. Len(p) = Len(q) /\ Len(p) + Len(q) < n
        BY <2>1, <2>2, <3>2, <3>7
      <4>2. Earlier(Append(p, i), Append(q, j))
        BY <3>3, <3>6, Zenon
      <4>3. Earlier(p, q) \/ (p = q /\ i < j)
        BY <3>1, <3>6, <4>1, <4>2, EarlierAbove
      <4>4. CASE p = q /\ i < j
        BY <3>3, <4>4, SiblingsApart DEF V, p, q, i, j
      <4>5. CASE Earlier(p, q)
        <5>1. p # q
          BY <3>1, <4>5, NotEarlier
        <5>2. p # root /\ q # root
          <6>1. p = root => Len(q) <= Len(root)
            BY <3>2, <4>1
          <6>2. q = root => Len(p) <= Len(root)
            BY <3>2, <4>1
          <6>3. (Len(p) <= Len(root) => p = root) /\ (Len(q) <= Len(root) => q = root)
            BY <1>1, <3>1, RootAlone
          <6> QED
            BY <5>1, <6>1, <6>2, <6>3
        <5>3. Before(side, p, q)
          BY <3>3, <3>4, <4>5, <5>2 DEF Before
        <5>4. Apart(p, q)
          BY <2>1, <3>4, <4>1, <5>2, <5>3
        <5> QED
          BY <3>4, <5>2, <5>4
      <4> QED
        BY <4>3, <4>4, <4>5
    <3>8. CASE Len(l) < Len(k)
      <4>1. Len(l) <= Len(p) /\ Len(p) + Len(l) < n
        BY <2>1, <2>2, <3>2, <3>8
      <4>2. Earlier(Append(p, i), l)
        BY <3>3, <3>6, Zenon
      <4>3. Earlier(p, l)
        BY <3>1, <3>6, <4>1, <4>2, EarlierShorter
      <4>4. p # root
        BY <3>5, <4>1
      <4>5. Before(side, p, l)
        BY <3>3, <3>4, <4>3, <4>4 DEF Before
      <4>6. Apart(p, l)
        BY <2>1, <3>4, <4>1, <4>4, <4>5
      <4> QED
        BY <3>4, <4>4, <4>6
    <3>9. CASE Len(k) < Len(l)
      <4>1. Len(k) <= Len(q) /\ Len(k) + Len(q) < n
        BY <2>1, <2>2, <3>2, <3>9
      <4>2. Earlier(k, Append(q, j))
        BY <3>3, <3>6, Zenon
      <4>3. Earlier(k, q)
        BY <3>1, <3>6, <4>1, <4>2, EarlierShorter
      <4>4. q # root
        BY <3>5, <4>1
      <4>5. Before(side, k, q)
        BY <3>3, <3>4, <4>3, <4>4 DEF Before
      <4>6. Apart(k, q)
        BY <2>1, <3>4, <4>1, <4>4, <4>5
      <4> QED
        BY <3>4, <4>4, <4>6
    <3> QED
      BY <3>2, <3>7, <3>8, <3>9
  <2> HIDE DEF Apart
  <2> QED
    BY <2>1, <2>2 DEF T
<1> HIDE DEF T, Apart
<1>9. T = Nat
  BY <1>7, <1>8, SetInduction
<1>10. ASSUME NEW k \in V, NEW l \in V, Before(side, k, l) PROVE Apart(k, l)
  <2> DEFINE n == Len(k) + Len(l)
  <2>1. n + 1 \in T /\ n < n + 1
    BY <1>1, <1>9
  <2> QED
    BY <1>10, <2>1 DEF T
<1> QED
  BY <1>10 DEF V, Apart

\* In r rows from t on, and not in the last of them unless it is the only one.
Within(x, t, r) == t <= x /\ x + 1 <= t + r /\ (r >= 2 => x + 2 <= t + r)

\* The center of a block is within its rows.
LEMMA BlockWithin ==
  ASSUME NEW t \in Int, NEW r \in Nat \ {0}
  PROVE  Within(t + (r - 1) \div 2, t, r)
<1> DEFINE m == (r - 1) \div 2
<1>1. m \in Int /\ 0 <= m /\ 2 * m <= r - 1
  OBVIOUS
<1> HIDE DEF m
<1>2. Within(t + m, t, r)
  BY <1>1 DEF Within
<1> QED
  BY <1>2 DEF m

\* So is what is halfway between two rows within them: the same row twice, or the
\* second below the first's.
LEMMA HalfWithin ==
  ASSUME NEW t \in Int, NEW r \in Nat, NEW x \in Int, NEW y \in Int, t <= x, t <= y,
         x + 1 <= t + r, y + 1 <= t + r, r >= 2 => x + 2 <= t + r
  PROVE  Within((x + y) \div 2, t, r)
<1> DEFINE m == (x + y) \div 2
<1>1. m \in Int /\ 2 * m <= x + y /\ x + y <= 2 * m + 1
  OBVIOUS
<1> HIDE DEF m
<1>2. t <= m /\ m + 1 <= t + r
  BY <1>1
<1>3. r >= 2 => m + 2 <= t + r
  BY <1>1
<1>4. Within(m, t, r)
  BY <1>2, <1>3 DEF Within
<1> QED
  BY <1>4 DEF m

\* Rows of one more than needed are no worse.
LEMMA WithinMore ==
  ASSUME NEW t \in Int, NEW x \in Int, NEW r \in Nat, NEW R \in Nat, r <= R, Within(x, t, r)
  PROVE  Within(x, t, R)
BY DEF Within

\* Every node is centered on a row of its own.
LEMMA CentersWithin ==
  ASSUME NEW S, NEW kids, NEW root, NEW side, NEW own, NEW h, NEW top,
         Rowed(S, kids, root, side, own, h, top),
         NEW row, \A k \in DOMAIN side : row[k] \in Int,
         \A k \in DOMAIN side \ {root} : row[k] = Center(kids, top, own, row, k)
  PROVE  \A k \in DOMAIN side \ {root} : Within(row[k], top[k], h[k])
<1> DEFINE V == DOMAIN side
<1>1. /\ Grows(S, kids, root, side) /\ V \subseteq Seq(Nat) /\ IsFiniteSet(V) /\ Descends(V, kids)
  <2>1. Grows(S, kids, root, side)
    BY DEF Rowed
  <2>2. Descends(V, kids)
    BY <2>1, GrowsDown
  <2> QED
    BY <2>1, <2>2 DEF Grows, Hung
<1>2. \A k \in V : /\ Len(k) \in Nat /\ kids[k] \in Seq(V)
                   /\ \A n \in 1 .. Len(kids[k]) : Len(kids[k][n]) > Len(k)
  <2>1. \A k \in V : k \in Seq(Nat)
    BY <1>1
  <2>2. \A k \in V : Len(k) \in Nat
    BY <2>1
  <2>3. \A k \in V : /\ kids[k] \in Seq(V)
                     /\ \A n \in 1 .. Len(kids[k]) : Len(kids[k][n]) > Len(k)
    BY <1>1 DEF Descends
  <2> QED
    BY <2>2, <2>3
<1>3. \A k \in V : \A c \in ToSet(kids[k]) : c \in V \ {root} /\ Above(c) = k
  BY <1>1 DEF Grows, Hung
<1>4. /\ \A k \in V : own[k] \in Nat \ {0} /\ h[k] \in Nat \ {0} /\ h[k] = Height(own[k], AllRowsOf(h, kids[k]))
      /\ \A k \in V \ {root} : top[k] \in Int
  BY DEF Rowed
<1> HIDE DEF V
<1>5. PICK M \in Nat : \A k \in V : Len(k) <= M
  BY <1>1, KeysBounded
<1> DEFINE Good(k) == Within(row[k], top[k], h[k])
           T == {n \in Nat : \A k \in V \ {root} : M < Len(k) + n => Good(k)}
<1>6. T \subseteq Nat /\ 0 \in T
  <2>1. \A k \in V : ~(M < Len(k) + 0)
    BY <1>2, <1>5
  <2> QED
    BY <2>1
<1>7. ASSUME NEW k \in V \ {root}, kids[k] = <<>> PROVE Good(k)
  <2>1. AllRowsOf(h, kids[k]) = 0
    <3>1. \A n \in 1 .. Len(<<>>) : FALSE
      OBVIOUS
    <3>2. <<>> \in Seq(V)
      OBVIOUS
    <3>3. AllRowsOf(h, <<>>) = 0
      BY <3>1, <3>2, RowsOfParts
    <3> QED
      BY <1>7, <3>3
  <2>2. h[k] = own[k]
    BY <1>4, <2>1 DEF Height
  <2>3. row[k] = top[k] + (own[k] - 1) \div 2
    BY <1>7 DEF Center, V
  <2>4. top[k] \in Int /\ own[k] \in Nat \ {0}
    BY <1>4
  <2> QED
    BY <2>2, <2>3, <2>4, BlockWithin
<1>8. ASSUME NEW k \in V \ {root}, kids[k] # <<>>, \A c \in ToSet(kids[k]) : Good(c) PROVE Good(k)
  <2> DEFINE s == kids[k]
             L == Len(s)
             a == Head(s)
             e == Last(s)
             R == AllRowsOf(h, s)
             t == top[k]
             m == (row[a] + row[e]) \div 2
  <2>1. s \in Seq(V) /\ s # <<>>
    BY <1>2, <1>8
  <2>2. row[k] = m
    BY <1>8 DEF Center, V
  <2>3. \A c \in ToSet(s) : c \in V \ {root} /\ Above(c) = k /\ Good(c)
    BY <1>3, <1>8
  <2>4. h[k] \in Nat /\ t \in Int
    BY <1>4
  <2>5. \A c \in ToSet(s) :
          /\ R \in Nat /\ R <= h[k]
          /\ t <= top[c] /\ top[c] + h[c] <= t + R
          /\ \A n \in 1 .. L : /\ s[n] = c /\ n = 1 => top[c] = t
                               /\ s[n] = c /\ n # L => top[c] + h[c] < t + R
    <3> SUFFICES ASSUME NEW c \in ToSet(s)
                 PROVE  /\ R \in Nat /\ R <= h[k]
                        /\ t <= top[c] /\ top[c] + h[c] <= t + R
                        /\ \A n \in 1 .. L : /\ s[n] = c /\ n = 1 => top[c] = t
                                             /\ s[n] = c /\ n # L => top[c] + h[c] < t + R
      OBVIOUS
    <3>1. c \in DOMAIN side \ {root} /\ k = Above(c) /\ k # root
      BY <2>3 DEF V
    <3> QED
      BY <3>1, ChildrenWithin
  <2> HIDE DEF s, t
  <2>6. L \in Nat /\ 1 \in 1 .. L /\ L \in 1 .. L /\ a = s[1] /\ e = s[L] /\ a \in ToSet(s) /\ e \in ToSet(s)
        /\ (L = 1 => a = e)
    <3>1. L \in Nat /\ L # 0 /\ a = s[1] /\ e = s[L]
      BY <2>1, SeqParts DEF Last
    <3>2. L \in Nat /\ 1 \in 1 .. L /\ L \in 1 .. L
      BY <3>1
    <3>3. \A n \in 1 .. L : s[n] \in ToSet(s)
      BY <2>1, SeqParts
    <3> QED
      BY <3>1, <3>2, <3>3
  <2> HIDE DEF L, a, e, R, Good
  <2>7. /\ row[a] \in Int /\ row[e] \in Int /\ top[a] \in Int /\ top[e] \in Int /\ h[a] \in Nat \ {0} /\ h[e] \in Nat \ {0}
        /\ Good(a) /\ Good(e)
    BY <1>4, <2>3, <2>6 DEF V
  <2>8. /\ R \in Nat /\ R <= h[k] /\ t <= top[a] /\ t <= top[e] /\ top[a] + h[a] <= t + R /\ top[e] + h[e] <= t + R
        /\ top[a] = t /\ (L # 1 => top[a] + h[a] < t + R)
    BY <2>5, <2>6
  <2> DEFINE ra == row[a]
             re == row[e]
             ta == top[a]
             te == top[e]
             ha == h[a]
             he == h[e]
  <2>9. /\ ta <= ra /\ ra + 1 <= ta + ha /\ (ha >= 2 => ra + 2 <= ta + ha)
        /\ te <= re /\ re + 1 <= te + he
    BY <2>7 DEF Good, Within
  <2>10. /\ ra \in Int /\ re \in Int /\ ta \in Int /\ te \in Int /\ ha \in Nat /\ he \in Nat /\ ha >= 1
         /\ t <= te /\ ta + ha <= t + R /\ te + he <= t + R /\ ta = t
         /\ (L # 1 => ta + ha < t + R) /\ R \in Nat
    BY <2>7, <2>8
  <2> HIDE DEF ra, re, ta, te, ha, he
  <2>11. t <= ra /\ t <= re /\ ra + 1 <= t + R /\ re + 1 <= t + R
    BY <2>4, <2>9, <2>10
  <2>12. R >= 2 => ra + 2 <= t + R
    <3> SUFFICES ASSUME R >= 2 PROVE ra + 2 <= t + R
      OBVIOUS
    <3>1. CASE L # 1
      BY <2>4, <2>9, <2>10, <3>1
    <3>2. CASE ha >= 2
      BY <2>4, <2>9, <2>10, <3>2
    <3>3. CASE ha = 1
      BY <2>4, <2>9, <2>10, <3>3
    <3> QED
      BY <2>10, <3>2, <3>3
  <2>13. Within((ra + re) \div 2, t, R)
    BY <2>4, <2>10, <2>11, <2>12, HalfWithin
  <2>14. m \in Int /\ m = (ra + re) \div 2
    BY <2>10 DEF ra, re
  <2> HIDE DEF m
  <2>15. Within(m, t, h[k])
    BY <2>4, <2>8, <2>13, <2>14, WithinMore
  <2> QED
    BY <2>2, <2>15 DEF Good, t
<1>9. ASSUME NEW n \in T PROVE n + 1 \in T
  <2>1. n \in Nat /\ \A k \in V \ {root} : M < Len(k) + n => Good(k)
    OBVIOUS
  <2> HIDE DEF T, Good
  <2>2. ASSUME NEW k \in V \ {root}, M < Len(k) + (n + 1) PROVE Good(k)
    <3>1. ASSUME NEW c \in ToSet(kids[k]) PROVE Good(c)
      <4>1. kids[k] \in Seq(V) /\ c \in V \ {root} /\ Len(c) \in Nat /\ Len(k) \in Nat
        BY <1>2, <1>3
      <4>2. PICK i \in 1 .. Len(kids[k]) : kids[k][i] = c
        BY <4>1, SeqParts
      <4>3. Len(c) > Len(k)
        BY <1>2, <4>2
      <4>4. M < Len(c) + n
        BY <2>1, <2>2, <4>1, <4>3
      <4> QED
        BY <2>1, <4>1, <4>4
    <3> QED
      BY <1>7, <1>8, <3>1
  <2> QED
    BY <2>1, <2>2 DEF T
<1> HIDE DEF T
<1>10. M + 1 \in T
  BY <1>6, <1>9, SetInduction
<1> SUFFICES ASSUME NEW k \in V \ {root} PROVE Good(k)
  BY DEF V
<1>11. M < Len(k) + (M + 1)
  BY <1>2
<1> QED
  BY <1>10, <1>11 DEF T

\* A map whose nodes are where the layout puts them.
LaidOut(b, wrapped, v) ==
  LET l == Layout(b, v.kids, v.zoom.key, v.side, wrapped) IN v.row = l.row /\ v.own = l.own

\* The map that is shown is laid out with the texts that are wrapped now.
LInv == inMap => LaidOut(board, tall, view)

\* What ensureMap builds is.
LEMMA BuiltLaidOut ==
  ASSUME NEW b, NEW f, NEW log, NEW wrapped, NEW focus, NEW zoom
  PROVE  LaidOut(b, wrapped, Built(b, f, log, wrapped, focus, zoom))
<1> DEFINE S == Shown(b, f, log)
           kids == [k \in S |-> Below(b, f, log, k)]
           z == IF Rekeyed(b, zoom).key \in S THEN Rekeyed(b, zoom) ELSE Whole
           side == SideOf(kids, z.key)
           l == Layout(b, kids, z.key, side, wrapped)
           v == Built(b, f, log, wrapped, focus, zoom)
<1>1. v = [focus |-> IF focus \in DOMAIN side THEN focus ELSE z.key,
           zoom |-> z, kids |-> kids, side |-> side, row |-> l.row, own |-> l.own]
  BY Zenon DEF Built
<1> HIDE DEF v, l, side, z, kids
<1>2. v.kids = kids /\ v.zoom.key = z.key /\ v.side = side /\ v.row = l.row /\ v.own = l.own
  BY <1>1
<1>3. LaidOut(b, wrapped, v)
  BY <1>2 DEF LaidOut, l
<1> QED
  BY <1>3 DEF v

\* Moving the focus moves no row.
LEMMA RefocusedLaidOut ==
  ASSUME NEW b, NEW wrapped, NEW v, LaidOut(b, wrapped, v), "focus" \in DOMAIN v, NEW k
  PROVE  LaidOut(b, wrapped, [v EXCEPT !.focus = k])
<1> DEFINE w == [v EXCEPT !.focus = k]
<1>1. w.kids = v.kids /\ w.zoom = v.zoom /\ w.side = v.side /\ w.row = v.row /\ w.own = v.own
  OBVIOUS
<1> HIDE DEF w
<1>2. LaidOut(b, wrapped, w)
  BY <1>1 DEF LaidOut
<1> QED
  BY <1>2 DEF w

\* Nor does any of the keys that only move the focus.
LEMMA MovesLaidOut ==
  ASSUME IInv, LInv, inMap, NEW k, view' = [view EXCEPT !.focus = k], UNCHANGED <<board, tall, cursor>>
  PROVE  LInv'
<1>1. LaidOut(board, tall, view) /\ "focus" \in DOMAIN view
  BY DEF IInv, LInv
<1>2. LaidOut(board, tall, view')
  BY <1>1, RefocusedLaidOut
<1> QED
  BY <1>2 DEF LInv

\* A map that is built again, whatever it is focused on then.
LEMMA RebuiltLaidOut ==
  ASSUME NEW f, NEW log, NEW focus, NEW zoom,
         view' = Built(board', f, log, tall', focus, zoom)
  PROVE  LInv'
<1>1. LaidOut(board', tall', view')
  BY BuiltLaidOut
<1> QED
  BY <1>1 DEF LInv

\* A map that is folded otherwise and then focused.
LEMMA RefoldLaidOut ==
  ASSUME IInv, NEW f, NEW zoom \in Zooms, NEW k, NEW l, Refold(f, [Built(board, f, showLog, tall, k, zoom) EXCEPT !.focus = l])
  PROVE  LInv'
<1> DEFINE v == Built(board, f, showLog, tall, k, zoom)
<1>1. LaidOut(board, tall, v)
  BY BuiltLaidOut
<1>2. "focus" \in DOMAIN v
  BY BuiltParts DEF IInv
<1>3. view' = [v EXCEPT !.focus = l] /\ UNCHANGED <<board, tall>>
  BY DEF Refold
<1> HIDE DEF v
<1>4. LaidOut(board', tall', view')
  BY <1>1, <1>2, <1>3, RefocusedLaidOut
<1> QED
  BY <1>4 DEF LInv

\* Every step leaves the map laid out.
LEMMA NextLaysOut ==
  ASSUME IInv, LInv, [Next]_vars
  PROVE  LInv'
<1>1. ASSUME NEW k, inMap, FocusOn(k) PROVE LInv'
  BY <1>1, MovesLaidOut DEF FocusOn, folds
<1>2. ASSUME NEW d \in {-1, 1}, Ascend(d) PROVE LInv'
  BY <1>2, MovesLaidOut DEF Ascend, folds
<1>3. ASSUME NEW d \in {-1, 1}, Vertical(d) \/ CenterVertical(d) \/ Descend(d) \/ CycleSection(d) PROVE LInv'
  <2>1. CASE Vertical(d)
    BY <1>1, <2>1 DEF Vertical
  <2>2. CASE CenterVertical(d)
    BY <1>1, <2>2 DEF CenterVertical
  <2>3. CASE Descend(d)
    BY <1>1, <2>3 DEF Descend
  <2>4. CASE CycleSection(d)
    BY <1>1, <2>4 DEF CycleSection
  <2> QED
    BY <1>3, <2>1, <2>2, <2>3, <2>4
<1>4. ASSUME NEW last \in BOOLEAN, SiblingEnd(last) PROVE LInv'
  BY <1>1, <1>4 DEF SiblingEnd
<1>5. ASSUME NEW i \in DOMAIN board.kids[Title], JumpToSection(i) PROVE LInv'
  BY <1>1, <1>5 DEF JumpToSection
<1>6. ASSUME NEW d \in {-1, 1}, ExpandInto(d) PROVE LInv'
  <2>1. PICK f, l : Refold(f, [Built(board, f, showLog, tall, view.focus, view.zoom) EXCEPT !.focus = l])
    BY <1>6, Zenon DEF ExpandInto
  <2>2. view.zoom \in Zooms
    BY DEF IInv
  <2> QED
    BY <2>1, <2>2, RefoldLaidOut
<1>7. ASSUME NEW f, NEW k, NEW zoom, Refold(f, Built(board, f, showLog, tall, k, zoom)) PROVE LInv'
  BY <1>7, RebuiltLaidOut DEF Refold
<1>8. ASSUME FocusIn PROVE LInv'
  <2>1. PICK f, l : Refold(f, [Built(board, f, showLog, tall, view.focus, Zoom(board, view.focus)) EXCEPT !.focus = l])
    BY <1>8, Zenon DEF FocusIn
  <2>2. Zoom(board, view.focus) \in Zooms
    <3>1. inMap /\ IsTree(board) /\ Picture(board, fold, showLog, view)
      BY <1>8 DEF FocusIn, IInv
    <3>2. view.focus \in Seq(Nat) /\ ThingAt(board, view.focus) \in Thing
      <4>1. view.focus \in DOMAIN view.kids /\ ThingAt(board, view.focus) \in OnBoard(board)
        BY <3>1, PictureParts DEF InPicture
      <4> QED
        BY <3>1, <4>1, PictureParts, OnBoardParts DEF InPicture
    <3> QED
      BY <3>2 DEF Zoom, Zooms
  <2> QED
    BY <2>1, <2>2, RefoldLaidOut
<1>9. ASSUME ToggleFold PROVE LInv'
  BY <1>7, <1>9 DEF ToggleFold
<1>10. ASSUME FocusFold \/ FocusUnfold \/ ToggleTall \/ ToggleLog \/ FocusOut PROVE LInv'
  <2>1. CASE FocusFold
    BY <2>1, RebuiltLaidOut DEF FocusFold
  <2>2. CASE FocusUnfold
    BY <2>2, RebuiltLaidOut DEF FocusUnfold
  <2>3. CASE ToggleTall
    BY <2>3, RebuiltLaidOut DEF ToggleTall
  <2>4. CASE ToggleLog
    BY <2>4, RebuiltLaidOut DEF ToggleLog
  <2>5. CASE FocusOut
    BY <2>5, RebuiltLaidOut DEF FocusOut, folds
  <2> QED
    BY <1>10, <2>1, <2>2, <2>3, <2>4, <2>5
<1>11. ASSUME NEW b, NEW k, NEW zoom, Edited(b, k, zoom) PROVE LInv'
  <2>1. board' = b /\ tall' = tall /\ view' = Built(b, fold, showLog, tall, k, zoom)
    BY <1>11 DEF Edited, Writes, folds
  <2>2. view' = Built(board', fold, showLog, tall', k, zoom)
    BY <2>1
  <2> QED
    BY <2>2, RebuiltLaidOut
<1>12. ASSUME DeleteItem \/ DeleteSection \/ ArchiveItem \/ ArchiveSection \/ EditText PROVE LInv'
  BY <1>11, <1>12, Zenon DEF DeleteItem, DeleteSection, ArchiveItem, ArchiveSection, EditText
<1>13. ASSUME NEW x, AddChild(x) \/ AddSibling(x) \/ AddSection(x) PROVE LInv'
  BY <1>11, <1>13, Zenon DEF AddChild, AddSibling, AddSection
<1>14. ASSUME NEW x \in New \cup (Item \cap OnBoard(board)), Reload(x) PROVE LInv'
  <2>1. CASE inMap
    BY <1>11, <1>14, <2>1, Zenon DEF Reload
  <2>2. CASE ~inMap
    <3>1. cursor' # Nothing
      <4>1. PICK b \in OutsideEdits(board, x) : cursor' \in OnBoard(b) \ {Title}
        BY <1>14, <2>2 DEF Reload
      <4>2. IsTree(b)
        BY <1>14, <4>1, NewParts, OutsideTree DEF IInv
      <4> QED
        BY <4>1, <4>2, OnBoardParts
    <3> QED
      BY <3>1 DEF LInv, inMap
  <2> QED
    BY <2>1, <2>2
<1>15. ASSUME EnterMap PROVE LInv'
  <2>1. board' = board /\ tall' = tall
    BY <1>15 DEF EnterMap
  <2>2. \E k, zoom : view' = Built(board, fold', showLog, tall, k, zoom)
    BY <1>15, Zenon DEF EnterMap
  <2> QED
    BY <2>1, <2>2, RebuiltLaidOut
<1>16. ASSUME NEW x \in OnBoard(board) \ {Title}, ExitMap(x) PROVE LInv'
  <2>1. x # Nothing
    BY OnBoardParts DEF IInv
  <2> QED
    BY <1>16, <2>1 DEF ExitMap, LInv, inMap
<1>17. ASSUME NEW x \in OnBoard(board) \cap Item, Jump(x) PROVE LInv'
  BY <1>7, <1>17, Zenon DEF Jump
<1>18. ASSUME UNCHANGED vars PROVE LInv'
  BY <1>18 DEF vars, folds, LInv, inMap
<1>19. CASE Next
  BY <1>19, <1>2, <1>3, <1>4, <1>5, <1>6, <1>8, <1>9, <1>10, <1>12, <1>13, <1>14, <1>15, <1>16, <1>17, Zenon DEF Next
<1> QED
  BY <1>18, <1>19

\* The picture's rows are in the order of the keys.
LEMMA PictureGrows ==
  ASSUME InPicture
  PROVE  Grows(Shown(board, fold, showLog), view.kids, Root, view.side)
<1>1. /\ Hung(Shown(board, fold, showLog), view.kids, Root, view.side)
      /\ DOMAIN view.side \subseteq DOMAIN view.kids
      /\ \A k \in DOMAIN view.kids : k \in Seq(Nat) /\ ThingAt(board, k) # Nothing
  BY PictureParts DEF Drawn
<1>2. DOMAIN view.side \subseteq Seq(Nat)
  BY <1>1
<1>3. ASSUME NEW k \in DOMAIN view.side PROVE StepsGrow(view.kids[k], k)
  <2>1. IsTree(board) /\ view.kids = Rows(board, fold, showLog)
    BY DEF InPicture, Picture
  <2>2. k \in Seq(Nat) /\ ThingAt(board, k) # Nothing /\ k \in DOMAIN view.kids
    BY <1>1
  <2>3. StepsGrow(Below(board, fold, showLog, k), k)
    BY <2>1, <2>2, BelowAll
  <2>4. view.kids[k] = Below(board, fold, showLog, k)
    BY <2>1, <2>2 DEF Rows
  <2> QED
    BY <2>3, <2>4
<1> QED
  BY <1>1, <1>2, <1>3 DEF Grows

\* What a node draws is in the rows kept for it, but for a tall one above others.
LEMMA FirstRowWithin ==
  ASSUME NEW t \in Int, NEW own \in Nat \ {0}, NEW r \in Nat \ {0}, own <= r, NEW x \in Int, Within(x, t, r),
         own <= 2 \/ (x = t + (own - 1) \div 2 /\ r = own)
  PROVE  t <= x - (own - 1) \div 2 /\ (x - (own - 1) \div 2) + own <= t + r
<1>1. CASE own <= 2
  <2>1. (own - 1) \div 2 = 0
    <3>1. own = 1 \/ own = 2
      BY <1>1
    <3> QED
      BY <3>1
  <2>2. own = 1 \/ (own = 2 /\ r >= 2)
    BY <1>1
  <2>3. t <= x /\ x + own <= t + r
    BY <2>2 DEF Within
  <2> QED
    BY <2>1, <2>3
<1>2. CASE x = t + (own - 1) \div 2 /\ r = own
  <2> DEFINE m == (own - 1) \div 2
  <2>1. m \in Int
    OBVIOUS
  <2> HIDE DEF m
  <2>2. x - m = t
    BY <1>2, <2>1 DEF m
  <2> QED
    BY <1>2, <2>2 DEF m
<1> QED
  BY <1>1, <1>2

\* A map that is laid out is stacked in order.
LEMMA LaidOutStacked ==
  ASSUME InPicture, LaidOut(board, tall, view)
  PROVE  Stacked({k \in DOMAIN view.side : view.own[k] <= 2 \/ view.kids[k] = <<>>})
<1> DEFINE S == Shown(board, fold, showLog)
           kids == view.kids
           side == view.side
           V == DOMAIN side
           own == [k \in V |-> IF k \in tall THEN Lines[ThingAt(board, k)] ELSE 1]
           h == Heights(kids, own)
           top == Tops(kids, Root, side, h)
           row == Centers(kids, Root, top, own)
<1>1. Grows(S, kids, Root, side)
  BY PictureGrows
<1>2. view.own = own /\ view.row = row
  BY Zenon DEF LaidOut, Layout, Root
<1>3. own \in [V -> Nat \ {0}]
  <2>1. \A k \in V : ThingAt(board, k) \in Thing
    <3>1. \A k \in V : ThingAt(board, k) \in OnBoard(board)
      BY PictureParts DEF Drawn
    <3>2. OnBoard(board) \subseteq Thing
      BY OnBoardParts DEF InPicture
    <3> QED
      BY <3>1, <3>2
  <2>2. \A k \in V : Lines[ThingAt(board, k)] \in Nat \ {0}
    BY <2>1, MapAssumption
  <2> QED
    BY <2>2
<1> HIDE DEF S, kids, side, own
<1>4. Rowed(S, kids, Root, side, own, h, top)
  BY <1>1, <1>3, LayoutRowed
<1>5. Root \in V /\ V \subseteq Seq(Nat)
  BY <1>1 DEF Grows, Hung
<1> HIDE DEF h, top
<1>6. /\ \A k \in V : row[k] \in Int
      /\ \A k \in V \ {Root} : row[k] = Center(kids, top, own, row, k)
  <2>1. Descends(V, kids)
    BY <1>1, GrowsDown
  <2>2. \A k \in V \ {Root} : top[k] \in Int
    BY <1>4 DEF Rowed
  <2> HIDE DEF V
  <2> QED
    BY <1>3, <2>1, <2>2, CenterParts
<1> HIDE DEF row
<1>7. \A k \in V \ {Root} : Within(row[k], top[k], h[k])
  BY <1>4, <1>6, CentersWithin
<1>8. \A k \in V \ {Root} : /\ top[k] \in Int /\ own[k] \in Nat \ {0} /\ h[k] \in Nat \ {0} /\ own[k] <= h[k]
                            /\ kids[k] = <<>> => h[k] = own[k]
  <2> SUFFICES ASSUME NEW k \in V \ {Root}
               PROVE  /\ top[k] \in Int /\ own[k] \in Nat \ {0} /\ h[k] \in Nat \ {0} /\ own[k] <= h[k]
                      /\ kids[k] = <<>> => h[k] = own[k]
    OBVIOUS
  <2>1. /\ top[k] \in Int /\ own[k] \in Nat \ {0} /\ h[k] \in Nat \ {0}
        /\ h[k] = Height(own[k], AllRowsOf(h, kids[k]))
    BY <1>4 DEF Rowed
  <2>2. AllRowsOf(h, kids[k]) \in Nat /\ (kids[k] = <<>> => AllRowsOf(h, kids[k]) = 0)
    <3>1. kids[k] \in Seq(V)
      BY <1>1, GrowsDown DEF Descends
    <3>2. \A c \in V : h[c] \in Nat
      BY <1>4 DEF Rowed
    <3> DEFINE s == kids[k]
    <3>3. s \in Seq(V)
      BY <3>1
    <3> HIDE DEF s, V
    <3>4. \A n \in 1 .. Len(s) : h[s[n]] \in Nat
      BY <3>2, <3>3, ElementOfSeq
    <3>5. AllRowsOf(h, s) \in Nat /\ (s = <<>> => AllRowsOf(h, s) = 0)
      BY <3>3, <3>4, RowsOfParts
    <3> QED
      BY <3>5 DEF s
  <2> QED
    BY <2>1, <2>2 DEF Height
<1> DEFINE first(k) == row[k] - (own[k] - 1) \div 2
           W == {k \in V : own[k] <= 2 \/ kids[k] = <<>>}
<1>9. ASSUME NEW k \in W, k # Root
      PROVE  first(k) \in Int /\ top[k] <= first(k) /\ first(k) + own[k] <= top[k] + h[k]
  <2>1. /\ top[k] \in Int /\ own[k] \in Nat \ {0} /\ h[k] \in Nat \ {0} /\ own[k] <= h[k] /\ row[k] \in Int
        /\ Within(row[k], top[k], h[k])
    BY <1>6, <1>7, <1>8, <1>9
  <2>2. own[k] <= 2 \/ (row[k] = top[k] + (own[k] - 1) \div 2 /\ h[k] = own[k])
    BY <1>6, <1>8, <1>9 DEF Center
  <2> DEFINE x == row[k]
             o == own[k]
             r == h[k]
             t == top[k]
  <2> HIDE DEF x, o, r, t, W, V
  <2>3. t <= x - (o - 1) \div 2 /\ (x - (o - 1) \div 2) + o <= t + r
    BY <2>1, <2>2, FirstRowWithin DEF x, o, r, t
  <2>4. first(k) \in Int
    BY <2>1
  <2> QED
    BY <2>3, <2>4 DEF x, o, r, t
<1>10. ASSUME NEW k \in W, NEW l \in W, Before(side, k, l) PROVE first(k) + own[k] <= first(l)
  <2>1. k \in V /\ l \in V /\ k \in Seq(Nat) /\ l \in Seq(Nat)
    BY <1>5
  <2>2. k # l
    BY <1>10, <2>1, NotEarlier DEF Before
  <2>3. k # Root /\ l # Root
    <3>1. side[Root] = 0 /\ \A m \in V \ {Root} : side[m] \in {-1, 1}
      BY <1>1 DEF Grows, Hung
    <3>2. -1 # 0 /\ 1 # 0
      OBVIOUS
    <3> QED
      BY <1>10, <2>1, <2>2, <3>1, <3>2 DEF Before
  <2>4. top[k] + h[k] <= top[l]
    BY <1>4, <1>10, <2>1, <2>3, RowsApart
  <2>5. first(k) \in Int /\ first(k) + own[k] <= top[k] + h[k]
    BY <1>9, <2>3
  <2>6. first(l) \in Int /\ top[l] <= first(l)
    BY <1>9, <2>3
  <2>7. own[k] \in Nat /\ h[k] \in Nat /\ top[k] \in Int /\ top[l] \in Int
    BY <1>8, <2>1, <2>3
  <2> HIDE DEF first
  <2> QED
    BY <2>4, <2>5, <2>6, <2>7
<1> HIDE DEF V
<1>11. W = {k \in DOMAIN view.side : view.own[k] <= 2 \/ view.kids[k] = <<>>}
  BY <1>2 DEF V, side, kids
<1> HIDE DEF W
<1>12. ASSUME NEW k \in W, NEW l \in W, view.side[k] = view.side[l], Earlier(k, l)
       PROVE  FirstRow(view, k) + view.own[k] <= FirstRow(view, l)
  <2>1. Before(side, k, l)
    BY <1>12 DEF Before, side
  <2>2. FirstRow(view, k) = first(k) /\ FirstRow(view, l) = first(l)
    BY <1>2 DEF FirstRow
  <2> HIDE DEF first
  <2> QED
    BY <1>2, <1>10, <2>1, <2>2
<1> QED
  BY <1>11, <1>12 DEF Stacked

\* So every map that is shown is laid out.
LEMMA Laying == Spec => []LInv
<1>1. Init => LInv
  <2> SUFFICES ASSUME Init PROVE LInv
    OBVIOUS
  <2>1. cursor # Nothing
    BY ViewAssumption, OnBoardParts DEF Init
  <2> QED
    BY <2>1 DEF LInv, inMap
<1>2. IInv /\ LInv /\ [Next]_vars => LInv'
  BY NextLaysOut
<1> QED
  BY <1>1, <1>2, Invariant, PTL DEF Spec

\* Of two nodes on one side of the map, neither below the other, the one that
\* comes first in the board ends above the row where the other begins (layout.go,
\* placeNode and height), for any board, folds, zoom and wrapped texts: no text is
\* drawn over another but by a node of three rows or more that has others below it.
THEOREM StacksInOrder == Spec => []StackedInOrder
<1>1. IInv /\ LInv => StackedInOrder
  <2> SUFFICES ASSUME IInv, LInv, inMap
               PROVE  Stacked({k \in DOMAIN view.side : view.own[k] <= 2 \/ view.kids[k] = <<>>})
    BY DEF StackedInOrder
  <2>1. InPicture /\ LaidOut(board, tall, view)
    BY DEF IInv, LInv, InPicture
  <2> QED
    BY <2>1, LaidOutStacked
<1> QED
  BY <1>1, Invariant, Laying, PTL
===============================================================================
