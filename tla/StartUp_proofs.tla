--------------------------- MODULE StartUp_proofs ---------------------------
(***************************************************************************)
(* What is proved of the way from the command line to a mode, for any      *)
(* finite number of devices, any aliases and indices, descriptions of any  *)
(* length, columns of any width and addresses of any number of bits.       *)
(*                                                                         *)
(* Two of the properties speak of what a recursion computes: the columns a *)
(* description takes and the powers of 2.  Induction over the numbers is   *)
(* had here from the least element of a set.                               *)
(***************************************************************************)
EXTENDS StartUp, FiniteSetTheorems, WellFoundedInduction, TLAPS

----------------------------------------------------------------------------
(* Induction and recursion over the numbers.                               *)

LEMMA Least ==
  ASSUME NEW T, T \subseteq Nat, T # {}
  PROVE  \E n \in T : \A k \in T : n <= k
<1> DEFINE R == OpToRel(<, Nat)
<1>1. IsWellFoundedOn(R, Nat)
  BY NatLessThanWellFounded
<1>2. PICK n \in T : \A k \in T : ~(<<k, n>> \in R)
  BY <1>1, WFMin
<1>3. \A k \in T : ~(k < n)
  BY <1>2 DEF OpToRel
<1>4. QED
  BY <1>3

LEMMA Induction ==
  ASSUME NEW T, 0 \in T, \A n \in Nat : n \in T => n + 1 \in T
  PROVE  Nat \subseteq T
<1>1. SUFFICES ASSUME Nat \ T # {} PROVE FALSE
  OBVIOUS
<1>2. PICK n \in Nat \ T : \A k \in Nat \ T : n <= k
  BY <1>1, Least
<1>3. n # 0 /\ n - 1 \in Nat
  OBVIOUS
<1>4. n - 1 \in T
  BY <1>2, <1>3
<1>5. n \in T
  BY <1>3, <1>4
<1>6. QED
  BY <1>5

\* step[n] gives the value at n + 1 from the value at n.
Steps(step, S) == step \in [Nat -> [S -> S]]

Defined(f, a, step, S) ==
  f \in [Nat -> S] /\ f[0] = a /\ \A n \in Nat : f[n + 1] = step[n][f[n]]

LEMMA Recursion ==
  ASSUME NEW S, NEW a \in S, NEW step, Steps(step, S)
  PROVE  \E f : Defined(f, a, step, S)
<1> USE DEF Steps
<1> DEFINE Follows(f, n) == /\ f[0] = a
                            /\ \A k \in 0..(n - 1) : f[k + 1] = step[k][f[k]]
           UpToStep(n) == {f \in [0..n -> S] : Follows(f, n)}
           T == {n \in Nat : UpToStep(n) # {}}
<1>1. 0 \in T
  <2>1. [k \in 0..0 |-> a] \in UpToStep(0)
    OBVIOUS
  <2>2. QED
    BY <2>1
<1>2. ASSUME NEW n \in Nat, n \in T PROVE n + 1 \in T
  <2>1. PICK f \in [0..n -> S] : Follows(f, n)
    BY <1>2
  <2> DEFINE g == [k \in 0..(n + 1) |-> IF k <= n THEN f[k] ELSE step[n][f[n]]]
  <2>2. step[n][f[n]] \in S
    OBVIOUS
  <2>3. g \in [0..(n + 1) -> S]
    BY <2>2
  <2>4. ASSUME NEW k \in 0..n PROVE g[k + 1] = step[k][g[k]]
    <3>1. CASE k = n
      BY <3>1
    <3>2. CASE k # n
      BY <2>1, <3>2
    <3>3. QED
      BY <3>1, <3>2
  <2>5. g \in UpToStep(n + 1)
    BY <2>1, <2>3, <2>4
  <2> HIDE DEF UpToStep
  <2>6. QED
    BY <2>5
<1>3. \A n \in Nat : UpToStep(n) # {}
  BY <1>1, <1>2, Induction
<1> DEFINE the(n) == CHOOSE f \in UpToStep(n) : TRUE
           h == [n \in Nat |-> the(n)[n]]
<1>4. \A n \in Nat : the(n) \in [0..n -> S] /\ Follows(the(n), n)
  BY <1>3
<1> HIDE DEF the
<1>5. ASSUME NEW n \in Nat PROVE h[n + 1] = step[n][h[n]]
  <2> DEFINE f == the(n)
             g == the(n + 1)
             E == {k \in Nat : k <= n => f[k] = g[k]}
  <2>1. /\ f \in [0..n -> S] /\ Follows(f, n)
        /\ g \in [0..(n + 1) -> S] /\ Follows(g, n + 1)
    BY <1>4, n + 1 \in Nat
  <2>2. h[n] = f[n] /\ h[n + 1] = g[n + 1]
    OBVIOUS
  <2> HIDE DEF f, g
  <2>3. Nat \subseteq E
    <3>1. 0 \in E
      BY <2>1
    <3>2. ASSUME NEW k \in Nat, k \in E PROVE k + 1 \in E
      BY <2>1, <3>2
    <3> HIDE DEF E
    <3>3. QED
      BY <3>1, <3>2, Induction
  <2>4. f[n] = g[n]
    BY <2>3
  <2>5. g[n + 1] = step[n][g[n]]
    BY <2>1
  <2>6. QED
    BY <2>2, <2>4, <2>5
<1>6. h \in [Nat -> S] /\ h[0] = a
  BY <1>4
<1>7. QED
  BY <1>5, <1>6 DEF Defined

----------------------------------------------------------------------------
(* The mask (src/routing.rs).                                              *)

LEMMA Powers == Pow2 \in [Nat -> Nat] /\ Pow2[0] = 1 /\ \A n \in Nat : Pow2[n + 1] = 2 * Pow2[n]
<1> DEFINE step == [n \in Nat |-> [v \in Nat |-> 2 * v]]
           one  == 1
<1>1. Steps(step, Nat) /\ one \in Nat
  BY DEF Steps
<1> HIDE DEF one, step
<1>2. PICK f : Defined(f, one, step, Nat)
  BY <1>1, Recursion
<1>3. f \in [Nat -> Nat] /\ f[0] = 1 /\ \A n \in Nat : f[n + 1] = 2 * f[n]
  BY <1>2 DEF Defined, one, step
<1>4. f = [n \in Nat |-> IF n = 0 THEN 1 ELSE 2 * f[n - 1]]
  <2>1. ASSUME NEW n \in Nat PROVE f[n] = IF n = 0 THEN 1 ELSE 2 * f[n - 1]
    BY <1>3
  <2>2. QED
    BY <1>3, <2>1
<1>5. Pow2 = [n \in Nat |-> IF n = 0 THEN 1 ELSE 2 * Pow2[n - 1]]
  BY <1>4 DEF Pow2
<1> DEFINE T == {n \in Nat : Pow2[n] \in Nat}
<1>6. Nat \subseteq T
  <2>1. 0 \in T
    BY <1>5
  <2>2. ASSUME NEW n \in Nat, n \in T PROVE n + 1 \in T
    BY <1>5, <2>2
  <2> HIDE DEF T
  <2>3. QED
    BY <2>1, <2>2, Induction
<1>7. QED
  BY <1>5, <1>6

LEMMA PowersGrow == \A n \in Nat : Pow2[n] > 0 /\ \A k \in 0..n : Pow2[k] <= Pow2[n]
<1> DEFINE T == {n \in Nat : Pow2[n] > 0 /\ \A k \in 0..n : Pow2[k] <= Pow2[n]}
<1>1. 0 \in T
  BY Powers
<1>2. ASSUME NEW n \in Nat, n \in T PROVE n + 1 \in T
  <2>1. Pow2[n] \in Nat /\ Pow2[n + 1] = 2 * Pow2[n]
    BY Powers
  <2>2. \A k \in 0..(n + 1) : Pow2[k] \in Nat
    BY Powers
  <2>3. \A k \in 0..(n + 1) : k \in 0..n \/ k = n + 1
    OBVIOUS
  <2>4. QED
    BY <1>2, <2>1, <2>2, <2>3
<1>3. Nat \subseteq T
  <2> HIDE DEF T
  <2>1. QED
    BY <1>1, <1>2, Induction
<1>4. QED
  BY <1>3

LEMMA Remainder ==
  ASSUME NEW q \in Nat, NEW x \in Nat, NEW r \in 0..(x - 1), x > 0
  PROVE  (q * x + r) % x = r
OBVIOUS

LEMMA Mask ==
  ASSUME NEW prefix \in 0..Bits
  PROVE  prefix_to_mask(prefix) = Pow2[Bits] - Pow2[Bits - prefix]
<1>1. Bits \in Nat /\ Bits > 0
  BY StartUpAssumption
<1>2. CASE prefix = 0
  BY <1>1, <1>2, Powers DEF prefix_to_mask
<1>3. CASE prefix # 0
  <2> DEFINE k == Bits - prefix
             x == Pow2[Bits]
             y == Pow2[k]
  <2>1. k \in Nat /\ k \in 0..Bits /\ k % Bits = k
    BY <1>1, <1>3
  <2>2. x \in Nat /\ y \in Nat /\ x > 0 /\ y > 0 /\ y <= x
    BY <1>1, <2>1, Powers, PowersGrow
  <2>3. prefix_to_mask(prefix) = ((x - 1) * y) % x
    BY <1>3, <2>1 DEF prefix_to_mask, shift_left
  <2> HIDE DEF x, y, k
  <2>4. (x - 1) * y = (y - 1) * x + (x - y)
    BY <2>2
  <2>5. ((y - 1) * x + (x - y)) % x = x - y
    <3>1. y - 1 \in Nat /\ x - y \in 0..(x - 1)
      BY <2>2
    <3> DEFINE q == y - 1
               r == x - y
    <3> HIDE DEF q, r
    <3>2. (q * x + r) % x = r
      BY <2>2, <3>1, Remainder DEF q, r
    <3>3. QED
      BY <3>2 DEF q, r
  <2>6. QED
    BY <2>3, <2>4, <2>5 DEF x, y, k
<1>4. QED
  BY <1>2, <1>3

----------------------------------------------------------------------------
(* The columns (src/iface.rs).                                             *)

LEMMA WidthsDefined ==
  ASSUME NEW s \in Seq(Nat)
  PROVE  /\ Widths(s) \in [0..Len(s) -> Nat] /\ Widths(s)[0] = 0
         /\ \A n \in 0..(Len(s) - 1) : Widths(s)[n + 1] = Widths(s)[n] + s[n + 1]
<1> DEFINE step == [n \in Nat |-> [v \in Nat |->
                      IF n < Len(s) THEN v + s[n + 1] ELSE v]]
           zero == 0
           W(w) == [n \in 0..Len(s) |-> IF n = 0 THEN 0 ELSE w[n - 1] + s[n]]
<1>1. Len(s) \in Nat /\ \A n \in 1..Len(s) : s[n] \in Nat
  OBVIOUS
<1>2. Steps(step, Nat) /\ zero \in Nat
  BY <1>1 DEF Steps
<1> HIDE DEF step, zero
<1>3. PICK f : Defined(f, zero, step, Nat)
  BY <1>2, Recursion
<1>4. /\ f \in [Nat -> Nat] /\ f[0] = 0
      /\ \A n \in 0..(Len(s) - 1) : f[n + 1] = f[n] + s[n + 1]
  <2>1. f \in [Nat -> Nat] /\ f[0] = 0 /\ \A n \in Nat : f[n + 1] = step[n][f[n]]
    BY <1>3 DEF Defined, zero
  <2>2. ASSUME NEW n \in 0..(Len(s) - 1) PROVE f[n + 1] = f[n] + s[n + 1]
    <3>1. n \in Nat /\ n < Len(s) /\ f[n] \in Nat
      BY <1>1, <2>1
    <3>2. step[n][f[n]] = f[n] + s[n + 1]
      BY <3>1 DEF step
    <3>3. QED
      BY <2>1, <3>1, <3>2
  <2>3. QED
    BY <2>1, <2>2
<1> DEFINE g == [n \in 0..Len(s) |-> f[n]]
<1>5. ASSUME NEW n \in 0..Len(s) PROVE g[n] = IF n = 0 THEN 0 ELSE g[n - 1] + s[n]
  <2>1. CASE n = 0
    BY <1>4, <2>1
  <2>2. CASE n # 0
    <3>1. n - 1 \in 0..(Len(s) - 1) /\ (n - 1) + 1 = n
      BY <1>1, <2>2
    <3>2. f[(n - 1) + 1] = f[n - 1] + s[(n - 1) + 1]
      BY <1>4, <3>1
    <3>3. QED
      BY <2>2, <3>1, <3>2
  <2>3. QED
    BY <2>1, <2>2
<1>6. g = W(g)
  BY <1>5
<1>7. Widths(s) = W(Widths(s))
  BY <1>6 DEF Widths
<1>8. Widths(s)[0] = 0
  BY <1>1, <1>7
<1>9. ASSUME NEW n \in 0..(Len(s) - 1) PROVE Widths(s)[n + 1] = Widths(s)[n] + s[n + 1]
  BY <1>1, <1>7
<1> DEFINE T == {n \in Nat : n <= Len(s) => Widths(s)[n] \in Nat}
<1>10. 0 \in T
  BY <1>8
<1>11. ASSUME NEW n \in Nat, n \in T PROVE n + 1 \in T
  BY <1>1, <1>9, <1>11
<1>12. \A n \in 0..Len(s) : Widths(s)[n] \in Nat
  <2>1. Nat \subseteq T
    <3> HIDE DEF T
    <3>1. QED
      BY <1>10, <1>11, Induction
  <2>2. QED
    BY <1>1, <2>1
<1>13. Widths(s) \in [0..Len(s) -> Nat]
  BY <1>7, <1>12
<1>14. QED
  BY <1>8, <1>9, <1>13

\* The columns of the first n characters depend on those alone.
LEMMA WidthsOfPrefix ==
  ASSUME NEW s \in Seq(Nat), NEW t \in Seq(Nat), Len(s) <= Len(t),
         \A i \in 1..Len(s) : t[i] = s[i]
  PROVE  Widths(t)[Len(s)] = Width(s)
<1> DEFINE T == {n \in Nat : n <= Len(s) => Widths(t)[n] = Widths(s)[n]}
<1>1. Len(s) \in Nat /\ Len(t) \in Nat
  OBVIOUS
<1>2. 0 \in T
  BY WidthsDefined
<1>3. ASSUME NEW n \in Nat, n \in T PROVE n + 1 \in T
  <2>1. SUFFICES ASSUME n + 1 <= Len(s) PROVE Widths(t)[n + 1] = Widths(s)[n + 1]
    OBVIOUS
  <2>2. Widths(t)[n] = Widths(s)[n] /\ t[n + 1] = s[n + 1]
    BY <1>1, <1>3, <2>1
  <2>3. Widths(t)[n + 1] = Widths(t)[n] + t[n + 1]
    BY <1>1, <2>1, WidthsDefined
  <2>4. Widths(s)[n + 1] = Widths(s)[n] + s[n + 1]
    BY <1>1, <2>1, WidthsDefined
  <2>5. QED
    BY <2>2, <2>3, <2>4
<1>4. Nat \subseteq T
  <2> HIDE DEF T
  <2>1. QED
    BY <1>2, <1>3, Induction
<1>5. QED
  BY <1>1, <1>4 DEF Width

LEMMA WidthsGrow ==
  ASSUME NEW s \in Seq(Nat), NEW n \in 0..Len(s), NEW m \in n..Len(s)
  PROVE  Widths(s)[n] <= Widths(s)[m]
<1> DEFINE T == {k \in Nat : n + k <= Len(s) => Widths(s)[n] <= Widths(s)[n + k]}
<1>1. Len(s) \in Nat /\ \A i \in 1..Len(s) : s[i] \in Nat
  OBVIOUS
<1>2. 0 \in T
  BY <1>1, WidthsDefined
<1>3. ASSUME NEW k \in Nat, k \in T PROVE k + 1 \in T
  <2>1. SUFFICES ASSUME n + (k + 1) <= Len(s)
                 PROVE  Widths(s)[n] <= Widths(s)[n + (k + 1)]
    OBVIOUS
  <2>2. Widths(s)[n] <= Widths(s)[n + k] /\ s[n + k + 1] \in Nat
    BY <1>1, <1>3, <2>1
  <2>3. n + k \in 0..(Len(s) - 1) /\ n + (k + 1) = (n + k) + 1
    BY <1>1, <2>1
  <2>4. Widths(s)[(n + k) + 1] = Widths(s)[n + k] + s[(n + k) + 1]
    BY <2>3, WidthsDefined
  <2>5. Widths(s)[n] \in Nat /\ Widths(s)[n + k] \in Nat
    <3>1. n + k \in 0..Len(s) /\ Widths(s) \in [0..Len(s) -> Nat]
      BY <1>1, <2>3, WidthsDefined
    <3>2. QED
      BY <3>1
  <2>6. QED
    BY <2>2, <2>3, <2>4, <2>5
<1>4. Nat \subseteq T
  <2> HIDE DEF T
  <2>1. QED
    BY <1>2, <1>3, Induction
<1>5. m - n \in Nat /\ n + (m - n) = m /\ m <= Len(s)
  BY <1>1
<1>6. n + (m - n) <= Len(s) => Widths(s)[n] <= Widths(s)[n + (m - n)]
  BY <1>4, <1>5
<1>7. QED
  BY <1>5, <1>6

LEMMA WidthType == ASSUME NEW s \in Seq(Nat) PROVE Width(s) \in Nat
BY WidthsDefined DEF Width

\* One more character.
LEMMA WidthOfAppend ==
  ASSUME NEW s \in Seq(Nat), NEW x \in Nat
  PROVE  Width(Append(s, x)) = Width(s) + x
<1> DEFINE t == Append(s, x)
<1>1. /\ t \in Seq(Nat) /\ Len(t) = Len(s) + 1 /\ Len(s) \in Nat /\ t[Len(s) + 1] = x
      /\ \A i \in 1..Len(s) : t[i] = s[i]
  OBVIOUS
<1> HIDE DEF t
<1>2. Widths(t)[Len(s)] = Width(s)
  BY <1>1, WidthsOfPrefix
<1>3. Widths(t)[Len(s) + 1] = Widths(t)[Len(s)] + t[Len(s) + 1]
  BY <1>1, WidthsDefined
<1>4. QED
  BY <1>1, <1>2, <1>3 DEF Width, t

\* The first n characters.
LEMMA WidthOfFirst ==
  ASSUME NEW s \in Seq(Nat), NEW n \in 0..Len(s)
  PROVE  SubSeq(s, 1, n) \in Seq(Nat) /\ Width(SubSeq(s, 1, n)) = Widths(s)[n]
<1> DEFINE t == SubSeq(s, 1, n)
<1>1. t \in Seq(Nat) /\ Len(t) = n /\ \A i \in 1..n : s[i] = t[i]
  OBVIOUS
<1>2. n <= Len(s)
  OBVIOUS
<1> HIDE DEF t
<1>3. Widths(s)[Len(t)] = Width(t)
  BY <1>1, <1>2, WidthsOfPrefix
<1>4. QED
  BY <1>1, <1>3 DEF t

\* Padded with n blanks.
LEMMA WidthOfPadded ==
  ASSUME NEW s \in Seq(Nat), NEW n \in Nat
  PROVE  Width(s \o [i \in 1..n |-> 1]) = Width(s) + n
<1> DEFINE padded(k) == s \o [i \in 1..k |-> 1]
           T == {k \in Nat : Width(padded(k)) = Width(s) + k}
<1>1. padded(0) = s
  OBVIOUS
<1>2. ASSUME NEW k \in Nat
      PROVE  padded(k) \in Seq(Nat) /\ padded(k + 1) = Append(padded(k), 1)
  OBVIOUS
<1> HIDE DEF padded
<1>3. 0 \in T
  BY <1>1, WidthType
<1>4. ASSUME NEW k \in Nat, k \in T PROVE k + 1 \in T
  <2>1. Width(padded(k + 1)) = Width(padded(k)) + 1
    BY <1>2, WidthOfAppend
  <2>2. QED
    BY <1>4, <2>1, WidthType
<1>5. Nat \subseteq T
  <2> HIDE DEF T
  <2>1. QED
    BY <1>3, <1>4, Induction
<1>6. QED
  BY <1>5 DEF padded

\* A character takes one column or two.
Text == Seq({1, 2})

LEMMA TextType == ASSUME NEW s \in Text PROVE s \in Seq(Nat)
BY DEF Text

LEMMA Longest ==
  ASSUME NEW m \in Nat, NEW S, S \subseteq 0..m, S # {}
  PROVE  LET n == CHOOSE n \in S : \A k \in S : k <= n
         IN  n \in S /\ \A k \in S : k <= n
<1> DEFINE T == {m - k : k \in S}
<1>1. T \subseteq Nat /\ T # {}
  <2>1. \A k \in S : m - k \in Nat
    OBVIOUS
  <2>2. QED
    BY <2>1
<1>2. PICK d \in T : \A k \in T : d <= k
  <2> HIDE DEF T
  <2>1. QED
    BY <1>1, Least
<1>3. PICK n \in S : d = m - n
  BY <1>2
<1>4. \A k \in S : k <= n
  <2>1. \A k \in S : m - n <= m - k
    BY <1>2, <1>3
  <2>2. QED
    BY <2>1
<1>5. QED
  BY <1>3, <1>4

\* What is cut is as wide as it should be, or a column less where a character
\* lies across the cut.
LEMMA WidthOfCut ==
  ASSUME NEW s \in Text, NEW w \in Nat \ {0}, Width(s) > w
  PROVE  Width(truncate_str(s, w)) = IF Across(s, w - 1) THEN w - 1 ELSE w
<1> DEFINE fits == {n \in 0..Len(s) : Widths(s)[n] <= w - 1}
           n == CHOOSE n \in fits : \A k \in fits : k <= n
<1>1. s \in Seq(Nat) /\ Len(s) \in Nat
  BY TextType
<1>2. fits \subseteq 0..Len(s) /\ 0 \in fits
  BY <1>1, WidthsDefined
<1>3. n \in fits /\ \A k \in fits : k <= n
  <2> HIDE DEF fits
  <2>1. QED
    BY <1>1, <1>2, Longest
<1> HIDE DEF n
<1>4. n \in 0..(Len(s) - 1) /\ n + 1 \in 0..Len(s)
  <2>1. Widths(s)[Len(s)] > w /\ Widths(s)[Len(s)] \in Nat
    BY <1>1, WidthType DEF Width
  <2>2. n # Len(s)
    BY <1>3, <2>1
  <2>3. QED
    BY <1>1, <1>3, <2>2
<1>5. Widths(s)[n + 1] = Widths(s)[n] + s[n + 1] /\ s[n + 1] \in {1, 2}
  <2>1. s[n + 1] \in {1, 2}
    BY <1>1, <1>4 DEF Text
  <2>2. QED
    BY <1>1, <1>4, <2>1, WidthsDefined
<1>6. Widths(s)[n + 1] > w - 1
  <2>1. n + 1 \notin fits
    BY <1>3, <1>4
  <2>2. Widths(s)[n + 1] \in Nat
    BY <1>1, <1>4, WidthsDefined
  <2>3. QED
    BY <1>4, <2>1, <2>2
<1>7. Widths(s)[n] \in Nat /\ Widths(s)[n] <= w - 1
  BY <1>1, <1>3, WidthsDefined
<1>8. Width(truncate_str(s, w)) = Widths(s)[n] + 1
  <2> DEFINE t == SubSeq(s, 1, n)
  <2>1. t \in Seq(Nat) /\ Width(t) = Widths(s)[n]
    BY <1>1, <1>3, WidthOfFirst
  <2>2. ~(Width(s) <= w)
    BY <1>1, WidthType
  <2>3. truncate_str(s, w) = Append(t, 1)
    BY <2>2 DEF truncate_str, n
  <2> HIDE DEF t
  <2>4. QED
    BY <2>1, <2>3, WidthOfAppend
<1>9. CASE Widths(s)[n] < w - 1
  <2>1. Across(s, w - 1)
    BY <1>1, <1>4, <1>6, <1>9 DEF Across
  <2>2. Widths(s)[n] = w - 2
    BY <1>5, <1>6, <1>7, <1>9
  <2>3. QED
    BY <1>8, <2>1, <2>2
<1>10. CASE Widths(s)[n] = w - 1
  <2>1. ASSUME NEW k \in 1..Len(s), Widths(s)[k - 1] < w - 1, w - 1 < Widths(s)[k]
        PROVE  FALSE
    <3>1. k \in 0..Len(s) /\ k - 1 \in 0..Len(s)
      BY <1>1
    <3>2. Widths(s)[k] \in Nat /\ Widths(s)[k - 1] \in Nat
      BY <1>1, <3>1, WidthsDefined
    <3>3. CASE k <= n
      <4>1. n \in k..Len(s)
        BY <1>1, <1>4, <3>3
      <4>2. Widths(s)[k] <= Widths(s)[n]
        BY <1>1, <3>1, <4>1, WidthsGrow
      <4>3. QED
        BY <1>10, <2>1, <3>2, <4>2
    <3>4. CASE ~(k <= n)
      <4>1. n \in 0..Len(s) /\ k - 1 \in n..Len(s)
        BY <1>1, <1>4, <3>4
      <4>2. Widths(s)[n] <= Widths(s)[k - 1]
        BY <1>1, <4>1, WidthsGrow
      <4>3. QED
        BY <1>10, <2>1, <3>2, <4>2
    <3>5. QED
      BY <3>3, <3>4
  <2>2. ~Across(s, w - 1)
    BY <2>1 DEF Across
  <2>3. QED
    BY <1>8, <1>10, <2>2
<1>11. QED
  BY <1>7, <1>9, <1>10

LEMMA WidthOfTruncated ==
  ASSUME NEW s \in Text, NEW w \in Nat \ {0}
  PROVE  Width(truncate_str(s, w)) <= w
<1>1. CASE Width(s) <= w
  BY <1>1 DEF truncate_str
<1>2. CASE ~(Width(s) <= w)
  <2>1. Width(s) > w
    BY <1>2, TextType, WidthType
  <2>2. QED
    BY <2>1, WidthOfCut
<1>3. QED
  BY <1>1, <1>2

LEMMA WidthOfFitted ==
  ASSUME NEW s \in Text, NEW w \in Nat \ {0}
  PROVE  Width(fit_str(s, w)) =
           IF Width(s) > w /\ Across(s, w - 1) THEN w - 1 ELSE w
<1>1. s \in Seq(Nat) /\ Width(s) \in Nat
  BY TextType, WidthType
<1>2. CASE Width(s) <= w
  <2>1. w - Width(s) \in Nat
    BY <1>1, <1>2
  <2>2. Width(fit_str(s, w)) = Width(s) + (w - Width(s))
    BY <1>1, <1>2, <2>1, WidthOfPadded DEF fit_str
  <2>3. Width(fit_str(s, w)) = w /\ ~(Width(s) > w)
    BY <1>1, <1>2, <2>2
  <2>4. QED
    BY <2>3
<1>3. CASE ~(Width(s) <= w)
  <2>1. Width(s) > w /\ fit_str(s, w) = truncate_str(s, w)
    BY <1>1, <1>3 DEF fit_str
  <2>2. QED
    BY <2>1, WidthOfCut
<1>4. QED
  BY <1>2, <1>3

----------------------------------------------------------------------------
(* The rows, and what is looked up in them (src/iface.rs).                 *)

Host ==
  /\ npcap \in Seq(Devices) /\ \A i, j \in DOMAIN npcap : npcap[i] = npcap[j] => i = j
  /\ DOMAIN adapters \subseteq Guids
  /\ \A g \in DOMAIN adapters : adapters[g] \in [if_index : IfIndices, alias : Aliases]
  /\ \A g, h \in DOMAIN adapters :
       adapters[g].if_index = adapters[h].if_index => g = h

\* A row for each device; its index is 0 or the one Windows has of the device.
RowsOf(rows) ==
  /\ rows \in Seq(Row) /\ Len(rows) = Len(npcap)
  /\ \A i \in DOMAIN npcap :
       /\ rows[i].pcap_name = npcap[i]
       /\ rows[i].if_index # 0 => /\ npcap[i] \in DOMAIN adapters
                                 /\ rows[i].if_index = adapters[npcap[i]].if_index

\* The row of one device.
RowFor(d, win_map) ==
  LET guid == extract_guid(d) \cap DOMAIN win_map
  IN  [pcap_name |-> d,
       if_index  |-> IF guid = {} THEN 0 ELSE win_map[d].if_index,
       friendly_name |-> IF guid = {} THEN "" ELSE win_map[d].alias]

LEMMA WindowsData ==
  ASSUME Host, NEW win_map \in build_windows_adapter_map
  PROVE  /\ DOMAIN win_map \subseteq DOMAIN adapters
         /\ \A g \in DOMAIN win_map : /\ win_map[g].if_index = adapters[g].if_index
                                      /\ win_map[g].alias \in Aliases \cup {Descr}
<1>1. CASE win_map = <<>>
  BY <1>1
<1>2. ASSUME NEW unnamed \in SUBSET DOMAIN adapters,
             win_map = [g \in DOMAIN adapters |->
               [adapters[g] EXCEPT !.alias = IF g \in unnamed THEN Descr ELSE @]]
      PROVE  /\ DOMAIN win_map \subseteq DOMAIN adapters
             /\ \A g \in DOMAIN win_map : /\ win_map[g].if_index = adapters[g].if_index
                                          /\ win_map[g].alias \in Aliases \cup {Descr}
  <2>1. ASSUME NEW g \in DOMAIN adapters
        PROVE  /\ win_map[g].if_index = adapters[g].if_index
               /\ win_map[g].alias \in Aliases \cup {Descr}
    BY <1>2 DEF Host
  <2>2. QED
    BY <1>2, <2>1
<1>3. QED
  BY <1>1, <1>2 DEF build_windows_adapter_map

LEMMA RowListed ==
  ASSUME Host, NEW win_map \in build_windows_adapter_map, NEW d \in Devices
  PROVE  LET row == RowFor(d, win_map)
         IN  /\ row \in Row /\ row.pcap_name = d
             /\ row.if_index # 0 => /\ d \in DOMAIN adapters
                                   /\ row.if_index = adapters[d].if_index
<1> DEFINE guid == extract_guid(d) \cap DOMAIN win_map
           n    == IF guid = {} THEN 0 ELSE win_map[d].if_index
           name == IF guid = {} THEN "" ELSE win_map[d].alias
<1>1. guid # {} => d \in DOMAIN win_map
  BY DEF extract_guid
<1>2. guid # {} => /\ d \in DOMAIN adapters /\ n = adapters[d].if_index
                   /\ n \in IfIndices /\ name \in Aliases \cup {Descr}
  BY <1>1, WindowsData DEF Host
<1>3. /\ n \in {0} \cup IfIndices /\ name \in Aliases \cup {"", Descr}
      /\ n # 0 => d \in DOMAIN adapters /\ n = adapters[d].if_index
  BY <1>2
<1> HIDE DEF n, name
<1>4. [pcap_name |-> d, if_index |-> n, friendly_name |-> name] \in Row
  BY <1>3 DEF Row
<1>5. QED
  BY <1>3, <1>4 DEF RowFor, n, name

LEMMA Listed ==
  ASSUME Host, NEW win_map \in build_windows_adapter_map
  PROVE  /\ RowsOf(list_interfaces(win_map))
         /\ DOMAIN list_interfaces(win_map) = DOMAIN npcap
<1>1. Len(npcap) \in Nat /\ DOMAIN npcap = 1..Len(npcap)
      /\ \A i \in DOMAIN npcap : npcap[i] \in Devices
  BY DEF Host
<1> SUFFICES ASSUME NEW rows, rows = [i \in DOMAIN npcap |-> RowFor(npcap[i], win_map)]
             PROVE  RowsOf(rows) /\ DOMAIN rows = DOMAIN npcap
  BY DEF list_interfaces, RowFor
<1>2. ASSUME NEW i \in DOMAIN npcap
      PROVE  /\ rows[i] \in Row /\ rows[i].pcap_name = npcap[i]
             /\ rows[i].if_index # 0 => /\ npcap[i] \in DOMAIN adapters
                                       /\ rows[i].if_index = adapters[npcap[i]].if_index
  BY <1>1, RowListed
<1>3. rows \in [1..Len(npcap) -> Row]
  BY <1>1, <1>2
<1>4. rows \in Seq(Row) /\ Len(rows) = Len(npcap) /\ DOMAIN rows = DOMAIN npcap
  BY <1>1, <1>3
<1>5. QED
  BY <1>2, <1>4 DEF RowsOf

LEMMA OneLeast == ASSUME NEW i \in Int PROVE Min({i}) = i
BY DEF Min

\* The index of one device is that of no other.
LEMMA IndexSelects ==
  ASSUME Host, RowsOf(ifaces), NEW i \in DOMAIN npcap, NEW text \in DOMAIN Numeral,
         Numeral[text] = ifaces[i].if_index, Numeral[text] # 0
  PROVE  resolve_iface([text |-> text, as_listed |-> TRUE])
           = {[text |-> npcap[i], as_listed |-> TRUE]}
<1> DEFINE I == {k \in 1..Len(ifaces) : ifaces[k].if_index = Numeral[text]}
           input == [text |-> text, as_listed |-> TRUE]
<1>1. 1..Len(ifaces) = DOMAIN npcap /\ i \in Nat \ {0}
  BY DEF Host, RowsOf
<1>2. I = {i}
  <2>1. ASSUME NEW k \in DOMAIN npcap, ifaces[k].if_index = Numeral[text] PROVE k = i
    BY <2>1 DEF Host, RowsOf
  <2>2. QED
    BY <1>1, <2>1
<1>3. text \notin Devices
  BY StartUpAssumption DEF Devices
<1> DEFINE J == {k \in 1..Len(ifaces) : IF input.text \in DOMAIN Numeral
                                       THEN ifaces[k].if_index = Numeral[input.text]
                                       ELSE ifaces[k].friendly_name = input.text}
           n == IF J # {} THEN Min(J) ELSE 0
<1>4. resolve_iface(input) =
        IF n = 0 THEN {} ELSE {[text |-> ifaces[n].pcap_name, as_listed |-> TRUE]}
  <2>1. input.text \notin Devices
    BY <1>3
  <2> HIDE DEF input
  <2>2. QED
    BY <2>1 DEF resolve_iface, First, SelectInSeq
<1>5. J = I
  OBVIOUS
<1>6. n = i
  <2> HIDE DEF I, J
  <2>1. QED
    BY <1>1, <1>2, <1>5, OneLeast
<1>7. ifaces[i].pcap_name = npcap[i]
  BY DEF RowsOf
<1> HIDE DEF n
<1>8. QED
  BY <1>1, <1>4, <1>6, <1>7

\* The index of a device is that of its row.
LEMMA IndexFound ==
  ASSUME Host, RowsOf(ifaces), NEW name, NEW i \in DOMAIN npcap, npcap[i] = name.text
  PROVE  find_iface_by_pcap_name(name) = ifaces[i].if_index
<1> DEFINE I == {k \in 1..Len(ifaces) : ifaces[k].pcap_name = name.text}
<1>1. 1..Len(ifaces) = DOMAIN npcap /\ i \in Nat \ {0}
  BY DEF Host, RowsOf
<1>2. I = {i}
  <2>1. ASSUME NEW k \in DOMAIN npcap, ifaces[k].pcap_name = name.text PROVE k = i
    BY <2>1 DEF Host, RowsOf
  <2>2. ifaces[i].pcap_name = name.text
    BY DEF RowsOf
  <2>3. QED
    BY <1>1, <2>1, <2>2
<1>3. Min(I) = i
  BY <1>1, <1>2, OneLeast
<1>4. find_iface_by_pcap_name(name) = IF I = {} THEN 0 ELSE ifaces[Min(I)].if_index
  BY <1>1, <1>2, <1>3 DEF find_iface_by_pcap_name, First, SelectInSeq
<1>5. QED
  BY <1>2, <1>3, <1>4

----------------------------------------------------------------------------
(* The inductive invariant: what run() has made of the command line and of *)
(* the host by the time it gets to a step.                                 *)

AtMostOne(set) == \E x : set \subseteq {x}

\* The rows printed show the devices' rows, with the columns cut as they are.
Shows ==
  /\ shown # <<>> => pc = "done"
  /\ \/ shown = <<>>
     \/ /\ RowsOf(ifaces) /\ DOMAIN shown = DOMAIN npcap /\ Len(shown) = Len(npcap)
        /\ \A i \in DOMAIN npcap : /\ shown[i].row = ifaces[i]
                                   /\ shown[i].name = Line(ifaces[i], None).name
                                   /\ shown[i].desc = Line(ifaces[i], None).desc

\* The step that needs an option is reached with that option.
OnItsWay ==
  /\ pc \in {"enumerate", "resolve"} => args.iface # {}
  /\ pc = "tap" => args.tap # {}

FilterBuilt ==
  pc = "serving" =>
    (filter <=> \E name \in pcap_device :
                  underlay # 0 /\ find_iface_by_pcap_name(name) = underlay)

MaskSet ==
  /\ params # {} => pc = "client"
  /\ \A p \in params, tap \in args.tap :
       tap.ip = "given" => tap.prefix \in 0..Bits /\ p.mask = prefix_to_mask(tap.prefix)

IInv ==
  /\ Host /\ args \in CommandLines /\ desc \in Text
  /\ egress \in IfIndices /\ moves \in 0..MaxMoves
  /\ local_if \in {0} \cup IfIndices /\ underlay \in {0} \cup IfIndices
  /\ ifaces = <<>> \/ RowsOf(ifaces)
  /\ AtMostOne(pcap_device) /\ AtMostOne(params) /\ filter \in BOOLEAN
  /\ Shows /\ OnItsWay /\ FilterBuilt /\ MaskSet

LEMMA InitIInv == Init => IInv
<1> SUFFICES ASSUME Init PROVE IInv
  OBVIOUS
<1>1. Host
  <2>1. PICK listed \in SUBSET Devices : npcap \in SetToSeqs(listed)
    BY DEF Init
  <2>2. IsFiniteSet(Devices)
    BY StartUpAssumption, FS_AddElement DEF Devices
  <2>3. Cardinality(listed) \in Nat
    BY <2>1, <2>2, FS_Subset, FS_CardinalityType
  <2>4. npcap \in [1..Cardinality(listed) -> listed]
        /\ \A i, j \in DOMAIN npcap : i # j => npcap[i] # npcap[j]
    BY <2>1 DEF SetToSeqs
  <2>5. npcap \in Seq(Devices)
    BY <2>1, <2>3, <2>4
  <2>6. PICK known \in SUBSET Guids :
          /\ adapters \in [known -> [if_index : IfIndices, alias : Aliases]]
          /\ \A g, h \in known : g # h => /\ adapters[g].if_index # adapters[h].if_index
                                          /\ adapters[g].alias # adapters[h].alias
    BY DEF Init
  <2>7. QED
    BY <2>4, <2>5, <2>6 DEF Host
<1>2. desc \in Text
  <2>1. desc \in BoundedSeq({1, 2}, MaxChars) \/ desc = <<1, 1>>
    BY DEF Init
  <2>2. CASE desc = <<1, 1>>
    BY <2>2 DEF Text
  <2>3. CASE desc \in BoundedSeq({1, 2}, MaxChars)
    <3>1. PICK n \in 0..MaxChars : desc \in [1..n -> {1, 2}]
      BY <2>3 DEF BoundedSeq, SeqOf
    <3>2. QED
      BY <3>1 DEF Text
  <2>4. QED
    BY <2>1, <2>2, <2>3
<1>3. AtMostOne(pcap_device) /\ AtMostOne(params)
  BY DEF Init, AtMostOne
<1>4. moves \in 0..MaxMoves
  BY StartUpAssumption DEF Init
<1>5. QED
  BY <1>1, <1>2, <1>3, <1>4 DEF Init, IInv, Shows, OnItsWay, FilterBuilt, MaskSet

----------------------------------------------------------------------------
(* The steps.  What the host has, and the rows once they are there, stay as *)
(* they are; rows are only made before any are shown.                      *)

LEMMA HostKept ==
  ASSUME IInv, UNCHANGED system
  PROVE  Host' /\ (args \in CommandLines)' /\ (desc \in Text)'
BY DEF IInv, Host, system

LEMMA RowsKept ==
  ASSUME IInv, UNCHANGED <<system, ifaces, shown>>, pc = "done" => UNCHANGED pc
  PROVE  (ifaces = <<>> \/ RowsOf(ifaces))' /\ Shows'
<1>1. (ifaces = <<>> \/ RowsOf(ifaces))'
  BY DEF IInv, RowsOf, system
<1>2. Shows'
  BY DEF IInv, Shows, RowsOf, Line, system
<1>3. QED
  BY <1>1, <1>2

\* No step but build_filter leads to "serving".
LEMMA ModeKept ==
  ASSUME IInv, UNCHANGED <<system, params>>, pc # "client", pc' # "serving"
  PROVE  FilterBuilt' /\ MaskSet' /\ AtMostOne(params)'
BY DEF IInv, FilterBuilt, MaskSet, AtMostOne, system

LEMMA NumbersKept ==
  ASSUME IInv, UNCHANGED <<route, local_if, underlay, filter>>
  PROVE  /\ (egress \in IfIndices)' /\ (moves \in 0..MaxMoves)'
         /\ (local_if \in {0} \cup IfIndices)' /\ (underlay \in {0} \cup IfIndices)'
         /\ (filter \in BOOLEAN)'
BY DEF IInv, route

\* The lists are made with nothing else shown.
LEMMA RowsMade ==
  ASSUME IInv, UNCHANGED system, NEW win_map \in build_windows_adapter_map,
         ifaces' = list_interfaces(win_map)
  PROVE  RowsOf(ifaces)' /\ DOMAIN ifaces' = DOMAIN npcap
<1>1. RowsOf(ifaces') /\ DOMAIN ifaces' = DOMAIN npcap
  BY Listed DEF IInv
<1>2. QED
  BY <1>1 DEF RowsOf, system

LEMMA Counted ==
  ASSUME Host, NEW f, DOMAIN f = DOMAIN npcap, f = [i \in DOMAIN npcap |-> f[i]]
  PROVE  Len(f) = Len(npcap)
<1>1. Len(npcap) \in Nat /\ DOMAIN npcap = 1..Len(npcap)
  BY DEF Host
<1> DEFINE S == {f[i] : i \in DOMAIN npcap}
<1>2. f \in [1..Len(npcap) -> S]
  BY <1>1
<1> HIDE DEF S
<1>3. f \in Seq(S) /\ Len(f) = Len(npcap)
  BY <1>1, <1>2
<1>4. QED
  BY <1>3

LEMMA TableShown ==
  ASSUME IInv, pc = "table", UNCHANGED system, NEW win_map \in build_windows_adapter_map,
         ifaces' = list_interfaces(win_map), pc' = "done",
         shown' = [i \in DOMAIN ifaces' |-> shown'[i]],
         \A i \in DOMAIN ifaces' : /\ shown'[i].row = Line(ifaces'[i], None).row
                                  /\ shown'[i].name = Line(ifaces'[i], None).name
                                  /\ shown'[i].desc = Line(ifaces'[i], None).desc
  PROVE  (ifaces = <<>> \/ RowsOf(ifaces))' /\ Shows'
<1>1. RowsOf(ifaces)' /\ DOMAIN ifaces' = DOMAIN npcap /\ npcap' = npcap /\ desc' = desc
  BY RowsMade DEF system
<1>2. Len(shown') = Len(npcap)
  <2>1. Host
    BY DEF IInv
  <2>2. DOMAIN shown' = DOMAIN npcap
    BY <1>1
  <2>3. QED
    BY <1>1, <2>1, <2>2, Counted
<1>3. \A i \in DOMAIN npcap : /\ shown'[i].row = ifaces'[i]
                             /\ shown'[i].name = Line(ifaces[i], None)'.name
                             /\ shown'[i].desc = Line(ifaces[i], None)'.desc
  BY <1>1 DEF Line
<1>4. QED
  BY <1>1, <1>2, <1>3 DEF Shows

LEMMA ListStep == IInv /\ print_interface_list => IInv'
<1> SUFFICES ASSUME IInv, print_interface_list PROVE IInv'
  OBVIOUS
<1>1. pc = "table" /\ UNCHANGED <<system, route, local_if, mode>>
  BY DEF print_interface_list
<1>2. shown = <<>>
  BY <1>1 DEF IInv, Shows
<1>3. pc' \in {"done", "failed"}
  BY DEF print_interface_list, Goto, Fail
<1>4. (ifaces = <<>> \/ RowsOf(ifaces))' /\ Shows'
  <2>1. CASE \E win_map \in build_windows_adapter_map : ifaces' = list_interfaces(win_map)
             /\ shown' = [i \in DOMAIN ifaces' |-> Line(ifaces'[i], None)] /\ pc' = "done"
    <3>1. PICK win_map \in build_windows_adapter_map : ifaces' = list_interfaces(win_map)
      BY <2>1
    <3>2. \A i \in DOMAIN ifaces' : shown'[i] = Line(ifaces'[i], None)
      BY <2>1
    <3>3. shown' = [i \in DOMAIN ifaces' |-> shown'[i]]
      BY <2>1
    <3>4. QED
      BY <1>1, <2>1, <3>1, <3>2, <3>3, TableShown
  <2>2. CASE UNCHANGED <<ifaces, shown>>
    BY <1>1, <2>2, RowsKept
  <2>3. QED
    BY <2>1, <2>2 DEF print_interface_list, Goto, Fail
<1>5. QED
  BY <1>1, <1>3, <1>4, HostKept, ModeKept, NumbersKept
  DEF IInv, mode, OnItsWay, AtMostOne

LEMMA ProbeStep == IInv /\ print_probe_list => IInv'
<1> SUFFICES ASSUME IInv, print_probe_list PROVE IInv'
  OBVIOUS
<1>1. pc = "table" /\ UNCHANGED <<system, route, local_if, mode>>
  BY DEF print_probe_list
<1>2. shown = <<>>
  BY <1>1 DEF IInv, Shows
<1>3. pc' \in {"done", "failed"}
  BY DEF print_probe_list, Goto, Fail
<1>4. (ifaces = <<>> \/ RowsOf(ifaces))' /\ Shows'
  <2>1. CASE (\E win_map \in build_windows_adapter_map : ifaces' = list_interfaces(win_map))
             /\ (\E inject \in [DOMAIN ifaces' -> probe_inject] :
                   shown' = [i \in DOMAIN ifaces' |->
                               Line(ifaces'[i], inject[i])])
             /\ pc' = "done"
    <3>1. PICK win_map \in build_windows_adapter_map : ifaces' = list_interfaces(win_map)
      BY <2>1
    <3>2. PICK inject : shown' = [i \in DOMAIN ifaces' |->
                                    Line(ifaces'[i], inject[i])]
      BY <2>1
    <3>3. ASSUME NEW i \in DOMAIN ifaces'
          PROVE  /\ shown'[i].row = Line(ifaces'[i], None).row
                 /\ shown'[i].name = Line(ifaces'[i], None).name
                 /\ shown'[i].desc = Line(ifaces'[i], None).desc
      BY <3>2 DEF Line
    <3>4. shown' = [i \in DOMAIN ifaces' |-> shown'[i]]
      BY <3>2
    <3>5. QED
      BY <1>1, <2>1, <3>1, <3>3, <3>4, TableShown
  <2>2. CASE UNCHANGED <<ifaces, shown>>
    BY <1>1, <2>2, RowsKept
  <2>3. QED
    BY <2>1, <2>2 DEF print_probe_list, Goto, Fail
<1>5. QED
  BY <1>1, <1>3, <1>4, HostKept, ModeKept, NumbersKept
  DEF IInv, mode, OnItsWay, AtMostOne

\* The steps that change neither the rows nor the mode.
LEMMA ParseStep == IInv /\ (parse \/ init_utf8_encoding \/ dispatch) => IInv'
<1> SUFFICES ASSUME IInv, parse \/ init_utf8_encoding \/ dispatch PROVE IInv'
  OBVIOUS
<1>1. pc \in {"parse", "pcap_init", "dispatch"}
      /\ UNCHANGED <<system, route, ifaces, shown, local_if, mode>>
  BY DEF parse, init_utf8_encoding, dispatch
<1>2. pc' \notin {"serving", "resolve"} /\ (pc' = "enumerate" => args.iface # {})
      /\ (pc' = "tap" => args.tap # {})
  BY DEF parse, init_utf8_encoding, dispatch, Goto, Fail
<1>3. OnItsWay'
  BY <1>1, <1>2 DEF OnItsWay, system
<1>4. QED
  BY <1>1, <1>2, <1>3, HostKept, RowsKept, ModeKept, NumbersKept
  DEF IInv, mode, AtMostOne

LEMMA AddressStep == IInv /\ resolve_local_ip => IInv'
<1> SUFFICES ASSUME IInv, resolve_local_ip PROVE IInv'
  OBVIOUS
<1>1. pc = "addresses" /\ UNCHANGED <<system, route, ifaces, shown, mode>>
      /\ pc' \in {"dispatch", "failed"} /\ local_if' \in {local_if, egress}
  BY DEF resolve_local_ip, Goto, Fail
<1>2. (local_if \in {0} \cup IfIndices)' /\ (egress \in IfIndices)'
      /\ (moves \in 0..MaxMoves)'
  BY <1>1 DEF IInv, route
<1>3. QED
  BY <1>1, <1>2, HostKept, RowsKept, ModeKept DEF IInv, mode, OnItsWay, AtMostOne

LEMMA EnumerateStep == IInv /\ enumerate => IInv'
<1> SUFFICES ASSUME IInv, enumerate PROVE IInv'
  OBVIOUS
<1>1. pc = "enumerate" /\ UNCHANGED <<system, route, shown, local_if, mode>>
      /\ pc' \in {"resolve", "failed"}
  BY DEF enumerate, Goto, Fail
<1>2. shown' = <<>>
  BY <1>1 DEF IInv, Shows
<1>3. (ifaces = <<>> \/ RowsOf(ifaces))'
  <2>1. CASE UNCHANGED ifaces
    BY <1>1, <2>1, RowsKept
  <2>2. CASE \E win_map \in build_windows_adapter_map : ifaces' = list_interfaces(win_map)
    BY <1>1, <2>2, RowsMade
  <2>3. QED
    BY <2>1, <2>2 DEF enumerate
<1>4. Shows'
  BY <1>2 DEF Shows
<1>5. OnItsWay'
  BY <1>1 DEF IInv, OnItsWay, system
<1>6. QED
  BY <1>1, <1>3, <1>4, <1>5, HostKept, ModeKept, NumbersKept DEF IInv, mode, AtMostOne

LEMMA ResolveStep == IInv /\ resolve => IInv'
<1> SUFFICES ASSUME IInv, resolve PROVE IInv'
  OBVIOUS
<1>1. pc = "resolve"
      /\ UNCHANGED <<system, route, ifaces, shown, local_if, underlay, filter, params>>
  BY DEF resolve
<1>2. PICK input \in args.iface : pcap_device' = resolve_iface(input)
                                /\ pc' \in {"failed", "ask_route"}
  BY <1>1 DEF resolve, IInv, OnItsWay, Goto, Fail
<1>3. AtMostOne(pcap_device)'
  <2>1. resolve_iface(input) \subseteq {input}
        \/ \E x : resolve_iface(input) \subseteq {x}
    BY DEF resolve_iface
  <2>2. QED
    BY <1>2, <2>1 DEF AtMostOne
<1>4. QED
  BY <1>1, <1>2, <1>3, HostKept, RowsKept, ModeKept, NumbersKept DEF IInv, OnItsWay

LEMMA AskRouteStep == IInv /\ ask_route => IInv'
<1> SUFFICES ASSUME IInv, ask_route PROVE IInv'
  OBVIOUS
<1>1. pc = "ask_route" /\ pc' = "filter" /\ underlay' \in {0, egress}
      /\ UNCHANGED <<system, route, ifaces, shown, local_if, pcap_device, filter, params>>
  BY DEF ask_route, Goto
<1>2. /\ (underlay \in {0} \cup IfIndices)' /\ (egress \in IfIndices)'
      /\ (moves \in 0..MaxMoves)'
  BY <1>1 DEF IInv, route
<1>3. QED
  BY <1>1, <1>2, HostKept, RowsKept, ModeKept DEF IInv, OnItsWay, AtMostOne

LEMMA FilterStep == IInv /\ build_filter => IInv'
<1> SUFFICES ASSUME IInv, build_filter PROVE IInv'
  OBVIOUS
<1>1. pc = "filter" /\ pc' = "serving"
      /\ UNCHANGED <<system, route, ifaces, shown, local_if, pcap_device, underlay, params>>
      /\ filter' = \E name \in pcap_device :
                     underlay # 0 /\ find_iface_by_pcap_name(name) = underlay
  BY DEF build_filter, Goto
<1>2. \A name : find_iface_by_pcap_name(name)' = find_iface_by_pcap_name(name)
  BY <1>1 DEF find_iface_by_pcap_name, First, SelectInSeq
<1>3. FilterBuilt' /\ (filter \in BOOLEAN)'
  BY <1>1, <1>2 DEF FilterBuilt
<1>4. MaskSet'
  BY <1>1 DEF IInv, MaskSet, system
<1>5. QED
  BY <1>1, <1>3, <1>4, HostKept, RowsKept DEF IInv, OnItsWay, AtMostOne, route

LEMMA TapType == args \in CommandLines => args.tap \subseteq Taps
<1> SUFFICES ASSUME args \in CommandLines PROVE args.tap \subseteq Taps
  OBVIOUS
<1>1. GivenTap \in Taps
  <2>1. [name |-> "auto", ip |-> "none", prefix |-> 0] \in Taps
    BY StartUpAssumption DEF Taps
  <2> DEFINE tap == [name |-> "auto", ip |-> "none", prefix |-> 0]
  <2>2. tap.ip = "none"
    OBVIOUS
  <2>3. \E t \in Taps : t.ip = "none"
    BY <2>1, <2>2
  <2>4. QED
    BY <2>3 DEF GivenTap
<1> HIDE DEF GivenTap
<1>2. \A i, t, l, r : Options(i, t, l, r).tap = t
  BY DEF Options
<1>3. \A i, p, l, r : Tables(i, p, l, r).tap = {}
  BY DEF Tables
<1>4. ASSUME NEW l, NEW p, NEW q, NEW r, args = Tables(l, p, q, r) PROVE args.tap \subseteq Taps
  BY <1>3, <1>4
<1>5. ASSUME NEW i, NEW l, NEW r, args = Options(i, {}, l, r) PROVE args.tap \subseteq Taps
  BY <1>2, <1>5
<1>6. ASSUME NEW i, NEW l, NEW r, NEW t \in Taps, args = Options(i, {t}, l, r)
      PROVE  args.tap \subseteq Taps
  BY <1>2, <1>6
<1> HIDE DEF Taps
<1>7. CASE args \in TableLines
  <2>1. PICK l, p : args = Tables(l, p, None, None)
    BY <1>7 DEF TableLines
  <2>2. QED
    BY <1>4, <2>1
<1>8. CASE args \in ServerLines
  <2>1. PICK n, l : args = Options({n}, {}, l, "given")
    BY <1>8 DEF ServerLines
  <2>2. QED
    BY <1>5, <2>1
<1>9. CASE args \in PeerLines
  <2>1. PICK l, r : args = Options({}, {GivenTap}, l, r)
    BY <1>9 DEF PeerLines
  <2>2. QED
    BY <1>1, <1>6, <2>1
<1>10. CASE args \in TapLines
  <2>1. PICK t \in Taps : args = Options({}, {t}, "any", "given")
    BY <1>10 DEF TapLines
  <2>2. QED
    BY <1>6, <2>1
<1>11. CASE args \in WrongLines
  <2>1. (\E n : args = Options({n}, {GivenTap}, "any", "given"))
        \/ args = Tables(TRUE, FALSE, "any", "given")
    BY <1>11 DEF WrongLines
  <2>2. QED
    BY <1>1, <1>4, <1>6, <2>1
<1>12. QED
  BY <1>7, <1>8, <1>9, <1>10, <1>11 DEF CommandLines

LEMMA TapStep == IInv /\ parse_tap_arg => IInv'
<1> SUFFICES ASSUME IInv, parse_tap_arg PROVE IInv'
  OBVIOUS
<1>1. pc = "tap" /\ params = {}
      /\ UNCHANGED <<system, route, ifaces, shown, local_if, pcap_device, underlay, filter>>
  BY DEF parse_tap_arg, IInv, MaskSet
<1>2. \A tap \in args.tap :
        IF Accepted(tap)
        THEN /\ params' = {[tap_name |-> tap.name,
                             mask |-> IF tap.ip = "none" THEN -1
                                      ELSE prefix_to_mask(tap.prefix)]}
             /\ pc' = "client"
        ELSE pc' = "failed" /\ params' = params
  BY DEF parse_tap_arg, Goto, Fail
<1>3. PICK some \in args.tap : TRUE
  BY <1>1 DEF IInv, OnItsWay
<1>4. pc' \in {"client", "failed"} /\ AtMostOne(params)' /\ (params' # {} => pc' = "client")
  <2>1. CASE Accepted(some)
    BY <1>2, <1>3, <2>1 DEF AtMostOne
  <2>2. CASE ~Accepted(some)
    BY <1>1, <1>2, <1>3, <2>2 DEF AtMostOne
  <2>3. QED
    BY <2>1, <2>2
<1>5. ASSUME NEW p \in params', NEW tap \in args.tap, tap.ip = "given"
      PROVE  tap.prefix \in 0..Bits /\ p.mask = prefix_to_mask(tap.prefix)
  <2>1. Accepted(tap)
    BY <1>1, <1>2, <1>5
  <2>2. p = [tap_name |-> tap.name, mask |-> prefix_to_mask(tap.prefix)]
    BY <1>2, <1>5, <2>1
  <2>3. tap.prefix \in 0..(Bits + 1) /\ tap.prefix <= Bits
    BY <1>5, <2>1, TapType DEF IInv, Accepted, Taps
  <2>4. QED
    BY <2>2, <2>3, StartUpAssumption
<1>6. MaskSet'
  BY <1>1, <1>4, <1>5 DEF MaskSet, system
<1>7. FilterBuilt' /\ OnItsWay'
  BY <1>4 DEF FilterBuilt, OnItsWay
<1>8. QED
  BY <1>1, <1>4, <1>6, <1>7, HostKept, RowsKept, NumbersKept DEF IInv, AtMostOne

LEMMA RouteStep == IInv /\ route_moves => IInv'
<1> SUFFICES ASSUME IInv, route_moves PROVE IInv'
  OBVIOUS
<1>1. moves < MaxMoves /\ moves' = moves + 1 /\ egress' \in IfIndices
      /\ UNCHANGED <<system, pc, ifaces, shown, local_if, mode>>
  BY DEF route_moves
<1>2. (moves \in 0..MaxMoves)'
  BY <1>1, StartUpAssumption DEF IInv
<1>3. FilterBuilt' /\ MaskSet' /\ OnItsWay'
  BY <1>1 DEF IInv, FilterBuilt, MaskSet, OnItsWay, mode, system, find_iface_by_pcap_name,
     First, SelectInSeq
<1>4. QED
  BY <1>1, <1>2, <1>3, HostKept, RowsKept DEF IInv, mode, AtMostOne

LEMMA StutterStep == IInv /\ UNCHANGED vars => IInv'
<1> SUFFICES ASSUME IInv, UNCHANGED vars PROVE IInv'
  OBVIOUS
<1>1. UNCHANGED <<system, route, pc, ifaces, shown, local_if, mode>>
  BY DEF vars
<1>2. FilterBuilt' /\ MaskSet' /\ OnItsWay'
  BY <1>1 DEF IInv, FilterBuilt, MaskSet, OnItsWay, mode, system, find_iface_by_pcap_name,
     First, SelectInSeq
<1>3. QED
  BY <1>1, <1>2, HostKept, RowsKept, NumbersKept DEF IInv, mode, AtMostOne

LEMMA NextIInv == IInv /\ [Next]_vars => IInv'
BY ListStep, ProbeStep, ParseStep, AddressStep, EnumerateStep, ResolveStep, AskRouteStep,
   FilterStep, TapStep, RouteStep, StutterStep DEF Next

LEMMA SpecIInv == Spec => []IInv
BY InitIInv, NextIInv, PTL DEF Spec

----------------------------------------------------------------------------
(* The theorems.                                                           *)

\* The state has its type at every step, and there are as many rows in a table
\* as npcap has devices (StartUp's TypeOK; src/iface.rs, src/main.rs).
THEOREM StartUpTypeOK == Spec => []TypeOK
<1>1. IInv => TypeOK
  <2> SUFFICES ASSUME IInv PROVE TypeOK
    OBVIOUS
  <2>1. \A i \in DOMAIN npcap : npcap[i] \in Devices
    BY DEF IInv, Host
  <2>2. \A i \in DOMAIN ifaces : ifaces[i] \in Row
    <3>1. CASE ifaces = <<>>
      BY <3>1
    <3>2. CASE RowsOf(ifaces)
      BY <3>2 DEF RowsOf
    <3>3. QED
      BY <3>1, <3>2 DEF IInv
  <2>3. Len(shown) \in {0, Len(npcap)}
    BY DEF IInv, Shows
  <2>4. ASSUME NEW set, AtMostOne(set) PROVE Cardinality(set) <= 1
    <3>1. PICK x : set = {} \/ set = {x}
      BY <2>4 DEF AtMostOne
    <3>2. Cardinality({}) = 0
      BY FS_EmptySet
    <3>3. Cardinality({x}) = 1
      BY FS_Singleton
    <3>4. QED
      BY <3>1, <3>2, <3>3
  <2>5. Cardinality(pcap_device) <= 1 /\ Cardinality(params) <= 1
    BY <2>4 DEF IInv
  <2>6. QED
    BY <2>1, <2>2, <2>3, <2>5 DEF IInv, Host, TypeOK
<1>2. QED
  BY <1>1, SpecIInv, PTL

\* The index a row shows selects that row's device, however the aliases read
\* (resolve_iface in src/iface.rs).
THEOREM RowsSelectDevices == Spec => []RowSelectsDevice
<1>1. IInv => RowSelectsDevice
  <2> SUFFICES ASSUME IInv, NEW i \in DOMAIN shown, NEW text \in DOMAIN Numeral,
                      Numeral[text] = shown[i].row.if_index, Numeral[text] # 0
               PROVE  resolve_iface([text |-> text, as_listed |-> TRUE])
                        = {[text |-> npcap[i], as_listed |-> TRUE]}
    BY DEF RowSelectsDevice
  <2>1. Host /\ RowsOf(ifaces) /\ i \in DOMAIN npcap /\ shown[i].row = ifaces[i]
    BY DEF IInv, Shows
  <2>2. QED
    BY <2>1, IndexSelects
<1>2. QED
  BY <1>1, SpecIInv, PTL

\* Whatever the widths of the columns and the length of the texts, no cell is
\* wider than its column, and a name falls short of its own exactly where it is
\* cut at a wide character, by one (fit_str and truncate_str in src/iface.rs).
THEOREM ShortOnlyAtWideCut == Spec => []ColumnsFit
<1>1. IInv => ColumnsFit
  <2> SUFFICES ASSUME IInv, NEW i \in DOMAIN shown
               PROVE  /\ Width(shown[i].name) =
                           IF /\ shown[i].row.friendly_name \in {"", Descr}
                              /\ Width(desc) > NameW /\ Across(desc, NameW - 1)
                           THEN NameW - 1 ELSE NameW
                      /\ Width(shown[i].desc) <= DescW
    BY DEF ColumnsFit
  <2>1. /\ shown[i].row = ifaces[i]
        /\ shown[i].name = Line(ifaces[i], None).name
        /\ shown[i].desc = Line(ifaces[i], None).desc
    BY DEF IInv, Shows
  <2>2. desc \in Text /\ <<1, 1>> \in Text /\ NameW \in Nat \ {0} /\ DescW \in Nat \ {0}
    BY StartUpAssumption DEF IInv, Text
  <2>3. Width(shown[i].desc) <= DescW
    BY <2>1, <2>2, WidthOfTruncated DEF Line
  <2>4. CASE shown[i].row.friendly_name \in {"", Descr}
    <3>1. shown[i].name = fit_str(desc, NameW)
      BY <2>1, <2>4 DEF Line
    <3>2. QED
      BY <2>2, <2>3, <2>4, <3>1, WidthOfFitted
  <2>5. CASE shown[i].row.friendly_name \notin {"", Descr}
    <3> DEFINE alias == <<1, 1>>
    <3>1. shown[i].name = fit_str(alias, NameW)
      BY <2>1, <2>5 DEF Line
    <3>2. ~Across(alias, NameW - 1)
      <4>1. alias \in Text /\ Len(alias) = 2 /\ alias[1] = 1 /\ alias[2] = 1
        BY <2>2
      <4> HIDE DEF alias
      <4>2. \A n \in 0..1 : Widths(alias)[n + 1] = Widths(alias)[n] + 1
        BY <4>1, TextType, WidthsDefined
      <4>3. Widths(alias)[0] \in Nat /\ Widths(alias)[1] \in Nat
        BY <4>1, TextType, WidthsDefined
      <4>4. Widths(alias)[1] = Widths(alias)[0] + 1 /\ Widths(alias)[2] = Widths(alias)[1] + 1
        BY <4>2
      <4>5. QED
        BY <2>2, <4>1, <4>3, <4>4 DEF Across
    <3>3. Width(fit_str(alias, NameW)) = NameW
      <4> HIDE DEF alias
      <4>1. alias \in Text
        BY <2>2 DEF alias
      <4>2. QED
        BY <2>2, <3>2, <4>1, WidthOfFitted
    <3>4. QED
      BY <2>3, <2>5, <3>1, <3>3
  <2>6. QED
    BY <2>4, <2>5
<1>2. QED
  BY <1>1, SpecIInv, PTL

\* A filter is built if and only if the server captures on the interface its own
\* packets leave by, whatever the case the device was named in (src/main.rs).
THEOREM SharedNicIsFiltered == Spec => []FilterOnSharedNic
<1>1. IInv => FilterOnSharedNic
  <2> SUFFICES ASSUME IInv, pc = "serving", underlay = egress, NEW name \in pcap_device,
                      NEW i \in DOMAIN ifaces, ifaces[i].pcap_name = name.text,
                      ifaces[i].if_index # 0
               PROVE  filter <=> adapters[name.text].if_index = egress
    BY DEF FilterOnSharedNic
  <2>1. Host /\ RowsOf(ifaces)
    BY DEF IInv
  <2>2. i \in DOMAIN npcap /\ npcap[i] = name.text
        /\ ifaces[i].if_index = adapters[name.text].if_index
    BY <2>1 DEF Host, RowsOf
  <2>3. find_iface_by_pcap_name(name) = adapters[name.text].if_index
    BY <2>1, <2>2, IndexFound
  <2>4. \A other \in pcap_device : other = name
    BY DEF IInv, AtMostOne
  <2>5. underlay # 0
    BY StartUpAssumption DEF IInv
  <2>6. QED
    BY <2>3, <2>4, <2>5 DEF IInv, FilterBuilt
<1>2. QED
  BY <1>1, SpecIInv, PTL

\* The mask has as many leading ones as the prefix says, for addresses of any
\* number of bits (prefix_to_mask in src/routing.rs).
THEOREM MaskIsThePrefix == Spec => []MaskMatchesPrefix
<1>1. IInv => MaskMatchesPrefix
  BY Mask DEF IInv, MaskSet, MaskMatchesPrefix
<1>2. QED
  BY <1>1, SpecIInv, PTL
=============================================================================
