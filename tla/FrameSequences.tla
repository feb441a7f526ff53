--------------------------- MODULE FrameSequences ---------------------------
(***************************************************************************)
(* What the two data planes do with sequences of frames: a thread holds    *)
(* none or one, takes the first of a channel, and adds what it holds to    *)
(* its end.  A direction is what its last thread holds, its channel and    *)
(* what its first thread holds, one after the other.                       *)
(***************************************************************************)
EXTENDS Integers, Sequences, SequencesExt, SequenceTheorems, TLAPS

\* The numbers of frames, in the order of the frames.
Numbers(frames) == [i \in DOMAIN frames |-> frames[i].n]

\* The numbers in s are positive and none is above m.
UpTo(s, m) == ToSet(s) \subseteq 1..m

Increasing(s) == \A i, j \in DOMAIN s : i < j => s[i] < s[j]

\* s holds the last of the numbers up to m: what a socket holds of what arrived.
Latest(s, m) ==
  /\ m - Len(s) \in Nat
  /\ \A i \in 1..Len(s) : s[i] = (m - Len(s)) + i

----------------------------------------------------------------------------
\* A thread that holds no frame.
LEMMA Empty == ASSUME NEW S PROVE <<>> \in Seq(S) /\ Len(<<>>) = 0
OBVIOUS

\* A thread that holds one.
LEMMA One ==
  ASSUME NEW S, NEW x \in S
  PROVE  <<x>> \in Seq(S) /\ Len(<<x>>) = 1 /\ <<x>> # <<>>
OBVIOUS

\* The first frame is taken from a channel.
LEMMA Popped ==
  ASSUME NEW S, NEW s \in Seq(S), s # <<>>
  PROVE  Head(s) \in S /\ Tail(s) \in Seq(S) /\ Len(Tail(s)) = Len(s) - 1
OBVIOUS

\* What a thread holds is added to a channel.
LEMMA Pushed ==
  ASSUME NEW S, NEW s \in Seq(S), NEW h \in Seq(S)
  PROVE  s \o h \in Seq(S) /\ Len(s \o h) = Len(s) + Len(h)
OBVIOUS

\* A frame reaches a socket.
LEMMA Appended ==
  ASSUME NEW S, NEW s \in Seq(S), NEW x \in S
  PROVE  Append(s, x) \in Seq(S) /\ Len(Append(s, x)) = Len(s) + 1
OBVIOUS

LEMMA Within ==
  ASSUME NEW S, NEW T, S \subseteq T PROVE \A s \in Seq(S) : s \in Seq(T)
OBVIOUS

LEMMA Lengths == ASSUME NEW S, NEW s \in Seq(S) PROVE Len(s) \in Nat
OBVIOUS

LEMMA Members == ASSUME NEW S, NEW s \in Seq(S) PROVE ToSet(s) \subseteq S
BY DEF ToSet

LEMMA MembersOfAppend ==
  ASSUME NEW S, NEW s \in Seq(S), NEW x \in S
  PROVE  ToSet(Append(s, x)) = ToSet(s) \cup {x}
<1> DEFINE t == Append(s, x)
           n == Len(s)
<1>1. n \in Nat /\ DOMAIN s = 1..n /\ DOMAIN t = 1..(n + 1)
      /\ \A i \in 1..n : t[i] = s[i]
  OBVIOUS
<1>2. t[n + 1] = x
  OBVIOUS
<1> HIDE DEF t, n
<1>3. 1..(n + 1) = 1..n \cup {n + 1}
  BY <1>1
<1>4. ASSUME NEW y \in ToSet(t) PROVE y \in ToSet(s) \cup {x}
  <2>1. PICK i \in 1..(n + 1) : y = t[i]
    BY <1>1, <1>4 DEF ToSet
  <2>2. QED
    BY <1>1, <1>2, <1>3, <2>1 DEF ToSet
<1>5. ASSUME NEW y \in ToSet(s) PROVE y \in ToSet(t)
  <2>1. PICK i \in 1..n : y = s[i]
    BY <1>1, <1>5 DEF ToSet
  <2>2. i \in 1..(n + 1) /\ y = t[i]
    BY <1>1, <1>3, <2>1
  <2>3. QED
    BY <1>1, <2>2 DEF ToSet
<1>6. n + 1 \in 1..(n + 1)
  BY <1>1
<1>7. x \in ToSet(t)
  BY <1>1, <1>2, <1>6 DEF ToSet
<1>8. ToSet(t) = ToSet(s) \cup {x}
  BY <1>4, <1>5, <1>7
<1>9. QED
  BY <1>8 DEF t

----------------------------------------------------------------------------
(* A direction a \o b \o c: its last thread, its channel, its first.        *)

\* The first thread takes a frame in.
LEMMA TakenIn ==
  ASSUME NEW S, NEW a \in Seq(S), NEW b \in Seq(S), NEW x \in S
  PROVE  a \o b \o <<x>> = Append(a \o b \o <<>>, x)
OBVIOUS

\* It hands the frame to the channel.
LEMMA HandedOn ==
  ASSUME NEW S, NEW a \in Seq(S), NEW b \in Seq(S), NEW c \in Seq(S)
  PROVE  a \o (b \o c) \o <<>> = a \o b \o c
OBVIOUS

\* The last thread takes the channel's first.
LEMMA TakenOut ==
  ASSUME NEW S, NEW b \in Seq(S), NEW c \in Seq(S), b # <<>>
  PROVE  <<Head(b)>> \o Tail(b) \o c = <<>> \o b \o c
OBVIOUS

\* It lets the frame go.
LEMMA LetGo ==
  ASSUME NEW S, NEW x \in S, NEW b \in Seq(S), NEW c \in Seq(S)
  PROVE  /\ <<x>> \o b \o c # <<>> /\ Head(<<x>> \o b \o c) = x
         /\ Tail(<<x>> \o b \o c) = <<>> \o b \o c
OBVIOUS

\* What a thread that holds a frame holds.
LEMMA Only ==
  ASSUME NEW S, NEW h \in Seq(S), Len(h) <= 1, h # <<>>
  PROVE  h[1] \in S /\ h = <<h[1]>>
OBVIOUS

\* A direction whose threads hold at most a frame each.
LEMMA Direction ==
  ASSUME NEW S, NEW a \in Seq(S), NEW b \in Seq(S), NEW c \in Seq(S)
  PROVE  a \o b \o c \in Seq(S) /\ Len(a \o b \o c) = Len(a) + Len(b) + Len(c)
OBVIOUS

----------------------------------------------------------------------------
(* The numbers of frames.                                                  *)

LEMMA NumbersType ==
  ASSUME NEW N, NEW S, \A f \in S : f.n \in N, NEW s \in Seq(S)
  PROVE  Numbers(s) \in Seq(N) /\ Len(Numbers(s)) = Len(s)
BY DEF Numbers

LEMMA NumbersOfAppend ==
  ASSUME NEW S, NEW s \in Seq(S), NEW x \in S
  PROVE  Numbers(Append(s, x)) = Append(Numbers(s), x.n)
BY DEF Numbers

LEMMA NumbersOfTail ==
  ASSUME NEW S, NEW s \in Seq(S), s # <<>>
  PROVE  /\ Numbers(s) # <<>> /\ Head(Numbers(s)) = Head(s).n
         /\ Numbers(Tail(s)) = Tail(Numbers(s))
BY DEF Numbers

LEMMA NumbersOfNone == Numbers(<<>>) = <<>>
BY DEF Numbers

LEMMA NumbersOfOne == ASSUME NEW x PROVE Numbers(<<x>>) = <<x.n>>
BY DEF Numbers

LEMMA NumbersOfFewer ==
  ASSUME NEW s, NEW t, ToSet(s) \subseteq ToSet(t)
  PROVE  ToSet(Numbers(s)) \subseteq ToSet(Numbers(t))
<1> SUFFICES ASSUME NEW i \in DOMAIN s PROVE s[i].n \in ToSet(Numbers(t))
  BY DEF Numbers, ToSet
<1>1. PICK j \in DOMAIN t : s[i] = t[j]
  BY DEF ToSet
<1>2. QED
  BY <1>1 DEF Numbers, ToSet

----------------------------------------------------------------------------
(* The order of frames.                                                    *)

LEMMA UpToMore ==
  ASSUME NEW s, NEW m \in Nat, NEW n \in Nat, m <= n, UpTo(s, m) PROVE UpTo(s, n)
BY DEF UpTo

LEMMA UpToNone == ASSUME NEW m PROVE UpTo(<<>>, m)
BY DEF UpTo, ToSet

LEMMA UpToAppend ==
  ASSUME NEW m \in Nat, NEW s \in Seq(Nat), NEW x \in 1..m, UpTo(s, m)
  PROVE  UpTo(Append(s, x), m)
BY DEF UpTo, ToSet

LEMMA UpToTail ==
  ASSUME NEW m \in Nat, NEW s \in Seq(Nat), s # <<>>, UpTo(s, m)
  PROVE  Head(s) \in 1..m /\ UpTo(Tail(s), m)
BY DEF UpTo, ToSet

LEMMA IncreasingAppend ==
  ASSUME NEW s \in Seq(Nat), NEW x \in Nat, Increasing(s), \A y \in ToSet(s) : y < x
  PROVE  Increasing(Append(s, x))
BY DEF Increasing, ToSet

LEMMA IncreasingStart ==
  ASSUME NEW s \in Seq(Nat), NEW t \in Seq(Nat), Increasing(s \o t)
  PROVE  Increasing(s)
<1>1. \A i \in DOMAIN s : i \in DOMAIN (s \o t) /\ (s \o t)[i] = s[i]
  OBVIOUS
<1>2. QED
  BY <1>1 DEF Increasing

LEMMA Shifted ==
  ASSUME NEW m \in Nat, NEW n \in Nat, NEW i \in 1..(m + n - 1), ~(i <= m)
  PROVE  /\ i - m \in 1..(n - 1) /\ (i + 1) - m = (i - m) + 1
         /\ i + 1 \in 1..(m + n) /\ ~(i + 1 <= m)
OBVIOUS

\* One of the frames in the middle is lost.
LEMMA IncreasingWithout ==
  ASSUME NEW s \in Seq(Nat), NEW t \in Seq(Nat), t # <<>>, Increasing(s \o t)
  PROVE  Increasing(s \o Tail(t))
<1> DEFINE u == s \o t
           v == s \o Tail(t)
           at(i) == IF i <= Len(s) THEN i ELSE i + 1
<1>1. ASSUME NEW i \in DOMAIN v PROVE at(i) \in DOMAIN u /\ v[i] = u[at(i)]
  <2>1. /\ Len(s) \in Nat /\ Len(t) \in Nat /\ Len(t) >= 1
        /\ Tail(t) \in Seq(Nat) /\ Len(Tail(t)) = Len(t) - 1
        /\ \A k \in 1..(Len(t) - 1) : Tail(t)[k] = t[k + 1]
    OBVIOUS
  <2>2. i \in 1..(Len(s) + Len(t) - 1) /\ DOMAIN u = 1..(Len(s) + Len(t))
    BY <2>1
  <2>3. CASE i <= Len(s)
    <3>1. v[i] = s[i] /\ u[i] = s[i] /\ i \in DOMAIN u
      BY <2>1, <2>2, <2>3
    <3>2. at(i) = i
      BY <2>3
    <3>3. QED
      BY <3>1, <3>2
  <2>4. CASE ~(i <= Len(s))
    <3> DEFINE j == i + 1
    <3>1. at(i) = j
      BY <2>4
    <3>2. v[i] = Tail(t)[i - Len(s)]
      BY <2>1, <2>2, <2>4
    <3>3. \A k \in 1..(Len(s) + Len(t)) :
            ~(k <= Len(s)) => u[k] = t[k - Len(s)]
      OBVIOUS
    <3> HIDE DEF u, v, at
    <3>4. Len(s) \in Nat /\ Len(t) \in Nat /\ i \in 1..(Len(s) + Len(t) - 1)
      BY <2>1, <2>2
    <3>5. /\ i - Len(s) \in 1..(Len(t) - 1) /\ j - Len(s) = (i - Len(s)) + 1
          /\ j \in 1..(Len(s) + Len(t)) /\ ~(j <= Len(s))
      BY <2>4, <3>4, Shifted
    <3> HIDE DEF j
    <3>6. u[j] = t[j - Len(s)]
      BY <3>3, <3>5
    <3>7. QED
      BY <2>1, <2>2, <3>1, <3>2, <3>5, <3>6
  <2>5. QED
    BY <2>3, <2>4
<1>2. \A i, j \in DOMAIN v : i < j => at(i) < at(j)
  OBVIOUS
<1> HIDE DEF u, v, at
<1>3. Increasing(v)
  BY <1>1, <1>2 DEF Increasing, u
<1>4. QED
  BY <1>3 DEF v

\* One is added at the end.
LEMMA AddedLast ==
  ASSUME NEW S, NEW s \in Seq(S), NEW t \in Seq(S), NEW x \in S
  PROVE  Append(s \o t, x) = s \o Append(t, x)
OBVIOUS

\* One of them moves on.
LEMMA MovedOn ==
  ASSUME NEW S, NEW s \in Seq(S), NEW t \in Seq(S), t # <<>>
  PROVE  Append(s, Head(t)) \o Tail(t) = s \o t
OBVIOUS

----------------------------------------------------------------------------
(* A socket: what arrives goes to its end, what is taken is its first.      *)

LEMMA LatestNone == Latest(<<>>, 0)
BY DEF Latest

LEMMA LatestMore ==
  ASSUME NEW m \in Nat, NEW s \in Seq(Nat), Latest(s, m)
  PROVE  /\ Latest(Append(s, m + 1), m + 1)
         /\ (m + 1) - Len(Append(s, m + 1)) = m - Len(s)
<1> DEFINE t == Append(s, m + 1)
<1>1. Len(s) \in Nat /\ Len(t) = Len(s) + 1
  OBVIOUS
<1>2. \A i \in 1..(Len(s) + 1) : t[i] = IF i = Len(s) + 1 THEN m + 1 ELSE s[i]
  OBVIOUS
<1> HIDE DEF t
<1>3. (m + 1) - Len(t) = m - Len(s)
  BY <1>1
<1>4. ASSUME NEW i \in 1..(Len(s) + 1) PROVE t[i] = (m - Len(s)) + i
  <2>1. CASE i = Len(s) + 1
    BY <1>1, <1>2, <2>1
  <2>2. CASE i # Len(s) + 1
    BY <1>1, <1>2, <1>4, <2>2 DEF Latest
  <2>3. QED
    BY <2>1, <2>2
<1>5. QED
  BY <1>1, <1>3, <1>4 DEF Latest, t

LEMMA LatestFirst ==
  ASSUME NEW m \in Nat, NEW s \in Seq(Nat), s # <<>>, Latest(s, m)
  PROVE  /\ Head(s) = (m - Len(s)) + 1 /\ (m - Len(s)) + 1 \in 1..m
         /\ Latest(Tail(s), m) /\ m - Len(Tail(s)) = (m - Len(s)) + 1
<1> DEFINE t == Tail(s)
<1>1. /\ Len(s) \in Nat /\ Len(s) >= 1 /\ Len(t) = Len(s) - 1
      /\ Head(s) = s[1]
  OBVIOUS
<1>2. \A i \in 1..(Len(s) - 1) : t[i] = s[i + 1]
  OBVIOUS
<1> HIDE DEF t
<1>3. m - Len(t) = (m - Len(s)) + 1 /\ m - Len(s) \in Nat
  BY <1>1 DEF Latest
<1>4. ASSUME NEW i \in 1..Len(t) PROVE t[i] = (m - Len(t)) + i
  <2>1. i \in 1..(Len(s) - 1) /\ i + 1 \in 1..Len(s)
    BY <1>1
  <2>2. t[i] = s[i + 1] /\ s[i + 1] = (m - Len(s)) + (i + 1)
    BY <1>2, <2>1 DEF Latest
  <2>3. QED
    BY <1>1, <1>3, <2>1, <2>2
<1>5. Latest(t, m)
  BY <1>1, <1>3, <1>4 DEF Latest
<1>6. Head(s) = (m - Len(s)) + 1 /\ (m - Len(s)) + 1 \in 1..m
  BY <1>1, <1>3 DEF Latest
<1>7. QED
  BY <1>3, <1>5, <1>6 DEF t

----------------------------------------------------------------------------
(* Frames on the network, which may take any of them.                       *)

LEMMA MembersOfBoth ==
  ASSUME NEW S, NEW s \in Seq(S), NEW t \in Seq(S)
  PROVE  ToSet(s \o t) = ToSet(s) \cup ToSet(t)
<1> DEFINE u == s \o t
<1>1. /\ Len(s) \in Nat /\ Len(t) \in Nat /\ DOMAIN s = 1..Len(s)
      /\ DOMAIN t = 1..Len(t) /\ DOMAIN u = 1..(Len(s) + Len(t))
  OBVIOUS
<1>2. \A i \in 1..(Len(s) + Len(t)) :
        u[i] = IF i <= Len(s) THEN s[i] ELSE t[i - Len(s)]
  OBVIOUS
<1> HIDE DEF u
<1>3. ASSUME NEW x \in ToSet(u) PROVE x \in ToSet(s) \cup ToSet(t)
  <2>1. PICK i \in 1..(Len(s) + Len(t)) : x = u[i]
    BY <1>1 DEF ToSet
  <2>2. CASE i <= Len(s)
    BY <1>1, <1>2, <2>1, <2>2 DEF ToSet
  <2>3. CASE ~(i <= Len(s))
    <3>1. i - Len(s) \in 1..Len(t)
      BY <1>1, <2>3
    <3>2. QED
      BY <1>1, <1>2, <2>1, <2>3, <3>1 DEF ToSet
  <2>4. QED
    BY <2>2, <2>3
<1>4. ASSUME NEW x \in ToSet(s) PROVE x \in ToSet(u)
  <2>1. PICK i \in 1..Len(s) : x = s[i]
    BY <1>1 DEF ToSet
  <2>2. i \in 1..(Len(s) + Len(t)) /\ i <= Len(s)
    BY <1>1
  <2>3. QED
    BY <1>1, <1>2, <2>1, <2>2 DEF ToSet
<1>5. ASSUME NEW x \in ToSet(t) PROVE x \in ToSet(u)
  <2>1. PICK i \in 1..Len(t) : x = t[i]
    BY <1>1 DEF ToSet
  <2> DEFINE j == Len(s) + i
  <2>2. j \in 1..(Len(s) + Len(t)) /\ ~(j <= Len(s)) /\ j - Len(s) = i
    BY <1>1
  <2> HIDE DEF j
  <2>3. QED
    BY <1>1, <1>2, <2>1, <2>2 DEF ToSet
<1>6. QED
  BY <1>3, <1>4, <1>5 DEF u

LEMMA MembersOfThree ==
  ASSUME NEW S, NEW s \in Seq(S), NEW t \in Seq(S), NEW u \in Seq(S)
  PROVE  ToSet(s \o t \o u) = ToSet(s) \cup ToSet(t) \cup ToSet(u)
<1> DEFINE w == s \o t
<1>1. w \in Seq(S) /\ ToSet(w) = ToSet(s) \cup ToSet(t)
  BY Pushed, MembersOfBoth
<1> HIDE DEF w
<1>2. ToSet(w \o u) = ToSet(w) \cup ToSet(u)
  BY <1>1, MembersOfBoth
<1>3. QED
  BY <1>1, <1>2 DEF w

LEMMA MembersOfFour ==
  ASSUME NEW S, NEW s \in Seq(S), NEW t \in Seq(S), NEW u \in Seq(S), NEW v \in Seq(S)
  PROVE  ToSet(s \o t \o u \o v) = ToSet(s) \cup ToSet(t) \cup ToSet(u) \cup ToSet(v)
<1> DEFINE w == s \o t
<1>1. w \in Seq(S) /\ ToSet(w) = ToSet(s) \cup ToSet(t)
  BY Pushed, MembersOfBoth
<1> HIDE DEF w
<1>2. ToSet(w \o u \o v) = ToSet(w) \cup ToSet(u) \cup ToSet(v)
  BY <1>1, MembersOfThree
<1>3. QED
  BY <1>1, <1>2 DEF w

LEMMA MembersOfTail ==
  ASSUME NEW S, NEW s \in Seq(S), s # <<>>
  PROVE  Head(s) \in ToSet(s) /\ ToSet(Tail(s)) \subseteq ToSet(s)
BY DEF ToSet

LEMMA MembersOfNone == ToSet(<<>>) = {}
BY DEF ToSet

LEMMA MembersOfOne == ASSUME NEW x PROVE ToSet(<<x>>) = {x}
BY DEF ToSet

LEMMA MembersOfRest ==
  ASSUME NEW S, NEW s \in Seq(S), s # <<>>
  PROVE  ToSet(s) = {Head(s)} \cup ToSet(Tail(s))
<1>1. /\ Len(s) \in Nat /\ DOMAIN s = 1..Len(s) /\ Head(s) = s[1]
      /\ DOMAIN Tail(s) = 1..(Len(s) - 1)
      /\ \A k \in 1..(Len(s) - 1) : Tail(s)[k] = s[k + 1]
  OBVIOUS
<1>2. ASSUME NEW i \in 1..Len(s) PROVE s[i] \in {Head(s)} \cup ToSet(Tail(s))
  <2>1. CASE i = 1
    BY <1>1, <2>1
  <2>2. CASE i # 1
    <3>1. i - 1 \in 1..(Len(s) - 1) /\ (i - 1) + 1 = i
      BY <1>1, <2>2
    <3>2. Tail(s)[i - 1] = s[i]
      BY <1>1, <3>1
    <3>3. QED
      BY <1>1, <3>1, <3>2 DEF ToSet
  <2>3. QED
    BY <2>1, <2>2
<1>3. ToSet(s) \subseteq {Head(s)} \cup ToSet(Tail(s))
  BY <1>1, <1>2 DEF ToSet
<1>4. QED
  BY <1>3, MembersOfTail

\* One is taken, wherever it is.
LEMMA MembersButOne ==
  ASSUME NEW S, NEW s \in Seq(S), NEW i \in DOMAIN s
  PROVE  ToSet(s) \subseteq ToSet(RemoveAt(s, i)) \cup {s[i]}
<1> DEFINE a == SubSeq(s, 1, i - 1)
           b == SubSeq(s, i + 1, Len(s))
<1>1. i \in 1..Len(s) /\ Len(s) \in Nat /\ DOMAIN s = 1..Len(s)
  OBVIOUS
<1>2. /\ a \in Seq(S) /\ DOMAIN a = 1..(i - 1)
      /\ \A k \in 1..(i - 1) : a[k] = s[k]
  BY <1>1
<1>3. /\ b \in Seq(S) /\ DOMAIN b = 1..(Len(s) - i)
      /\ \A k \in 1..(Len(s) - i) : b[k] = s[i + k]
  BY <1>1
<1> HIDE DEF a, b
<1>4. ASSUME NEW j \in 1..Len(s), j # i PROVE s[j] \in ToSet(a) \cup ToSet(b)
  <2>1. CASE j < i
    <3>1. j \in 1..(i - 1)
      BY <1>1, <2>1
    <3>2. QED
      BY <1>2, <3>1 DEF ToSet
  <2>2. CASE j > i
    <3>1. j - i \in 1..(Len(s) - i) /\ i + (j - i) = j
      BY <1>1, <2>2
    <3>2. b[j - i] = s[j]
      BY <1>3, <3>1
    <3>3. QED
      BY <1>3, <3>1, <3>2 DEF ToSet
  <2>3. QED
    BY <1>1, <1>4, <2>1, <2>2
<1>5. ToSet(a \o b) = ToSet(a) \cup ToSet(b)
  BY <1>2, <1>3, MembersOfBoth
<1>6. ToSet(s) \subseteq ToSet(a) \cup ToSet(b) \cup {s[i]}
  BY <1>1, <1>4 DEF ToSet
<1>7. ToSet(s) \subseteq ToSet(a \o b) \cup {s[i]}
  BY <1>5, <1>6
<1>8. QED
  BY <1>7 DEF RemoveAt, a, b

LEMMA Removed ==
  ASSUME NEW S, NEW s \in Seq(S), NEW i \in DOMAIN s
  PROVE  RemoveAt(s, i) \in Seq(S) /\ ToSet(RemoveAt(s, i)) \subseteq ToSet(s)
<1> DEFINE a == SubSeq(s, 1, i - 1)
           b == SubSeq(s, i + 1, Len(s))
<1>1. i \in 1..Len(s) /\ Len(s) \in Nat
  OBVIOUS
<1>2. a \in Seq(S) /\ \A k \in DOMAIN a : \E j \in DOMAIN s : a[k] = s[j]
  BY <1>1
<1>3. b \in Seq(S) /\ \A k \in DOMAIN b : \E j \in DOMAIN s : b[k] = s[j]
  <2>1. b \in Seq(S) /\ DOMAIN b = 1..(Len(s) - i)
        /\ \A k \in 1..(Len(s) - i) : b[k] = s[i + k]
    BY <1>1
  <2> HIDE DEF b
  <2>2. ASSUME NEW k \in 1..(Len(s) - i) PROVE \E j \in 1..Len(s) : b[k] = s[j]
    <3>1. i + k \in 1..Len(s)
      BY <1>1
    <3>2. QED
      BY <2>1, <3>1
  <2>3. QED
    BY <2>1, <2>2
<1> HIDE DEF a, b
<1>4. ToSet(a) \subseteq ToSet(s) /\ ToSet(b) \subseteq ToSet(s)
  BY <1>2, <1>3 DEF ToSet
<1>5. a \o b \in Seq(S) /\ ToSet(a \o b) \subseteq ToSet(s)
  BY <1>2, <1>3, <1>4, MembersOfBoth
<1>6. QED
  BY <1>5 DEF RemoveAt, a, b

LEMMA IncreasingLast ==
  ASSUME NEW s \in Seq(Nat), NEW x \in Nat, Increasing(Append(s, x))
  PROVE  \A y \in ToSet(s) : y < x
<1> DEFINE t == Append(s, x)
<1>1. /\ Len(s) + 1 \in DOMAIN t /\ t[Len(s) + 1] = x
      /\ \A i \in DOMAIN s : i \in DOMAIN t /\ t[i] = s[i] /\ i < Len(s) + 1
  OBVIOUS
<1>2. Increasing(t)
  OBVIOUS
<1> HIDE DEF t
<1>3. QED
  BY <1>1, <1>2 DEF Increasing, ToSet

\* Places in order, and what is at them in order.
LEMMA IncreasingThrough ==
  ASSUME NEW s \in Seq(Nat), NEW t \in Seq(Nat), UpTo(s, Len(t)), Increasing(s),
         Increasing(t)
  PROVE  Increasing([i \in DOMAIN s |-> t[s[i]]])
<1>1. DOMAIN t = 1..Len(t)
  OBVIOUS
<1>2. \A i \in DOMAIN s : s[i] \in DOMAIN t /\ s[i] \in Nat
  BY <1>1 DEF UpTo, ToSet
<1>3. QED
  BY <1>2 DEF Increasing

LEMMA AddedNumber ==
  ASSUME NEW s \in Seq(Nat), NEW t \in Seq(Nat), NEW x \in Nat
  PROVE  Append(s \o t, x) = s \o Append(t, x)
<1>1. Append(s \o t, x) = (s \o t) \o <<x>>
  <2>1. s \o t \in Seq(Nat)
    OBVIOUS
  <2>2. QED
    BY <2>1, AppendIsConcat, Zenon
<1>2. Append(t, x) = t \o <<x>>
  BY AppendIsConcat, Zenon
<1>3. (s \o t) \o <<x>> = s \o (t \o <<x>>)
  BY ConcatAssociative, SMT
<1>4. QED
  BY <1>1, <1>2, <1>3, Zenon

LEMMA IncreasingAdded ==
  ASSUME NEW s \in Seq(Nat), NEW t \in Seq(Nat), NEW x \in Nat, Increasing(s \o t),
         \A y \in ToSet(s \o t) : y < x
  PROVE  Increasing(s \o Append(t, x))
<1>1. s \o t \in Seq(Nat)
  OBVIOUS
<1>2. Increasing(Append(s \o t, x))
  BY <1>1, IncreasingAppend
<1>3. Append(s \o t, x) = s \o Append(t, x)
  BY AddedNumber, Zenon
<1>4. QED
  BY <1>2, <1>3, Zenon
=============================================================================
