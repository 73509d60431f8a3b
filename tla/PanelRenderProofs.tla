--------------------------- MODULE PanelRenderProofs ---------------------------
(***************************************************************************)
(* Type correctness of PanelRender, and that a report shows what its       *)
(* request asked for, for any dashboards, options, requests and workers.   *)
(*                                                                         *)
(* Keep is defined by recursion along a sequence.  What it does to every   *)
(* sequence is proved by induction, here a fact about sets: the least      *)
(* element of a set of numbers exists because < is well-founded on Nat.    *)
(***************************************************************************)
EXTENDS PanelRender, SequenceTheorems, FiniteSetTheorems, WellFoundedInduction, TLAPS

-----------------------------------------------------------------------------
(* Induction, on numbers and on sequences, for a set instead of a predicate *)

LEMMA LeastElement ==
    ASSUME NEW T \in SUBSET Nat, T # {}
    PROVE  \E m \in T : \A k \in T : m <= k
<1>1. PICK m \in T : \A y \in T : <<y, m>> \notin OpToRel(<, Nat)
    BY WFMin, NatLessThanWellFounded, Zenon
<1>2. \A y \in T : ~(y < m)
    BY <1>1 DEF OpToRel
<1> QED
    BY <1>2

LEMMA NatInduct ==
    ASSUME NEW T, 0 \in T, \A n \in Nat : n \in T => n + 1 \in T
    PROVE  Nat \subseteq T
<1> DEFINE Out == Nat \ T
<1> SUFFICES ASSUME Out # {} PROVE FALSE
    OBVIOUS
<1>1. PICK m \in Out : \A k \in Out : m <= k
    BY LeastElement
<1>2. m - 1 \in Nat /\ (m - 1) + 1 = m
    BY <1>1
<1>3. m - 1 \in T
    BY <1>1, <1>2
<1> QED
    BY <1>2, <1>3

LEMMA SeqInduct ==
    ASSUME NEW S, NEW P, <<>> \in P,
           \A s \in Seq(S) : s \in P => \A x \in S : Append(s, x) \in P
    PROVE  Seq(S) \subseteq P
<1> DEFINE T == {n \in Nat : \A s \in Seq(S) : Len(s) = n => s \in P}
<1>1. 0 \in T
    BY EmptySeq
<1>2. ASSUME NEW n \in Nat, n \in T PROVE n + 1 \in T
  <2> SUFFICES ASSUME NEW s \in Seq(S), Len(s) = n + 1 PROVE s \in P
    OBVIOUS
  <2> DEFINE front == SubSeq(s, 1, n)
             last  == s[n + 1]
  <2>1. last \in S /\ front \in Seq(S) /\ Len(front) = n
    OBVIOUS
  <2>2. s = Append(front, last)
    BY <2>1
  <2>3. front \in P
    BY <1>2, <2>1
  <2> HIDE DEF front, last
  <2> QED
    BY <2>1, <2>2, <2>3
<1>3. Nat \subseteq T
    BY <1>1, <1>2, NatInduct
<1> QED
    BY <1>3, LenProperties

-----------------------------------------------------------------------------
(* Keep *)

(* The function Keep is computed with, as far as k. *)
Unfolds(f, k, s, wanted) ==
    f = [n \in 0..k |-> IF n = 0 THEN <<>>
                        ELSE IF s[n] \in wanted THEN Append(f[n - 1], s[n]) ELSE f[n - 1]]

LEMMA KeepUnfolds ==
    ASSUME NEW s, NEW wanted
    PROVE  Keep(s, wanted) = (CHOOSE f : Unfolds(f, Len(s), s, wanted))[Len(s)]
BY DEF Keep, Unfolds

LEMMA UnfoldingExists ==
    ASSUME NEW s, NEW wanted
    PROVE  \A k \in Nat : \E f : Unfolds(f, k, s, wanted)
<1> DEFINE T == {k \in Nat : \E f : Unfolds(f, k, s, wanted)}
<1>1. 0 \in T
  <2> DEFINE f == [n \in 0..0 |-> <<>>]
  <2>1. Unfolds(f, 0, s, wanted)
    BY DEF Unfolds
  <2> QED
    BY <2>1
<1>2. ASSUME NEW k \in Nat, k \in T PROVE k + 1 \in T
  <2>1. PICK f : Unfolds(f, k, s, wanted)
    BY <1>2
  <2> DEFINE g == [n \in 0..(k + 1) |->
                    IF n <= k THEN f[n]
                    ELSE IF s[n] \in wanted THEN Append(f[n - 1], s[n]) ELSE f[n - 1]]
  <2>2. \A n \in 0..(k + 1) :
          g[n] = IF n = 0 THEN <<>>
                 ELSE IF s[n] \in wanted THEN Append(g[n - 1], s[n]) ELSE g[n - 1]
    <3> TAKE n \in 0..(k + 1)
    <3>1. CASE n = 0
        BY <3>1, <2>1 DEF Unfolds
    <3>2. CASE n \in 1..k
      <4>1. n \in 0..k /\ n - 1 \in 0..(k + 1) /\ n - 1 <= k /\ n # 0
        BY <3>2
      <4>2. g[n] = f[n] /\ g[n - 1] = f[n - 1]
        BY <4>1
      <4>3. f[n] = IF n = 0 THEN <<>>
                   ELSE IF s[n] \in wanted THEN Append(f[n - 1], s[n]) ELSE f[n - 1]
        BY <4>1, <2>1 DEF Unfolds
      <4> QED
        BY <4>1, <4>2, <4>3
    <3>3. CASE n = k + 1
      <4>1. n - 1 \in 0..(k + 1) /\ n - 1 <= k /\ ~(n <= k) /\ n # 0
        BY <3>3
      <4>2. g[n - 1] = f[n - 1]
        BY <4>1
      <4>3. g[n] = IF s[n] \in wanted THEN Append(f[n - 1], s[n]) ELSE f[n - 1]
        BY <4>1
      <4> QED
        BY <4>1, <4>2, <4>3
    <3> QED
        BY <3>1, <3>2, <3>3
  <2>3. Unfolds(g, k + 1, s, wanted)
    BY <2>2 DEF Unfolds
  <2> HIDE DEF g
  <2> QED
    BY <2>3
<1>3. Nat \subseteq T
    BY <1>1, <1>2, NatInduct
<1> QED
    BY <1>3

(* Two such functions agree as far as both go, if their sequences do. *)
LEMMA UnfoldingsAgree ==
    ASSUME NEW s, NEW t, NEW wanted, NEW f, NEW g, NEW a \in Nat, NEW b \in Nat, a <= b,
           Unfolds(f, a, s, wanted), Unfolds(g, b, t, wanted),
           \A n \in 1..a : s[n] = t[n]
    PROVE  \A n \in 0..a : f[n] = g[n]
<1> DEFINE T == {n \in Nat : n <= a => f[n] = g[n]}
<1>1. 0 \in T
    BY DEF Unfolds
<1>2. ASSUME NEW n \in Nat, n \in T PROVE n + 1 \in T
  <2> SUFFICES ASSUME n + 1 <= a PROVE f[n + 1] = g[n + 1]
    OBVIOUS
  <2>1. /\ n + 1 \in 0..a /\ n + 1 \in 0..b /\ n + 1 \in 1..a /\ n + 1 # 0
        /\ (n + 1) - 1 = n /\ n <= a
    OBVIOUS
  <2>2. f[n] = g[n] /\ s[n + 1] = t[n + 1]
    BY <1>2, <2>1
  <2>3. f[n + 1] = IF s[n + 1] \in wanted THEN Append(f[n], s[n + 1]) ELSE f[n]
    BY <2>1 DEF Unfolds
  <2>4. g[n + 1] = IF t[n + 1] \in wanted THEN Append(g[n], t[n + 1]) ELSE g[n]
    BY <2>1 DEF Unfolds
  <2> QED
    BY <2>2, <2>3, <2>4
<1>3. Nat \subseteq T
    BY <1>1, <1>2, NatInduct
<1> QED
    BY <1>3

LEMMA KeepEmpty == \A wanted : Keep(<<>>, wanted) = <<>>
<1> TAKE wanted
<1> DEFINE f == CHOOSE f : Unfolds(f, 0, <<>>, wanted)
<1>1. Unfolds(f, 0, <<>>, wanted)
    BY UnfoldingExists
<1>2. Keep(<<>>, wanted) = f[0]
    BY KeepUnfolds, Len(<<>>) = 0
<1> HIDE DEF f
<1>3. f[0] = <<>>
    BY <1>1 DEF Unfolds
<1> QED
    BY <1>2, <1>3

LEMMA KeepAppend ==
    ASSUME NEW S, NEW s \in Seq(S), NEW x \in S, NEW wanted
    PROVE  Keep(Append(s, x), wanted) = IF x \in wanted THEN Append(Keep(s, wanted), x)
                                        ELSE Keep(s, wanted)
<1> DEFINE t == Append(s, x)
           n == Len(s)
           f == CHOOSE f : Unfolds(f, n, s, wanted)
           g == CHOOSE g : Unfolds(g, n + 1, t, wanted)
<1>0. /\ n \in Nat /\ Len(t) = n + 1 /\ t[n + 1] = x
      /\ \A i \in 1..n : s[i] = t[i]
    OBVIOUS
<1>1. Unfolds(f, n, s, wanted) /\ Unfolds(g, n + 1, t, wanted)
  <2>1. \E h : Unfolds(h, n, s, wanted)
    BY <1>0, UnfoldingExists
  <2>2. \E h : Unfolds(h, n + 1, t, wanted)
    BY <1>0, UnfoldingExists, n + 1 \in Nat
  <2> HIDE DEF t, n
  <2> QED
    BY <2>1, <2>2
<1>2. Keep(s, wanted) = f[n] /\ Keep(t, wanted) = g[n + 1]
    BY <1>0, KeepUnfolds, Zenon
<1> HIDE DEF f, g, t, n
<1>3. \A i \in 0..n : f[i] = g[i]
  <2>1. n + 1 \in Nat /\ n <= n + 1
    BY <1>0
  <2> QED
    BY <1>0, <1>1, <2>1, UnfoldingsAgree
<1>4. f[n] = g[n]
    BY <1>0, <1>3
<1>5. n + 1 \in 0..(n + 1) /\ n + 1 # 0 /\ (n + 1) - 1 = n
    BY <1>0
<1>6. g[n + 1] = IF t[n + 1] \in wanted THEN Append(g[n], t[n + 1]) ELSE g[n]
    BY <1>1, <1>5 DEF Unfolds
<1>7. Keep(t, wanted) = IF x \in wanted THEN Append(Keep(s, wanted), x) ELSE Keep(s, wanted)
    BY <1>0, <1>2, <1>4, <1>6
<1> QED
    BY <1>7 DEF t

-----------------------------------------------------------------------------
(* What Keep does *)

LEMMA ElementsEmpty == Elements(<<>>) = {}
BY DEF Elements

LEMMA ElementsAppend ==
    ASSUME NEW S, NEW s \in Seq(S), NEW x \in S
    PROVE  Elements(Append(s, x)) = Elements(s) \cup {x}
<1> DEFINE t == Append(s, x)
           n == Len(s)
<1>1. /\ n \in Nat /\ DOMAIN s = 1..n /\ DOMAIN t = 1..(n + 1) /\ t[n + 1] = x
      /\ \A i \in 1..n : t[i] = s[i]
    OBVIOUS
<1> HIDE DEF t, n
<1>2. Elements(t) \subseteq Elements(s) \cup {x}
  <2> SUFFICES ASSUME NEW i \in 1..(n + 1) PROVE t[i] \in Elements(s) \cup {x}
    BY <1>1 DEF Elements
  <2>1. i \in 1..n \/ i = n + 1
    BY <1>1
  <2> QED
    BY <1>1, <2>1 DEF Elements
<1>3. x \in Elements(t)
  <2>1. n + 1 \in DOMAIN t
    BY <1>1
  <2> QED
    BY <1>1, <2>1 DEF Elements
<1>4. ASSUME NEW i \in 1..n PROVE s[i] \in Elements(t)
  <2>1. i \in DOMAIN t /\ t[i] = s[i]
    BY <1>1
  <2> QED
    BY <2>1 DEF Elements
<1>5. Elements(s) \subseteq Elements(t)
    BY <1>1, <1>4 DEF Elements
<1> QED
    BY <1>2, <1>3, <1>5 DEF t

LEMMA ElementsConcat ==
    ASSUME NEW S, NEW s \in Seq(S), NEW t \in Seq(S)
    PROVE  Elements(s \o t) = Elements(s) \cup Elements(t)
<1> DEFINE u == s \o t
           n == Len(s)
           m == Len(t)
<1>1. /\ n \in Nat /\ m \in Nat /\ DOMAIN s = 1..n /\ DOMAIN t = 1..m /\ DOMAIN u = 1..(n + m)
      /\ \A i \in 1..n : u[i] = s[i]
      /\ \A i \in 1..m : u[n + i] = t[i]
      /\ \A i \in (n + 1)..(n + m) : u[i] = t[i - n]
    OBVIOUS
<1> HIDE DEF u, n, m
<1>2. ASSUME NEW i \in 1..(n + m) PROVE u[i] \in Elements(s) \cup Elements(t)
  <2>1. CASE i <= n
    BY <1>1, <2>1, i \in 1..n DEF Elements
  <2>2. CASE ~(i <= n)
    <3>1. i \in (n + 1)..(n + m) /\ i - n \in 1..m
      BY <1>1, <2>2
    <3> QED
      BY <1>1, <3>1 DEF Elements
  <2> QED
    BY <2>1, <2>2
<1>3. ASSUME NEW i \in 1..n PROVE s[i] \in Elements(u)
  <2>1. i \in DOMAIN u
    BY <1>1
  <2> QED
    BY <1>1, <2>1 DEF Elements
<1>4. ASSUME NEW i \in 1..m PROVE t[i] \in Elements(u)
  <2>1. n + i \in DOMAIN u
    BY <1>1
  <2> QED
    BY <1>1, <2>1 DEF Elements
<1>5. Elements(u) \subseteq Elements(s) \cup Elements(t)
  <2> SUFFICES ASSUME NEW p \in Elements(u) PROVE p \in Elements(s) \cup Elements(t)
    OBVIOUS
  <2>1. PICK i \in 1..(n + m) : p = u[i]
    BY <1>1 DEF Elements
  <2> QED
    BY <1>2, <2>1
<1>6. Elements(s) \subseteq Elements(u) /\ Elements(t) \subseteq Elements(u)
    BY <1>1, <1>3, <1>4 DEF Elements
<1> QED
    BY <1>5, <1>6 DEF u

LEMMA NoElements ==
    ASSUME NEW S, NEW s \in Seq(S), Elements(s) = {}
    PROVE  s = <<>>
<1>1. Len(s) \in Nat /\ DOMAIN s = 1..Len(s)
    OBVIOUS
<1>2. Len(s) = 0
  <2> SUFFICES ASSUME Len(s) # 0 PROVE FALSE
    OBVIOUS
  <2>1. 1 \in DOMAIN s
    BY <1>1
  <2> QED
    BY <2>1 DEF Elements
<1> QED
    BY <1>2, EmptySeq

(* It keeps the wanted entries and nothing else. *)
LEMMA KeepElements ==
    ASSUME NEW S, NEW wanted
    PROVE  \A s \in Seq(S) : /\ Keep(s, wanted) \in Seq(S)
                             /\ Elements(Keep(s, wanted)) = Elements(s) \cap wanted
<1> DEFINE P == {s \in Seq(S) : /\ Keep(s, wanted) \in Seq(S)
                                /\ Elements(Keep(s, wanted)) = Elements(s) \cap wanted}
<1>1. <<>> \in P
    BY KeepEmpty, ElementsEmpty, EmptySeq
<1>2. ASSUME NEW s \in Seq(S), s \in P, NEW x \in S PROVE Append(s, x) \in P
  <2>1. Append(s, x) \in Seq(S) /\ Elements(Append(s, x)) = Elements(s) \cup {x}
    BY ElementsAppend, AppendProperties
  <2>2. Keep(s, wanted) \in Seq(S) /\ Elements(Keep(s, wanted)) = Elements(s) \cap wanted
    BY <1>2
  <2>3. /\ Append(Keep(s, wanted), x) \in Seq(S)
        /\ Elements(Append(Keep(s, wanted), x)) = Elements(Keep(s, wanted)) \cup {x}
    BY <2>2, ElementsAppend, AppendProperties
  <2>4. Keep(Append(s, x), wanted) = IF x \in wanted THEN Append(Keep(s, wanted), x)
                                     ELSE Keep(s, wanted)
    BY KeepAppend
  <2>5. CASE x \in wanted
    BY <2>1, <2>2, <2>3, <2>4, <2>5
  <2>6. CASE x \notin wanted
    BY <2>1, <2>2, <2>4, <2>6
  <2> QED
    BY <2>5, <2>6
<1>3. Seq(S) \subseteq P
  <2> HIDE DEF P
  <2> QED
    BY <1>1, <1>2, SeqInduct
<1> QED
    BY <1>3

(* It keeps their order: what it keeps of two sequences is kept of them one after the
   other. *)
LEMMA KeepConcat ==
    ASSUME NEW S, NEW wanted, NEW s \in Seq(S)
    PROVE  \A t \in Seq(S) : Keep(s \o t, wanted) = Keep(s, wanted) \o Keep(t, wanted)
<1> DEFINE P == {t \in Seq(S) : Keep(s \o t, wanted) = Keep(s, wanted) \o Keep(t, wanted)}
<1>0. Keep(s, wanted) \in Seq(S)
    BY KeepElements
<1>1. <<>> \in P
  <2>1. s \o <<>> = s /\ Keep(s, wanted) \o <<>> = Keep(s, wanted)
    BY <1>0, ConcatEmptySeq
  <2> QED
    BY <2>1, KeepEmpty, EmptySeq
<1>2. ASSUME NEW t \in Seq(S), t \in P, NEW x \in S PROVE Append(t, x) \in P
  <2>1. s \o t \in Seq(S) /\ Append(t, x) \in Seq(S) /\ s \o Append(t, x) = Append(s \o t, x)
    OBVIOUS
  <2>2. Keep(s \o t, wanted) = Keep(s, wanted) \o Keep(t, wanted)
    BY <1>2
  <2>3. Keep(t, wanted) \in Seq(S)
    BY KeepElements
  <2>4. Keep(s, wanted) \o Append(Keep(t, wanted), x)
            = Append(Keep(s, wanted) \o Keep(t, wanted), x)
    <3> DEFINE a == Keep(s, wanted)
               b == Keep(t, wanted)
    <3>1. a \in Seq(S) /\ b \in Seq(S)
      BY <1>0, <2>3
    <3> HIDE DEF a, b
    <3>2. a \o Append(b, x) = Append(a \o b, x)
      BY <3>1
    <3> QED
      BY <3>2 DEF a, b
  <2>5. Keep(Append(t, x), wanted) = IF x \in wanted THEN Append(Keep(t, wanted), x)
                                     ELSE Keep(t, wanted)
    BY KeepAppend
  <2>6. Keep(Append(s \o t, x), wanted) = IF x \in wanted THEN Append(Keep(s \o t, wanted), x)
                                          ELSE Keep(s \o t, wanted)
    BY <2>1, KeepAppend
  <2> QED
    BY <2>1, <2>2, <2>4, <2>5, <2>6
<1>3. Seq(S) \subseteq P
  <2> HIDE DEF P
  <2> QED
    BY <1>1, <1>2, SeqInduct
<1> QED
    BY <1>3

LEMMA KeepTwice ==
    ASSUME NEW S, NEW A, NEW B
    PROVE  \A s \in Seq(S) : Keep(Keep(s, A), B) = Keep(s, A \cap B)
<1> DEFINE P == {s \in Seq(S) : Keep(Keep(s, A), B) = Keep(s, A \cap B)}
<1>1. <<>> \in P
    BY KeepEmpty, EmptySeq
<1>2. ASSUME NEW s \in Seq(S), s \in P, NEW x \in S PROVE Append(s, x) \in P
  <2>1. Keep(s, A) \in Seq(S) /\ Append(s, x) \in Seq(S)
    BY KeepElements, AppendProperties
  <2>2. Keep(Append(s, x), A) = IF x \in A THEN Append(Keep(s, A), x) ELSE Keep(s, A)
    BY KeepAppend
  <2>3. Keep(Append(Keep(s, A), x), B) = IF x \in B THEN Append(Keep(Keep(s, A), B), x)
                                         ELSE Keep(Keep(s, A), B)
    BY <2>1, KeepAppend
  <2>4. Keep(Append(s, x), A \cap B) = IF x \in A \cap B THEN Append(Keep(s, A \cap B), x)
                                       ELSE Keep(s, A \cap B)
    BY KeepAppend
  <2>5. Keep(Keep(s, A), B) = Keep(s, A \cap B)
    BY <1>2
  <2>6. CASE x \in A
    <3>1. Keep(Keep(Append(s, x), A), B) = Keep(Append(Keep(s, A), x), B)
      BY <2>2, <2>6
    <3>2. Keep(Append(s, x), A \cap B) = IF x \in B THEN Append(Keep(s, A \cap B), x)
                                         ELSE Keep(s, A \cap B)
      BY <2>4, <2>6
    <3> QED
      BY <2>1, <2>3, <2>5, <3>1, <3>2
  <2>7. CASE x \notin A
    <3>1. Keep(Keep(Append(s, x), A), B) = Keep(Keep(s, A), B)
      BY <2>2, <2>7
    <3>2. Keep(Append(s, x), A \cap B) = Keep(s, A \cap B)
      BY <2>4, <2>7
    <3> QED
      BY <2>1, <2>5, <3>1, <3>2
  <2> QED
    BY <2>6, <2>7
<1>3. Seq(S) \subseteq P
  <2> HIDE DEF P
  <2> QED
    BY <1>1, <1>2, SeqInduct
<1> QED
    BY <1>3

(* Only what is wanted of its entries counts. *)
LEMMA KeepSame ==
    ASSUME NEW S, NEW A, NEW B
    PROVE  \A s \in Seq(S) : Elements(s) \cap A = Elements(s) \cap B => Keep(s, A) = Keep(s, B)
<1> DEFINE P == {s \in Seq(S) : Elements(s) \cap A = Elements(s) \cap B
                                    => Keep(s, A) = Keep(s, B)}
<1>1. <<>> \in P
    BY KeepEmpty, EmptySeq
<1>2. ASSUME NEW s \in Seq(S), s \in P, NEW x \in S PROVE Append(s, x) \in P
  <2>1. Append(s, x) \in Seq(S) /\ Elements(Append(s, x)) = Elements(s) \cup {x}
    BY ElementsAppend, AppendProperties
  <2> SUFFICES ASSUME (Elements(s) \cup {x}) \cap A = (Elements(s) \cup {x}) \cap B
               PROVE  Keep(Append(s, x), A) = Keep(Append(s, x), B)
    BY <2>1
  <2>2. Keep(s, A) = Keep(s, B) /\ (x \in A <=> x \in B)
    BY <1>2
  <2>3. Keep(Append(s, x), A) = IF x \in A THEN Append(Keep(s, A), x) ELSE Keep(s, A)
    BY KeepAppend
  <2>4. Keep(Append(s, x), B) = IF x \in B THEN Append(Keep(s, B), x) ELSE Keep(s, B)
    BY KeepAppend
  <2> QED
    BY <2>2, <2>3, <2>4
<1>3. Seq(S) \subseteq P
  <2> HIDE DEF P
  <2> QED
    BY <1>1, <1>2, SeqInduct
<1> QED
    BY <1>3

LEMMA KeepAll ==
    ASSUME NEW S, NEW wanted
    PROVE  \A s \in Seq(S) : Elements(s) \subseteq wanted => Keep(s, wanted) = s
<1> DEFINE P == {s \in Seq(S) : Elements(s) \subseteq wanted => Keep(s, wanted) = s}
<1>1. <<>> \in P
    BY KeepEmpty, EmptySeq
<1>2. ASSUME NEW s \in Seq(S), s \in P, NEW x \in S PROVE Append(s, x) \in P
  <2>1. Append(s, x) \in Seq(S) /\ Elements(Append(s, x)) = Elements(s) \cup {x}
    BY ElementsAppend, AppendProperties
  <2>2. Keep(Append(s, x), wanted) = IF x \in wanted THEN Append(Keep(s, wanted), x)
                                     ELSE Keep(s, wanted)
    BY KeepAppend
  <2> QED
    BY <1>2, <2>1, <2>2
<1>3. Seq(S) \subseteq P
  <2> HIDE DEF P
  <2> QED
    BY <1>1, <1>2, SeqInduct
<1> QED
    BY <1>3

LEMMA KeepNone ==
    ASSUME NEW S, NEW wanted, NEW s \in Seq(S), Elements(s) \cap wanted = {}
    PROVE  Keep(s, wanted) = <<>>
<1>1. Keep(s, wanted) \in Seq(S) /\ Elements(Keep(s, wanted)) = {}
    BY KeepElements
<1> QED
    BY <1>1, NoElements

Distinct(s) == \A i, j \in DOMAIN s : s[i] = s[j] => i = j

LEMMA DistinctAppend ==
    ASSUME NEW S, NEW s \in Seq(S), NEW x \in S
    PROVE  Distinct(Append(s, x)) <=> Distinct(s) /\ x \notin Elements(s)
<1> DEFINE t == Append(s, x)
           n == Len(s)
<1>1. /\ n \in Nat /\ DOMAIN s = 1..n /\ DOMAIN t = 1..(n + 1) /\ t[n + 1] = x
      /\ \A i \in 1..n : t[i] = s[i]
    OBVIOUS
<1>2. n + 1 \notin 1..n /\ 1..(n + 1) = (1..n) \cup {n + 1}
    BY <1>1
<1> HIDE DEF t, n
<1>3. ASSUME Distinct(t) PROVE Distinct(s) /\ x \notin Elements(s)
  <2>1. \A i \in 1..n : i \in DOMAIN t /\ t[i] = s[i] /\ t[i] # t[n + 1]
    BY <1>1, <1>2, <1>3 DEF Distinct
  <2>2. Distinct(s)
    BY <1>1, <1>3, <2>1 DEF Distinct
  <2> QED
    BY <1>1, <2>1, <2>2 DEF Elements
<1>4. ASSUME Distinct(s), x \notin Elements(s) PROVE Distinct(t)
  <2>1. \A i \in 1..n : t[i] # x
    BY <1>1, <1>4 DEF Elements
  <2>2. ASSUME NEW i \in DOMAIN t, NEW j \in DOMAIN t, t[i] = t[j] PROVE i = j
    <3>1. i \in 1..n \/ i = n + 1
      BY <1>1, <1>2
    <3>2. j \in 1..n \/ j = n + 1
      BY <1>1, <1>2
    <3>3. CASE i \in 1..n /\ j \in 1..n
      BY <1>1, <1>4, <2>2, <3>3 DEF Distinct
    <3> QED
      BY <1>1, <2>1, <2>2, <3>1, <3>2, <3>3
  <2> QED
    BY <2>2 DEF Distinct
<1> QED
    BY <1>3, <1>4 DEF t

LEMMA KeepDistinct ==
    ASSUME NEW S, NEW wanted
    PROVE  \A s \in Seq(S) : Distinct(s) => Distinct(Keep(s, wanted))
<1> DEFINE P == {s \in Seq(S) : Distinct(s) => Distinct(Keep(s, wanted))}
<1>1. <<>> \in P
    BY KeepEmpty, EmptySeq
<1>2. ASSUME NEW s \in Seq(S), s \in P, NEW x \in S PROVE Append(s, x) \in P
  <2>1. Append(s, x) \in Seq(S)
    OBVIOUS
  <2> SUFFICES ASSUME Distinct(Append(s, x)) PROVE Distinct(Keep(Append(s, x), wanted))
    BY <2>1
  <2>2. Distinct(s) /\ x \notin Elements(s)
    BY DistinctAppend
  <2>3. Keep(s, wanted) \in Seq(S) /\ x \notin Elements(Keep(s, wanted))
    BY <2>2, KeepElements
  <2>4. Distinct(Keep(s, wanted))
    BY <1>2, <2>2
  <2>5. Distinct(Append(Keep(s, wanted), x))
    BY <2>3, <2>4, DistinctAppend
  <2>6. Keep(Append(s, x), wanted) = IF x \in wanted THEN Append(Keep(s, wanted), x)
                                     ELSE Keep(s, wanted)
    BY KeepAppend
  <2> QED
    BY <2>4, <2>5, <2>6
<1>3. Seq(S) \subseteq P
  <2> HIDE DEF P
  <2> QED
    BY <1>1, <1>2, SeqInduct
<1> QED
    BY <1>3

(* To choose entries and then look each of them up is to look them up and then choose. *)
LookedUp(h, s) == [i \in DOMAIN s |-> h[s[i]]]

LEMMA LookedUpAppend ==
    ASSUME NEW S, NEW U, NEW h \in [S -> U], NEW s \in Seq(S), NEW x \in S
    PROVE  /\ LookedUp(h, s) \in Seq(U)
           /\ LookedUp(h, Append(s, x)) = Append(LookedUp(h, s), h[x])
<1> DEFINE t == Append(s, x)
           n == Len(s)
           a == LookedUp(h, s)
<1>1. /\ n \in Nat /\ DOMAIN s = 1..n /\ DOMAIN t = 1..(n + 1) /\ t[n + 1] = x
      /\ \A i \in 1..n : t[i] = s[i] /\ s[i] \in S
    OBVIOUS
<1> HIDE DEF t, n
<1>2. a = [i \in 1..n |-> h[s[i]]] /\ LookedUp(h, t) = [i \in 1..(n + 1) |-> h[t[i]]]
    BY <1>1 DEF LookedUp
<1>3. a \in [1..n -> U]
    BY <1>1, <1>2
<1>4. a \in Seq(U) /\ Len(a) = n
    BY <1>1, <1>2, <1>3, SeqDef
<1>5. DOMAIN Append(a, h[x]) = 1..(n + 1) /\ Append(a, h[x])[n + 1] = h[x]
      /\ \A i \in 1..n : Append(a, h[x])[i] = a[i]
  <2> HIDE DEF a
  <2>1. h[x] \in U
    OBVIOUS
  <2> QED
    BY <1>4, <2>1
<1>6. Append(a, h[x]) = [i \in 1..(n + 1) |-> Append(a, h[x])[i]]
  <2> HIDE DEF a
  <2>1. h[x] \in U
    OBVIOUS
  <2>2. Append(a, h[x]) \in Seq(U)
    BY <1>4, <2>1
  <2>3. Append(a, h[x]) \in [1..(n + 1) -> U]
    BY <1>5, <2>2, LenProperties
  <2> QED
    BY <2>3
<1>7. \A i \in 1..(n + 1) : h[t[i]] = Append(a, h[x])[i]
  <2> TAKE i \in 1..(n + 1)
  <2>1. i \in 1..n \/ i = n + 1
    BY <1>1
  <2> QED
    BY <1>1, <1>2, <1>5, <2>1
<1> HIDE DEF a
<1>8. LookedUp(h, t) = Append(a, h[x])
    BY <1>2, <1>6, <1>7
<1> QED
    BY <1>4, <1>8 DEF a, t

LEMMA KeepLookedUp ==
    ASSUME NEW S, NEW U, NEW h \in [S -> U], NEW A, NEW B,
           \A x \in S : x \in A <=> h[x] \in B
    PROVE  \A s \in Seq(S) : LookedUp(h, Keep(s, A)) = Keep(LookedUp(h, s), B)
<1>0. ASSUME NEW r \in Seq(S), NEW x \in S
      PROVE  /\ LookedUp(h, r) \in Seq(U)
             /\ LookedUp(h, Append(r, x)) = Append(LookedUp(h, r), h[x])
    BY LookedUpAppend
<1> DEFINE P == {s \in Seq(S) : LookedUp(h, Keep(s, A)) = Keep(LookedUp(h, s), B)}
<1>1. <<>> \in P
  <2>1. LookedUp(h, <<>>) = <<>>
    BY DEF LookedUp
  <2> QED
    BY <2>1, KeepEmpty, EmptySeq
<1>2. ASSUME NEW s \in Seq(S), s \in P, NEW x \in S PROVE Append(s, x) \in P
  <2>1. Append(s, x) \in Seq(S) /\ Keep(s, A) \in Seq(S) /\ h[x] \in U
    BY KeepElements, AppendProperties
  <2>2. /\ LookedUp(h, s) \in Seq(U)
        /\ LookedUp(h, Append(s, x)) = Append(LookedUp(h, s), h[x])
    BY <1>0
  <2>6. LookedUp(h, Append(Keep(s, A), x)) = Append(LookedUp(h, Keep(s, A)), h[x])
    BY <1>0, <2>1
  <2>3. Keep(Append(s, x), A) = IF x \in A THEN Append(Keep(s, A), x) ELSE Keep(s, A)
    BY KeepAppend
  <2>4. Keep(Append(LookedUp(h, s), h[x]), B)
            = IF h[x] \in B THEN Append(Keep(LookedUp(h, s), B), h[x])
              ELSE Keep(LookedUp(h, s), B)
    BY <2>1, <2>2, KeepAppend
  <2>5. LookedUp(h, Keep(s, A)) = Keep(LookedUp(h, s), B)
    BY <1>2
  <2> QED
    BY <2>1, <2>2, <2>3, <2>4, <2>5, <2>6
<1>3. Seq(S) \subseteq P
  <2> HIDE DEF P
  <2> QED
    BY <1>1, <1>2, SeqInduct
<1> QED
    BY <1>3

-----------------------------------------------------------------------------
(* The inductive invariant *)

Rendering == {"sync", "network", "system", "render", "collect"}

RequestInv ==
    /\ settings \in Settings /\ request \in Requests /\ renderWorkers \in WorkerCounts
    /\ job.names \subseteq GroupNames /\ job.skip \in BOOLEAN
    /\ stage \in {"request", "refused", "queued", "done"} \cup Rendering
    /\ stage \in Rendering => ~job.skip
    /\ AcceptedAsMeant

(* The dashboards Generate has been through. *)
Passed ==
    IF stage = "network" THEN {"sync"}
    ELSE IF stage = "system" THEN {"sync", "network"}
    ELSE IF stage \in {"render", "collect", "done"} THEN {"sync", "network", "system"} ELSE {}

Shown(dashboards, asked) ==
    {p \in Elements(AllPanels) : DashboardOf(p) \in dashboards /\ p \in asked}
Asked  == {p \in Elements(AllPanels) : Asks(p)}
Wanted == Shown(Passed \ missing, Asked)

SelectionInv ==
    /\ missing \subseteq Passed
    /\ panels = Keep(AllPanels, Wanted)

(* What the pool has done is known of every place of the panels.  A panel that is being
   rendered was not tried before, and by nobody else at the same time; a result on its
   way tells what was tried; and what was handed over is at a worker, in the channel or
   in its place. *)
Busy(w) == worker[w].at \in {"render", "deliver"}
Held(w) == worker[w].result.index
Outcomes(p) == {ok \in BOOLEAN : <<p, ok>> \in tried}
Tells(r) == r.index \in 1..sent /\ <<panels[r.index], r.ok>> \in tried
Working == [at : {"idle", "render", "deliver", "done"}, result : Result]

PoolShape ==
    /\ sent \in 0..Len(panels)
    /\ jobsClosed \in BOOLEAN /\ resultsClosed \in BOOLEAN
    /\ worker \in [DOMAIN worker -> Working]
    /\ results \in Seq(Result) /\ Len(results) <= Len(panels)
    /\ ordered \in [1..Len(panels) -> Result]
    /\ tried \subseteq {panels[i] : i \in 1..sent} \X BOOLEAN

PoolClosed ==
    /\ jobsClosed => sent = Len(panels)
    /\ \A w \in DOMAIN worker : worker[w].at = "done" => jobsClosed
    /\ resultsClosed => jobsClosed /\ AllDone

TriedOnce ==
    /\ \A p \in Elements(panels) : ~(<<p, TRUE>> \in tried /\ <<p, FALSE>> \in tried)
    /\ \A w \in DOMAIN worker :
        worker[w].at = "render" => /\ Held(w) \in 1..sent
                                   /\ Outcomes(panels[Held(w)]) = {}
    /\ \A v, w \in DOMAIN worker :
        worker[v].at = "render" /\ worker[w].at = "render" /\ Held(v) = Held(w) => v = w

ResultsTell ==
    /\ \A w \in DOMAIN worker : worker[w].at = "deliver" => Tells(worker[w].result)
    /\ \A n \in DOMAIN results : Tells(results[n])
    /\ \A i \in 1..Len(panels) :
        ordered[i].index # 0 => ordered[i].index = i /\ Tells(ordered[i])

NothingLost ==
    \A i \in 1..sent :
        \/ \E w \in DOMAIN worker : Busy(w) /\ Held(w) = i
        \/ \E n \in DOMAIN results : results[n].index = i
        \/ ordered[i].index = i

Untouched ==
    /\ sent = 0 /\ jobsClosed = FALSE /\ resultsClosed = FALSE
    /\ worker = <<>> /\ results = <<>> /\ ordered = <<>> /\ charts = <<>> /\ tried = {}

Returned ==
    /\ resultsClosed /\ results = <<>>
    /\ charts = Keep(panels, {p \in Elements(panels) : <<p, TRUE>> \in tried})
    /\ \A p \in Elements(panels) : <<p, TRUE>> \in tried <=> <<p, FALSE>> \notin tried

Running == stage = "collect" \/ (stage = "done" /\ panels # <<>>)

RunInv == PoolShape /\ PoolClosed /\ TriedOnce /\ ResultsTell /\ NothingLost

PoolInv ==
    IF Running THEN /\ panels # <<>> /\ RunInv
                    /\ IF stage = "done" THEN Returned ELSE charts = <<>>
    ELSE Untouched

PanelInv == RequestInv /\ SelectionInv /\ PoolInv
-----------------------------------------------------------------------------
(* The request and its job *)

LEMMA SettingsTyped ==
    ASSUME settings \in Settings
    PROVE  /\ settings.groups \subseteq Groups /\ settings.alertGroups \subseteq Groups
           /\ settings.skip \in BOOLEAN
           /\ settings.period \in Int /\ settings.alertPeriod \in Int
           /\ settings.alertDelay \in Int
           /\ settings.autoWindow \in Int /\ settings.autoInterval \in Nat \ {0}
BY RequestAssumption DEF RequestAssumption

LEMMA RequestTyped ==
    ASSUME request \in Requests
    PROVE  \/ request.source = "manual" /\ request.body \in Forms /\ request.query \in Forms
           \/ request.source = "alert" /\ request.delay \in Int
           \/ request.source = "auto"
BY RequestAssumption DEF RequestAssumption, Automatic

LEMMA AliasesNameGroups ==
    /\ \A n \in GroupNames : Alias[n] \in Groups
    /\ Blank \notin GroupNames /\ Comma \notin GroupNames /\ Blank # Comma
BY DEF Groups, SyncGroups, Alias, GroupNames, Blank, Comma

(* The names a job keeps stand for the groups they were made of. *)
LEMMA NamesStandForGroups ==
    ASSUME NEW gs \in SUBSET Groups
    PROVE  /\ RenderGroupNames(gs) \subseteq GroupNames
           /\ Unparsed(RenderGroupNames(gs)) = {}
           /\ ParseRenderGroupList(RenderGroupNames(gs)) = gs
<1>1. \A g \in Groups : Name[g] \in GroupNames /\ Alias[Name[g]] = g
  <2> SUFFICES ASSUME NEW g \in Groups
               PROVE  Name[g] \in GroupNames /\ Alias[Name[g]] = g
    OBVIOUS
  <2>1. /\ Name["Frequency"] = "frequency" /\ Name["Offset"] = "offset"
        /\ Name["PathDelay"] = "path_delay" /\ Name["Status"] = "status" /\ Name["All"] = "all"
        /\ Name["Network"] = "network" /\ Name["System"] = "system"
    BY DEF Name
  <2>2. /\ Alias["frequency"] = "Frequency" /\ Alias["offset"] = "Offset"
        /\ Alias["path_delay"] = "PathDelay" /\ Alias["status"] = "Status" /\ Alias["all"] = "All"
        /\ Alias["network"] = "Network" /\ Alias["system"] = "System"
    BY DEF Alias
  <2>3. {"frequency", "offset", "path_delay", "status", "all", "network", "system"}
            \subseteq GroupNames
    BY DEF GroupNames, Alias
  <2> QED
    BY <2>1, <2>2, <2>3 DEF Groups, SyncGroups
<1>2. RenderGroupNames(gs) \subseteq GroupNames
    BY <1>1 DEF RenderGroupNames
<1>3. NormalizeGroupNames(RenderGroupNames(gs)) = RenderGroupNames(gs)
    BY <1>2, AliasesNameGroups DEF NormalizeGroupNames
<1>4. {Alias[n] : n \in RenderGroupNames(gs)} = gs
    BY <1>1 DEF RenderGroupNames
<1> QED
    BY <1>2, <1>3, <1>4 DEF Unparsed, ParseRenderGroupList

(* The parser finds the groups that are named. *)
LEMMA ParsedAsNamed ==
    ASSUME NEW values, Unparsed(values) = {}
    PROVE  /\ ParseRenderGroupList(values) = GroupsOfNames(values)
           /\ ParseRenderGroupList(values) \subseteq Groups
<1>1. values \cap GroupNames = values \ {Blank, Comma}
    BY AliasesNameGroups DEF Unparsed, NormalizeGroupNames
<1>2. ParseRenderGroupList(values) = {Alias[n] : n \in values \cap GroupNames}
    BY <1>1 DEF ParseRenderGroupList, NormalizeGroupNames
<1>3. GroupsOfNames(values) = {Alias[n] : n \in values \cap GroupNames}
    BY AliasesNameGroups DEF GroupsOfNames
<1> QED
    BY <1>2, <1>3 DEF GroupsOfNames

(* Blank names stand for nothing. *)
LEMMA BlanksDropped ==
    ASSUME NEW values
    PROVE  /\ NormalizeGroupNames(NormalizeGroupNames(values)) = NormalizeGroupNames(values)
           /\ GroupsOfNames(NormalizeGroupNames(values)) = GroupsOfNames(values)
           /\ Unparsed(NormalizeGroupNames(values)) = Unparsed(values)
<1>1. NormalizeGroupNames(values) \cap GroupNames = values \cap GroupNames
    BY AliasesNameGroups DEF NormalizeGroupNames
<1> QED
    BY <1>1 DEF NormalizeGroupNames, GroupsOfNames, Unparsed

(* The labels of an alert give the groups it means. *)
LEMMA LabelMeant ==
    ASSUME settings \in Settings, request.source = "alert"
    PROVE  /\ LabelGroups(FirstNonEmpty(request.label, request.common)) = GroupsMeant
           /\ GroupsMeant \subseteq Groups
<1> DEFINE named == IF request.label \subseteq {Blank} THEN request.common ELSE request.label
           first == FirstNonEmpty(request.label, request.common)
<1>1. first = named \ {Blank}
    BY DEF FirstNonEmpty
<1>2. GroupsMeant = IF named \subseteq {Blank} \/ ~(named \subseteq GroupNames \cup {Blank, Comma})
                    THEN settings.alertGroups ELSE GroupsOfNames(named)
    BY DEF GroupsMeant
<1> HIDE DEF named, first
<1>3. first = {} <=> named \subseteq {Blank}
    BY <1>1
<1>4. Unparsed(first) = {} <=> named \subseteq GroupNames \cup {Blank, Comma}
    BY <1>1 DEF Unparsed, NormalizeGroupNames
<1>5. first \cap GroupNames = named \cap GroupNames
    BY <1>1, AliasesNameGroups
<1>6. GroupsOfNames(first) = GroupsOfNames(named)
    BY <1>5 DEF GroupsOfNames
<1>7. LabelGroups(first) = GroupsMeant
    BY <1>2, <1>3, <1>4, <1>6, ParsedAsNamed DEF LabelGroups
<1>8. LabelGroups(first) \subseteq Groups
    BY SettingsTyped, ParsedAsNamed DEF LabelGroups
<1> QED
    BY <1>7, <1>8 DEF first

LEMMA PeriodsPositive ==
    ASSUME settings \in Settings
    PROVE  /\ DefaultPeriod \in Int /\ DefaultPeriod > 0 /\ DefaultPeriod = UsualLength
           /\ AlertPeriod \in Int /\ AlertPeriod > 0
           /\ AutoWindow \in Int /\ AutoWindow > 0
           /\ request.source = "alert" => AlertPeriod = LengthMeant
           /\ request.source = "auto" => AutoWindow = LengthMeant
<1>1. Second \in Nat /\ Second > 0
    BY RequestAssumption DEF RequestAssumption
<1>2. DefaultPeriod \in Int /\ DefaultPeriod > 0 /\ DefaultPeriod = UsualLength
    BY <1>1, SettingsTyped DEF DefaultPeriod, OrHour, UsualLength
<1>3. /\ AlertPeriod \in Int /\ AlertPeriod > 0
      /\ AlertPeriod = IF settings.alertPeriod > 0 THEN settings.alertPeriod ELSE UsualLength
    BY <1>2, SettingsTyped DEF AlertPeriod
<1>4. /\ AutoWindow \in Int /\ AutoWindow > 0
      /\ AutoWindow = IF settings.autoWindow > 0 THEN settings.autoWindow
                      ELSE settings.autoInterval
    BY SettingsTyped DEF AutoWindow
<1>5. /\ request.source = "alert" => AlertPeriod = LengthMeant
      /\ request.source = "auto" => AutoWindow = LengthMeant
    BY <1>3, <1>4 DEF LengthMeant
<1> QED
    BY <1>2, <1>3, <1>4, <1>5

(* A product that is a duration does not wrap. *)
LEMMA FittingDoesNotWrap ==
    ASSUME NEW v \in Nat, v < Limit
    PROVE  Wrapped(v) = v
<1>1. Limit \in Nat /\ Limit > 0
    BY RequestAssumption DEF RequestAssumption
<1> DEFINE m == 2 * Limit
           a == v + Limit
<1>2. a \in Nat /\ m \in Nat /\ m > 0 /\ a < m
    BY <1>1
<1> HIDE DEF a, m
<1>3. a % m = a
    BY <1>2
<1> QED
    BY <1>1, <1>3 DEF Wrapped, a, m

(* What is meant depends on the options and the request alone. *)
LEMMA MeantStays ==
    ASSUME UNCHANGED <<settings, request>>
    PROVE  /\ GroupsMeant' = GroupsMeant
           /\ EndMeant' = EndMeant
           /\ StartMeant' = StartMeant
           /\ StartFits' = StartFits
           /\ SkipMeant' = SkipMeant
<1>1. EndMeant' = EndMeant /\ LengthMeant' = LengthMeant
    BY DEF EndMeant, LengthMeant, Given, UsualLength
<1> QED
    BY <1>1 DEF GroupsMeant, Given, GroupsOfNames, StartMeant, StartFits, SkipMeant

(* The form of a request has what is given in the body or in the query. *)
LEMMA FormGiven ==
    ASSUME request.source = "manual"
    PROVE  /\ Form(request).groups = IF request.body.groups # {} THEN request.body.groups
                                     ELSE NormalizeGroupNames(request.query.groups)
           /\ Given("groups") = IF request.body.groups # {} THEN request.body.groups
                                ELSE request.query.groups
           /\ Form(request).skip = Given("skip")
           /\ Form(request).from = Given("from") /\ Form(request).to = Given("to")
           /\ Form(request).period = Given("period") /\ Form(request).seconds = Given("seconds")
BY DEF Form, Empty, Given

LEMMA GivenTyped ==
    ASSUME request \in Requests, request.source = "manual"
    PROVE  /\ Given("skip") \in {"unset", "yes", "no"}
           /\ Given("from") \in Int /\ Given("to") \in Int
           /\ Given("period") \in Int /\ Given("seconds") \in Int
<1>1. request.body \in Forms /\ request.query \in Forms
    BY RequestTyped
<1> QED
    BY <1>1 DEF Given, Forms

(* What a job has to keep of its request to be run as it was meant. *)
Meant(spec) ==
    /\ spec.names \subseteq GroupNames
    /\ spec.skip \in BOOLEAN
    /\ Unparsed(spec.names) = {}
    /\ spec.from < spec.to
    /\ ParseRenderGroupList(spec.names) = GroupsMeant
    /\ spec.to = EndMeant
    /\ StartFits => spec.from = StartMeant
    /\ spec.skip = SkipMeant

(* The window of an acceptable form is the one that is meant. *)
LEMMA ManualWindow ==
    ASSUME settings \in Settings, request \in Requests, request.source = "manual",
           Acceptable(Form(request))
    PROVE  /\ To(Form(request)) = EndMeant
           /\ StartFits => From(Form(request)) = StartMeant
           /\ From(Form(request)) < To(Form(request))
<1> DEFINE form == Form(request)
<1>1. /\ form.from = Given("from") /\ form.to = Given("to")
      /\ form.period = Given("period") /\ form.seconds = Given("seconds")
    BY FormGiven
<1>2. /\ Given("from") \in Int /\ Given("to") \in Int
      /\ Given("period") \in Int /\ Given("seconds") \in Int
    BY GivenTyped
<1> HIDE DEF form
<1>3. To(form) = EndMeant
    BY <1>1 DEF To, EndMeant
<1>4. ASSUME StartFits, Given("from") = 0 PROVE Period(form) = LengthMeant
  <2>1. LengthMeant = IF Given("seconds") > 0 THEN Given("seconds") * Second
                      ELSE IF Given("period") # 0 THEN Given("period") ELSE UsualLength
    BY DEF LengthMeant
  <2>2. CASE Given("seconds") > 0
    <3> DEFINE v == Given("seconds") * Second
    <3>1. v \in Nat
      <4>1. Given("seconds") \in Nat /\ Second \in Nat
        BY <1>2, <2>2, RequestAssumption DEF RequestAssumption
      <4> QED
        BY <4>1
    <3>2. v < Limit
      BY <1>4 DEF StartFits
    <3>3. Period(form) = Wrapped(v) /\ LengthMeant = v
      BY <1>1, <2>1, <2>2 DEF Period
    <3> HIDE DEF v
    <3> QED
      BY <3>1, <3>2, <3>3, FittingDoesNotWrap
  <2>3. CASE ~(Given("seconds") > 0)
    BY <1>1, <2>1, <2>3, PeriodsPositive DEF Period
  <2> QED
    BY <2>2, <2>3
<1>5. From(form) = IF Given("from") = 0 THEN To(form) - Period(form) ELSE Given("from")
    BY <1>1 DEF From
<1>6. StartFits => From(form) = StartMeant
    BY <1>3, <1>4, <1>5 DEF StartMeant
<1> QED
    BY <1>3, <1>6 DEF Acceptable, form

LEMMA ManualMeant ==
    ASSUME settings \in Settings, request \in Requests, CreateManual
    PROVE  \E spec : Meant(spec) /\ Enqueue(spec)
<1> DEFINE form == Form(request)
           spec == [names |-> IF form.groups = {} THEN RenderGroupNames(settings.groups)
                              ELSE NormalizeGroupNames(form.groups),
                    skip |-> SkipCharts(form), from |-> From(form), to |-> To(form)]
<1>1. request.source = "manual" /\ Acceptable(form) /\ Enqueue(spec)
    BY DEF CreateManual
<1>2. settings.groups \subseteq Groups /\ settings.skip \in BOOLEAN
    BY SettingsTyped
<1>3. Unparsed(form.groups) = {}
    BY <1>1 DEF Acceptable
<1>4. GroupsMeant =
        IF request.body.groups = {} /\ request.query.groups \subseteq {Blank, Comma}
        THEN settings.groups ELSE GroupsOfNames(Given("groups"))
    BY <1>1 DEF GroupsMeant
<1>5. /\ form.groups = IF request.body.groups # {} THEN request.body.groups
                       ELSE NormalizeGroupNames(request.query.groups)
      /\ Given("groups") = IF request.body.groups # {} THEN request.body.groups
                           ELSE request.query.groups
      /\ form.skip = Given("skip")
    BY <1>1, FormGiven
<1>6. To(form) = EndMeant /\ (StartFits => From(form) = StartMeant) /\ From(form) < To(form)
    BY <1>1, ManualWindow
<1>7. SkipCharts(form) = SkipMeant /\ SkipCharts(form) \in BOOLEAN
  <2>1. Given("skip") \in {"unset", "yes", "no"}
    BY <1>1, GivenTyped
  <2> HIDE DEF form
  <2>2. CASE Given("skip") = "unset"
    <3>1. SkipMeant = settings.skip
      BY <2>2 DEF SkipMeant
    <3>2. SkipCharts(form) <=> settings.skip
      BY <1>5, <2>2 DEF SkipCharts
    <3>3. SkipCharts(form) \in BOOLEAN
      BY Zenon DEF SkipCharts
    <3> QED
      BY <1>2, <3>1, <3>2, <3>3
  <2>3. CASE Given("skip") # "unset"
    <3>1. SkipMeant = (Given("skip") = "yes")
      BY <1>1, <2>3 DEF SkipMeant
    <3>2. SkipCharts(form) <=> Given("skip") = "yes"
      BY <1>5, <2>3 DEF SkipCharts
    <3>3. SkipCharts(form) \in BOOLEAN
      BY Zenon DEF SkipCharts
    <3> QED
      BY <3>1, <3>2, <3>3
  <2> QED
    BY <2>2, <2>3
<1> HIDE DEF form
<1>8. /\ spec.names = IF form.groups = {} THEN RenderGroupNames(settings.groups)
                      ELSE NormalizeGroupNames(form.groups)
      /\ spec.skip = SkipCharts(form) /\ spec.from = From(form) /\ spec.to = To(form)
    OBVIOUS
<1> HIDE DEF spec
<1>9. /\ spec.names \subseteq GroupNames /\ Unparsed(spec.names) = {}
      /\ ParseRenderGroupList(spec.names) = GroupsMeant
  <2>1. CASE form.groups = {}
    <3>1. request.body.groups = {} /\ request.query.groups \subseteq {Blank, Comma}
      BY <1>5, <2>1 DEF NormalizeGroupNames
    <3> QED
      BY <1>2, <1>4, <1>8, <2>1, <3>1, NamesStandForGroups
  <2>2. CASE form.groups # {}
    <3>1. spec.names = NormalizeGroupNames(form.groups)
      BY <1>8, <2>2
    <3>2. Unparsed(spec.names) = {}
      BY <1>3, <3>1, BlanksDropped
    <3>3. spec.names \subseteq GroupNames
      BY <1>3, <3>1 DEF Unparsed
    <3>4. ParseRenderGroupList(spec.names) = GroupsOfNames(form.groups)
      BY <3>1, <3>2, ParsedAsNamed, BlanksDropped
    <3>5. GroupsMeant = GroupsOfNames(Given("groups"))
      BY <1>4, <1>5, <2>2 DEF NormalizeGroupNames
    <3>6. GroupsOfNames(form.groups) = GroupsOfNames(Given("groups"))
      BY <1>5, BlanksDropped
    <3> QED
      BY <3>2, <3>3, <3>4, <3>5, <3>6
  <2> QED
    BY <2>1, <2>2
<1>10. Meant(spec)
    BY <1>6, <1>7, <1>8, <1>9 DEF Meant
<1> QED
    BY <1>1, <1>10

LEMMA AlertMeant ==
    ASSUME settings \in Settings, request \in Requests, CreateForAlert
    PROVE  \E spec : Meant(spec) /\ Enqueue(spec)
<1> DEFINE to == Now + Delay(request.delay)
           gs == LabelGroups(FirstNonEmpty(request.label, request.common))
           spec == [names |-> RenderGroupNames(gs), skip |-> settings.skip,
                    from |-> to - AlertPeriod, to |-> to]
<1>1. request.source = "alert" /\ Enqueue(spec)
    BY DEF CreateForAlert
<1>2. gs = GroupsMeant /\ gs \subseteq Groups
    BY <1>1, LabelMeant
<1>3. Now \in Int /\ request.delay \in Int /\ settings.alertDelay \in Int
    BY <1>1, RequestTyped, SettingsTyped, RequestAssumption DEF RequestAssumption
<1>4. to \in Int /\ to = EndMeant
    BY <1>1, <1>3 DEF Delay, EndMeant
<1>5. AlertPeriod \in Int /\ AlertPeriod > 0 /\ AlertPeriod = LengthMeant
    BY <1>1, PeriodsPositive
<1>6. SkipMeant = settings.skip /\ settings.skip \in BOOLEAN
    BY <1>1, SettingsTyped DEF SkipMeant
<1> HIDE DEF to, gs
<1>7. StartMeant = to - AlertPeriod
    BY <1>1, <1>4, <1>5 DEF StartMeant
<1>8. /\ spec.names = RenderGroupNames(gs) /\ spec.skip = settings.skip
      /\ spec.from = to - AlertPeriod /\ spec.to = to
    OBVIOUS
<1> HIDE DEF spec
<1>9. spec.from < spec.to
    BY <1>4, <1>5, <1>8
<1>10. Meant(spec)
    BY <1>2, <1>4, <1>6, <1>7, <1>8, <1>9, NamesStandForGroups DEF Meant
<1> QED
    BY <1>1, <1>10

LEMMA AutoMeant ==
    ASSUME settings \in Settings, request \in Requests, CreateAuto
    PROVE  \E spec : Meant(spec) /\ Enqueue(spec)
<1> DEFINE spec == [names |-> RenderGroupNames(settings.groups), skip |-> settings.skip,
                    from |-> Now - AutoWindow, to |-> Now]
<1>1. request.source = "auto" /\ Enqueue(spec)
    BY DEF CreateAuto
<1>2. GroupsMeant = settings.groups /\ settings.groups \subseteq Groups
    BY <1>1, SettingsTyped DEF GroupsMeant
<1>3. /\ Now \in Int /\ AutoWindow \in Int /\ AutoWindow > 0
      /\ AutoWindow = LengthMeant
    BY <1>1, PeriodsPositive, RequestAssumption DEF RequestAssumption
<1>4. SkipMeant = settings.skip /\ settings.skip \in BOOLEAN
    BY <1>1, SettingsTyped DEF SkipMeant
<1>5. EndMeant = Now /\ StartMeant = Now - AutoWindow
    BY <1>1, <1>3 DEF EndMeant, StartMeant
<1>6. /\ spec.names = RenderGroupNames(settings.groups) /\ spec.skip = settings.skip
      /\ spec.from = Now - AutoWindow /\ spec.to = Now
    OBVIOUS
<1> HIDE DEF spec
<1>7. spec.from < spec.to
    BY <1>3, <1>6
<1>8. Meant(spec)
    BY <1>2, <1>4, <1>5, <1>6, <1>7, NamesStandForGroups DEF Meant
<1> QED
    BY <1>1, <1>8

(* After the request there is a job, until the end, with what was meant. *)
LEMMA MeantAccepted ==
    ASSUME AcceptedAsMeant, stage \notin {"request", "refused"},
           UNCHANGED requestVars, stage' # "failed"
    PROVE  AcceptedAsMeant'
<1>1. UNCHANGED <<settings, request, job>>
    BY DEF requestVars
<1>2. /\ GroupsMeant' = GroupsMeant /\ EndMeant' = EndMeant /\ StartMeant' = StartMeant
      /\ StartFits' = StartFits /\ SkipMeant' = SkipMeant
    BY <1>1, MeantStays
<1>3. groups' = groups
    BY <1>1 DEF groups
<1> QED
    BY <1>1, <1>2, <1>3 DEF AcceptedAsMeant

LEMMA EnqueuedAsMeant ==
    ASSUME RequestInv, NEW spec, Meant(spec), Enqueue(spec), UNCHANGED renderWorkers
    PROVE  RequestInv'
<1>1. UNCHANGED <<settings, request>> /\ job' = spec /\ stage' = "queued"
    BY DEF Enqueue
<1>2. /\ GroupsMeant' = GroupsMeant /\ EndMeant' = EndMeant /\ StartMeant' = StartMeant
      /\ StartFits' = StartFits /\ SkipMeant' = SkipMeant
    BY <1>1, MeantStays
<1>3. groups' = ParseRenderGroupList(spec.names)
    BY <1>1 DEF groups
<1>4. AcceptedAsMeant'
    BY <1>1, <1>2, <1>3 DEF AcceptedAsMeant, Meant
<1> QED
    BY <1>1, <1>4 DEF RequestInv, Meant, Rendering

LEMMA PrepareRequestInv ==
    ASSUME RequestInv, Prepare
    PROVE  RequestInv'
<1>0. settings \in Settings /\ request \in Requests /\ UNCHANGED renderWorkers
    BY DEF RequestInv, Prepare
<1>1. CASE CreateManual
    BY <1>0, <1>1, ManualMeant, EnqueuedAsMeant
<1>2. CASE RefuseManual
    BY <1>0, <1>2 DEF RefuseManual, requestVars, RequestInv, Rendering, AcceptedAsMeant
<1>3. CASE CreateForAlert
    BY <1>0, <1>3, AlertMeant, EnqueuedAsMeant
<1>4. CASE CreateAuto
    BY <1>0, <1>4, AutoMeant, EnqueuedAsMeant
<1>5. CASE RunJob
  <2>1. stage = "queued" /\ UNCHANGED requestVars
    BY <1>5 DEF RunJob
  <2>2. job.names \subseteq GroupNames /\ job.from < job.to
    BY <2>1 DEF RequestInv, AcceptedAsMeant
  <2>3. Unparsed(job.names) = {}
    BY <2>2 DEF Unparsed, NormalizeGroupNames
  <2>4. stage' = IF job.skip THEN "done" ELSE "sync"
    BY <1>5, <2>2, <2>3 DEF RunJob
  <2>5. AcceptedAsMeant'
    BY <2>1, <2>4, MeantAccepted DEF RequestInv
  <2> QED
    BY <1>0, <2>1, <2>4, <2>5 DEF RequestInv, Rendering, requestVars
<1> QED
    BY <1>1, <1>2, <1>3, <1>4, <1>5 DEF Prepare, RequestStep

(* Generate keeps the job. *)
LEMMA GenerateRequestInv ==
    ASSUME RequestInv, UNCHANGED accepted, stage \in Rendering \cup {"done"},
           stage' \in Rendering \cup {"done"}, stage' = stage \/ stage # "done"
    PROVE  RequestInv'
<1>1. UNCHANGED <<settings, request, job, renderWorkers, requestVars>>
    BY DEF accepted, requestVars
<1>2. AcceptedAsMeant'
    BY <1>1, MeantAccepted DEF RequestInv, Rendering
<1> QED
    BY <1>1, <1>2 DEF RequestInv, Rendering

-----------------------------------------------------------------------------
(* The dashboards *)

LEMMA ConcatDistinct ==
    ASSUME NEW S, NEW s \in Seq(S), NEW t \in Seq(S), Distinct(s \o t)
    PROVE  Distinct(s) /\ Elements(s) \cap Elements(t) = {}
<1> DEFINE u == s \o t
           n == Len(s)
           m == Len(t)
<1>1. /\ n \in Nat /\ m \in Nat /\ DOMAIN s = 1..n /\ DOMAIN t = 1..m /\ DOMAIN u = 1..(n + m)
      /\ \A i \in 1..n : u[i] = s[i]
      /\ \A i \in 1..m : u[n + i] = t[i]
    OBVIOUS
<1>2. Distinct(u)
    OBVIOUS
<1> HIDE DEF u, n, m
<1>3. \A i \in 1..n : i \in DOMAIN u
    BY <1>1
<1>4. \A i \in 1..m : n + i \in DOMAIN u /\ n + i \notin 1..n
    BY <1>1
<1>5. Distinct(s)
    BY <1>1, <1>2, <1>3 DEF Distinct
<1>6. ASSUME NEW i \in 1..n, NEW j \in 1..m PROVE s[i] # t[j]
    BY <1>1, <1>2, <1>3, <1>4 DEF Distinct
<1> QED
    BY <1>1, <1>5, <1>6 DEF Elements

LEMMA Dashboards ==
    /\ AllPanels \in Seq(Elements(AllPanels)) /\ Distinct(AllPanels)
    /\ SyncPanels \in Seq(Elements(AllPanels))
    /\ NetworkPanels \in Seq(Elements(AllPanels))
    /\ SystemPanels \in Seq(Elements(AllPanels))
    /\ Elements(AllPanels)
         = Elements(SyncPanels) \cup Elements(NetworkPanels) \cup Elements(SystemPanels)
    /\ Elements(SyncPanels) \cap Elements(NetworkPanels) = {}
    /\ Elements(SyncPanels) \cap Elements(SystemPanels) = {}
    /\ Elements(NetworkPanels) \cap Elements(SystemPanels) = {}
<1> DEFINE S == Elements(SyncPanels) \cup Elements(NetworkPanels) \cup Elements(SystemPanels)
           a == SyncPanels
           b == NetworkPanels
           c == SystemPanels
<1>1. a \in Seq(Elements(a)) /\ b \in Seq(Elements(b)) /\ c \in Seq(Elements(c))
    BY PanelAssumption DEF PanelAssumption
<1>2. a \in Seq(S) /\ b \in Seq(S) /\ c \in Seq(S)
  <2>1. ASSUME NEW A, NEW B, A \subseteq B, NEW s \in Seq(A) PROVE s \in Seq(B)
    BY <2>1
  <2>2. Elements(a) \subseteq S /\ Elements(b) \subseteq S /\ Elements(c) \subseteq S
    OBVIOUS
  <2> HIDE DEF S, a, b, c
  <2> QED
    BY <1>1, <2>1, <2>2
<1>3. AllPanels = (a \o b) \o c
    BY DEF AllPanels
<1>4. Distinct(AllPanels)
    BY PanelAssumption DEF PanelAssumption, Distinct
<1>5. S = Elements(a) \cup Elements(b) \cup Elements(c)
    OBVIOUS
<1> HIDE DEF S, a, b, c
<1>6. a \o b \in Seq(S) /\ AllPanels \in Seq(S)
    BY <1>2, <1>3
<1>7. Elements(a \o b) = Elements(a) \cup Elements(b)
    BY <1>2, ElementsConcat
<1>8. Elements(AllPanels) = Elements(a \o b) \cup Elements(c)
  <2> DEFINE u == a \o b
  <2>1. u \in Seq(S)
    BY <1>6
  <2> HIDE DEF u
  <2>2. Elements(u \o c) = Elements(u) \cup Elements(c)
    BY <1>2, <2>1, ElementsConcat
  <2> QED
    BY ONLY <1>3, <2>2 DEF u
<1>9. Distinct(a \o b) /\ Elements(a \o b) \cap Elements(c) = {}
    BY <1>2, <1>3, <1>4, <1>6, ConcatDistinct
<1>10. Elements(a) \cap Elements(b) = {}
    BY <1>2, <1>9, ConcatDistinct
<1>11. Elements(AllPanels) = S
    BY <1>5, <1>7, <1>8
<1> QED
    BY <1>2, <1>4, <1>5, <1>6, <1>7, <1>9, <1>10, <1>11 DEF a, b, c

LEMMA DashboardOfPanels ==
    /\ \A p \in Elements(SyncPanels) : DashboardOf(p) = "sync"
    /\ \A p \in Elements(NetworkPanels) : DashboardOf(p) = "network"
    /\ \A p \in Elements(SystemPanels) : DashboardOf(p) = "system"
<1>1. \A p \in Elements(SyncPanels) :
        p \notin Elements(NetworkPanels) /\ p \notin Elements(SystemPanels)
    BY Dashboards
<1>2. \A p \in Elements(NetworkPanels) :
        p \notin Elements(SyncPanels) /\ p \notin Elements(SystemPanels)
    BY Dashboards
<1>3. \A p \in Elements(SystemPanels) :
        p \notin Elements(SyncPanels) /\ p \notin Elements(NetworkPanels)
    BY Dashboards
<1> QED
    BY <1>1, <1>2, <1>3 DEF DashboardOf

(* What some dashboards show of the panels asked for, dashboard by dashboard. *)
Part(ps, name, dashboards, asked) == IF name \in dashboards THEN Keep(ps, asked) ELSE <<>>

LEMMA KeepPart ==
    ASSUME NEW S, NEW ps \in Seq(S), NEW name, NEW dashboards, NEW asked, NEW X,
           Elements(ps) \cap X = IF name \in dashboards THEN Elements(ps) \cap asked ELSE {}
    PROVE  Keep(ps, X) = Part(ps, name, dashboards, asked)
<1>1. CASE name \in dashboards
  <2>1. Elements(ps) \cap X = Elements(ps) \cap asked
    BY <1>1
  <2> QED
    BY <1>1, <2>1, KeepSame DEF Part
<1>2. CASE name \notin dashboards
  <2>1. Elements(ps) \cap X = {}
    BY <1>2
  <2> QED
    BY <1>2, <2>1, KeepNone DEF Part
<1> QED
    BY <1>1, <1>2

LEMMA KeepShown ==
    ASSUME NEW dashboards, NEW asked
    PROVE  Keep(AllPanels, Shown(dashboards, asked))
             = (Part(SyncPanels, "sync", dashboards, asked)
                \o Part(NetworkPanels, "network", dashboards, asked))
               \o Part(SystemPanels, "system", dashboards, asked)
<1> DEFINE S == Elements(AllPanels)
           X == Shown(dashboards, asked)
<1>1. SyncPanels \in Seq(S) /\ NetworkPanels \in Seq(S) /\ SystemPanels \in Seq(S)
    BY Dashboards
<1>2. Elements(SyncPanels) \cap X = IF "sync" \in dashboards THEN Elements(SyncPanels) \cap asked
                                    ELSE {}
    BY Dashboards, DashboardOfPanels DEF Shown
<1>3. Elements(NetworkPanels) \cap X = IF "network" \in dashboards
                                       THEN Elements(NetworkPanels) \cap asked ELSE {}
    BY Dashboards, DashboardOfPanels DEF Shown
<1>4. Elements(SystemPanels) \cap X = IF "system" \in dashboards
                                      THEN Elements(SystemPanels) \cap asked ELSE {}
    BY Dashboards, DashboardOfPanels DEF Shown
<1> HIDE DEF S, X
<1>5. Keep(SyncPanels, X) = Part(SyncPanels, "sync", dashboards, asked)
    BY <1>1, <1>2, KeepPart
<1>6. Keep(NetworkPanels, X) = Part(NetworkPanels, "network", dashboards, asked)
    BY <1>1, <1>3, KeepPart
<1>7. Keep(SystemPanels, X) = Part(SystemPanels, "system", dashboards, asked)
    BY <1>1, <1>4, KeepPart
<1>8. /\ SyncPanels \o NetworkPanels \in Seq(S)
      /\ AllPanels = (SyncPanels \o NetworkPanels) \o SystemPanels
    BY <1>1 DEF AllPanels
<1>9. Keep(AllPanels, X) = Keep(SyncPanels \o NetworkPanels, X) \o Keep(SystemPanels, X)
    BY <1>1, <1>8, KeepConcat
<1>10. Keep(SyncPanels \o NetworkPanels, X) = Keep(SyncPanels, X) \o Keep(NetworkPanels, X)
    BY <1>1, KeepConcat
<1> QED
    BY <1>5, <1>6, <1>7, <1>9, <1>10 DEF X

LEMMA PartsAreSeqs ==
    ASSUME NEW name, NEW dashboards, NEW asked
    PROVE  /\ Part(SyncPanels, name, dashboards, asked) \in Seq(Elements(AllPanels))
           /\ Part(NetworkPanels, name, dashboards, asked) \in Seq(Elements(AllPanels))
           /\ Part(SystemPanels, name, dashboards, asked) \in Seq(Elements(AllPanels))
BY Dashboards, KeepElements, EmptySeq DEF Part

-----------------------------------------------------------------------------
(* The panels that are selected *)

LEMMA AskedStays ==
    ASSUME UNCHANGED requestVars
    PROVE  Asked' = Asked
<1>1. UNCHANGED <<settings, request, job>>
    BY DEF requestVars
<1>2. GroupsMeant' = GroupsMeant
    BY <1>1, MeantStays
<1> QED
    BY <1>1, <1>2 DEF Asked, Asks

(* The test for a dashboard and its filter keep what the request asks for. *)
LEMMA GroupsRun ==
    ASSUME RequestInv, stage \in Rendering
    PROVE  groups = GroupsMeant /\ groups \subseteq Groups /\ ~job.skip
<1>1. groups = GroupsMeant /\ ~job.skip
    BY DEF RequestInv, AcceptedAsMeant, Rendering
<1>2. Unparsed(job.names) = {}
    BY DEF RequestInv, Unparsed, NormalizeGroupNames
<1> QED
    BY <1>1, <1>2, ParsedAsNamed DEF groups

LEMMA NetworkSelected ==
    ASSUME RequestInv, stage \in Rendering
    PROVE  IF groups \cap {"All", "Network"} # {} THEN NetworkPanels = Keep(NetworkPanels, Asked)
           ELSE Elements(NetworkPanels) \cap Asked = {}
<1>1. \A p \in Elements(NetworkPanels) :
        p \in Asked <=> groups \cap {"All", "Network"} # {}
    BY GroupsRun, Dashboards DEF Asked, Asks
<1>2. CASE groups \cap {"All", "Network"} # {}
    BY <1>1, <1>2, KeepAll, Dashboards
<1> QED
    BY <1>1, <1>2

LEMMA SystemSelected ==
    ASSUME RequestInv, stage \in Rendering
    PROVE  IF groups \cap {"All", "System"} # {} THEN SystemPanels = Keep(SystemPanels, Asked)
           ELSE Elements(SystemPanels) \cap Asked = {}
<1>1. \A p \in Elements(SystemPanels) :
        p \in Asked <=> groups \cap {"All", "System"} # {}
    BY GroupsRun, Dashboards DEF Asked, Asks
<1>2. CASE groups \cap {"All", "System"} # {}
    BY <1>1, <1>2, KeepAll, Dashboards
<1> QED
    BY <1>1, <1>2

LEMMA SyncSelected ==
    ASSUME RequestInv, stage \in Rendering
    PROVE  IF ShouldRenderSyncDashboard
           THEN FilterPanelsByGroups(SyncPanels) = Keep(SyncPanels, Asked)
           ELSE Elements(SyncPanels) \cap Asked = {}
<1>1. \A p \in Elements(SyncPanels) :
        p \in Asked <=> "All" \in groups \/ groups \cap GroupsOf[p] # {} \/ groups = {}
    BY GroupsRun, Dashboards DEF Asked, Asks
<1>2. \A p \in Elements(SyncPanels) : GroupsOf[p] \subseteq SyncGroups
    BY PanelAssumption DEF PanelAssumption
<1>3. groups \subseteq SyncGroups \cup {"All", "Network", "System"}
    BY GroupsRun DEF Groups
<1>4. HasSyncRenderGroup <=> groups \cap (SyncGroups \cup {"All"}) # {}
    BY DEF HasSyncRenderGroup
<1>5. CASE ~ShouldRenderSyncDashboard
  <2>1. groups # {} /\ groups \cap (SyncGroups \cup {"All"}) = {}
    BY <1>4, <1>5 DEF ShouldRenderSyncDashboard
  <2> QED
    BY <1>1, <1>2, <1>5, <2>1
<1>6. CASE ShouldRenderSyncDashboard /\ ("All" \in groups \/ ~HasSyncRenderGroup)
  <2>1. "All" \in groups \/ groups = {}
    BY <1>3, <1>4, <1>6 DEF ShouldRenderSyncDashboard
  <2>2. Elements(SyncPanels) \subseteq Asked
    BY <1>1, <2>1
  <2>3. Keep(SyncPanels, Asked) = SyncPanels
    BY <2>2, KeepAll, Dashboards
  <2> QED
    BY <1>6, <2>3 DEF FilterPanelsByGroups
<1>7. CASE ShouldRenderSyncDashboard /\ ~("All" \in groups \/ ~HasSyncRenderGroup)
  <2> DEFINE matching == {p \in Elements(SyncPanels) : PanelMatchesGroups(p)}
  <2>1. FilterPanelsByGroups(SyncPanels) = Keep(SyncPanels, matching)
    BY <1>7 DEF FilterPanelsByGroups
  <2>2. groups # {} /\ "All" \notin groups
    BY <1>4, <1>7
  <2>3. Elements(SyncPanels) \cap matching = Elements(SyncPanels) \cap Asked
    BY <1>1, <2>2 DEF PanelMatchesGroups
  <2> HIDE DEF matching
  <2>4. Keep(SyncPanels, matching) = Keep(SyncPanels, Asked)
    BY <2>3, KeepSame, Dashboards
  <2> QED
    BY <1>7, <2>1, <2>4
<1> QED
    BY <1>5, <1>6, <1>7

LEMMA PanelsShown ==
    ASSUME SelectionInv
    PROVE  /\ panels \in Seq(Elements(AllPanels)) /\ Distinct(panels)
           /\ Elements(panels) = Wanted
<1>1. panels = Keep(AllPanels, Wanted)
    BY DEF SelectionInv
<1>2. Wanted \subseteq Elements(AllPanels)
    BY DEF Wanted, Shown
<1>3. /\ Keep(AllPanels, Wanted) \in Seq(Elements(AllPanels))
      /\ Elements(Keep(AllPanels, Wanted)) = Elements(AllPanels) \cap Wanted
    BY Dashboards, KeepElements
<1>4. Distinct(Keep(AllPanels, Wanted))
    BY Dashboards, KeepDistinct
<1> QED
    BY <1>1, <1>2, <1>3, <1>4

(* Nothing is selected while there is nothing to show. *)
LEMMA NothingShown ==
    ASSUME NEW dashboards, NEW asked, dashboards = {} \/ asked = {}
    PROVE  Keep(AllPanels, Shown(dashboards, asked)) = <<>>
<1>1. Shown(dashboards, asked) = {}
    BY DEF Shown
<1>2. Elements(AllPanels) \cap Shown(dashboards, asked) = {}
    BY <1>1
<1> QED
    BY <1>2, KeepNone, Dashboards

LEMMA InitSelectionInv ==
    ASSUME Init
    PROVE  SelectionInv
<1>1. panels = <<>> /\ missing = {} /\ Passed = {}
    BY DEF Init, RequestInit, Passed
<1>2. Keep(AllPanels, Wanted) = <<>>
    BY <1>1, NothingShown DEF Wanted
<1> QED
    BY <1>1, <1>2 DEF SelectionInv

LEMMA PrepareSelectionInv ==
    ASSUME RequestInv, RequestInv', SelectionInv, Prepare
    PROVE  SelectionInv'
<1>1. /\ stage \in {"request", "queued"} /\ UNCHANGED <<missing, panels>>
      /\ stage' \in {"queued", "refused", "sync"} \/ (stage' = "done" /\ job'.skip)
  <2>1. UNCHANGED <<missing, panels>> /\ RequestStep /\ stage' # "failed"
    BY DEF Prepare, RequestInv, Rendering
  <2>2. CASE RunJob
    BY <2>1, <2>2 DEF RunJob, requestVars
  <2>3. CASE CreateManual
    BY <2>1, <2>3 DEF CreateManual, Enqueue
  <2>4. CASE RefuseManual \/ CreateForAlert \/ CreateAuto
    BY <2>1, <2>4 DEF RefuseManual, CreateForAlert, CreateAuto, Enqueue
  <2> QED
    BY <2>1, <2>2, <2>3, <2>4 DEF RequestStep
<1>2. Passed = {}
    BY <1>1 DEF Passed
<1>3. panels = <<>> /\ missing = {}
    BY <1>2, NothingShown DEF SelectionInv, Wanted
<1>4. Passed' = {} \/ Asked' = {}
    BY <1>1 DEF Passed, Asked, Asks
<1>5. Keep(AllPanels, Shown((Passed \ missing)', Asked')) = <<>>
  <2>1. (Passed \ missing)' = {} \/ Asked' = {}
    BY <1>4
  <2> QED
    BY <2>1, NothingShown
<1> QED
    BY <1>1, <1>3, <1>5 DEF SelectionInv, Wanted

LEMMA SelectionStays ==
    ASSUME SelectionInv, UNCHANGED <<requestVars, missing, panels>>, Passed' = Passed
    PROVE  SelectionInv'
<1>1. Asked' = Asked
    BY AskedStays
<1>2. Wanted' = Wanted
    BY <1>1 DEF Wanted
<1> QED
    BY <1>2 DEF SelectionInv

(* What a dashboard adds: the panels asked for, unless it is missing. *)
LEMMA LoadAdds ==
    ASSUME NEW dashboard, NEW wanted, NEW ps \in Seq(Elements(AllPanels)), NEW selected, NEW next,
           Load(dashboard, wanted, selected, next), missing \subseteq Passed,
           dashboard \notin Passed, Passed' = Passed \cup {dashboard},
           IF wanted THEN selected = Keep(ps, Asked) ELSE Elements(ps) \cap Asked = {}
    PROVE  /\ UNCHANGED requestVars /\ missing' \subseteq Passed'
           /\ (Passed \ missing)' \ {dashboard} = Passed \ missing
           /\ panels' = panels \o Part(ps, dashboard, (Passed \ missing)', Asked)
              \/ (panels' = panels /\ Part(ps, dashboard, (Passed \ missing)', Asked) = <<>>)
<1>1. UNCHANGED requestVars
    BY DEF Load, accepted
<1>2. CASE ~wanted
  <2>1. UNCHANGED <<panels, missing>>
    BY <1>2 DEF Load
  <2>2. Keep(ps, Asked) = <<>>
    BY <1>2, KeepNone
  <2> QED
    BY <1>1, <2>1, <2>2 DEF Part
<1>3. CASE wanted /\ panels' = panels \o selected /\ UNCHANGED missing
  <2>1. dashboard \in (Passed \ missing)'
    BY <1>3
  <2>2. Part(ps, dashboard, (Passed \ missing)', Asked) = selected
    BY <1>3, <2>1 DEF Part
  <2>3. panels' = panels \o Part(ps, dashboard, (Passed \ missing)', Asked)
    BY <1>3, <2>2
  <2>4. missing' \subseteq Passed' /\ (Passed \ missing)' \ {dashboard} = Passed \ missing
    BY <1>3
  <2> QED
    BY <1>1, <2>3, <2>4
<1>4. CASE wanted /\ missing' = missing \cup {dashboard} /\ UNCHANGED panels
  <2>1. dashboard \notin (Passed \ missing)'
    BY <1>4
  <2>2. Part(ps, dashboard, (Passed \ missing)', Asked) = <<>>
    BY <2>1 DEF Part
  <2> QED
    BY <1>1, <1>4, <2>2
<1> QED
    BY <1>2, <1>3, <1>4 DEF Load

LEMMA PartMissing ==
    ASSUME NEW ps, NEW name, NEW dashboards, NEW asked, name \notin dashboards
    PROVE  Part(ps, name, dashboards, asked) = <<>>
BY DEF Part

LEMMA PartStays ==
    ASSUME NEW ps, NEW name, NEW A, NEW B, NEW asked, name \in A <=> name \in B
    PROVE  Part(ps, name, A, asked) = Part(ps, name, B, asked)
BY DEF Part

LEMMA SyncSelectionInv ==
    ASSUME RequestInv, SelectionInv, LoadSync
    PROVE  SelectionInv'
<1> DEFINE now  == Passed \ missing
           then == (Passed \ missing)'
<1>1. stage = "sync" /\ stage' = "network"
    BY DEF LoadSync, Load
<1>2. Passed = {} /\ Passed' = {"sync"}
    BY <1>1 DEF Passed
<1>3. IF ShouldRenderSyncDashboard THEN FilterPanelsByGroups(SyncPanels) = Keep(SyncPanels, Asked)
      ELSE Elements(SyncPanels) \cap Asked = {}
    BY <1>1, SyncSelected DEF Rendering
<1>4. /\ UNCHANGED requestVars /\ missing' \subseteq Passed' /\ then \ {"sync"} = now
      /\ panels' = panels \o Part(SyncPanels, "sync", then, Asked)
         \/ (panels' = panels /\ Part(SyncPanels, "sync", then, Asked) = <<>>)
  <2>1. SyncPanels \in Seq(Elements(AllPanels)) /\ missing \subseteq Passed
    BY Dashboards DEF SelectionInv
  <2>2. "sync" \notin Passed /\ Passed' = Passed \cup {"sync"}
    BY <1>2
  <2> QED
    BY <1>3, <2>1, <2>2, LoadAdds DEF LoadSync
<1>5. Asked' = Asked
    BY <1>4, AskedStays
<1>6. now = {} /\ "network" \notin then /\ "system" \notin then
    BY <1>2
<1>7. panels = <<>>
    BY <1>6, NothingShown DEF SelectionInv, Wanted
<1> HIDE DEF now, then
<1>8. Part(SyncPanels, "sync", then, Asked) \in Seq(Elements(AllPanels))
    BY PartsAreSeqs
<1>9. panels' = Part(SyncPanels, "sync", then, Asked)
    BY <1>4, <1>7, <1>8, ConcatEmptySeq
<1>10. Keep(AllPanels, Shown(then, Asked)) = Part(SyncPanels, "sync", then, Asked)
  <2>1. /\ Part(NetworkPanels, "network", then, Asked) = <<>>
        /\ Part(SystemPanels, "system", then, Asked) = <<>>
    BY <1>6, PartMissing
  <2> QED
    BY <1>8, <2>1, KeepShown, ConcatEmptySeq
<1>11. Wanted' = Shown(then, Asked)
    BY <1>5 DEF Wanted, then
<1> QED
    BY <1>4, <1>9, <1>10, <1>11 DEF SelectionInv

LEMMA NetworkSelectionInv ==
    ASSUME RequestInv, SelectionInv, LoadNetwork
    PROVE  SelectionInv'
<1> DEFINE now  == Passed \ missing
           then == (Passed \ missing)'
           a == Part(SyncPanels, "sync", now, Asked)
           b == Part(NetworkPanels, "network", then, Asked)
<1>1. stage = "network" /\ stage' = "system"
    BY DEF LoadNetwork, Load
<1>2. Passed = {"sync"} /\ Passed' = {"sync", "network"}
    BY <1>1 DEF Passed
<1>3. IF groups \cap {"All", "Network"} # {} THEN NetworkPanels = Keep(NetworkPanels, Asked)
      ELSE Elements(NetworkPanels) \cap Asked = {}
    BY <1>1, NetworkSelected DEF Rendering
<1>4. /\ UNCHANGED requestVars /\ missing' \subseteq Passed' /\ then \ {"network"} = now
      /\ panels' = panels \o b \/ (panels' = panels /\ b = <<>>)
  <2>1. NetworkPanels \in Seq(Elements(AllPanels)) /\ missing \subseteq Passed
    BY Dashboards DEF SelectionInv
  <2>2. "network" \notin Passed /\ Passed' = Passed \cup {"network"}
    BY <1>2
  <2> QED
    BY <1>3, <2>1, <2>2, LoadAdds DEF LoadNetwork
<1>5. Asked' = Asked
    BY <1>4, AskedStays
<1>6. /\ "network" \notin now /\ "system" \notin now /\ "system" \notin then
      /\ "sync" \in now <=> "sync" \in then
    BY <1>2, <1>4
<1>7. Wanted = Shown(now, Asked) /\ Wanted' = Shown(then, Asked)
    BY <1>5 DEF Wanted
<1>8. panels = Keep(AllPanels, Shown(now, Asked))
    BY <1>7 DEF SelectionInv
<1>9. a = Part(SyncPanels, "sync", then, Asked)
    BY <1>6, PartStays
<1> HIDE DEF now, then
<1>10. a \in Seq(Elements(AllPanels)) /\ b \in Seq(Elements(AllPanels))
    BY PartsAreSeqs
<1>11. panels = a
  <2>1. /\ Part(NetworkPanels, "network", now, Asked) = <<>>
        /\ Part(SystemPanels, "system", now, Asked) = <<>>
    BY <1>6, PartMissing
  <2>2. Keep(AllPanels, Shown(now, Asked)) = (a \o <<>>) \o <<>>
    BY <2>1, KeepShown
  <2> HIDE DEF a
  <2> QED
    BY <1>8, <1>10, <2>2, ConcatEmptySeq
<1>12. Keep(AllPanels, Shown(then, Asked)) = a \o b
  <2>1. Part(SystemPanels, "system", then, Asked) = <<>>
    BY <1>6, PartMissing
  <2>2. Keep(AllPanels, Shown(then, Asked)) = (a \o b) \o <<>>
    BY <1>9, <2>1, KeepShown
  <2> HIDE DEF a, b
  <2>3. a \o b \in Seq(Elements(AllPanels))
    BY <1>10
  <2> QED
    BY <2>2, <2>3, ConcatEmptySeq
<1> HIDE DEF a, b
<1>13. panels' = a \o b
    BY <1>4, <1>10, <1>11, ConcatEmptySeq
<1> QED
    BY <1>4, <1>7, <1>12, <1>13 DEF SelectionInv

LEMMA SystemSelectionInv ==
    ASSUME RequestInv, SelectionInv, LoadSystem
    PROVE  SelectionInv'
<1> DEFINE now  == Passed \ missing
           then == (Passed \ missing)'
           a == Part(SyncPanels, "sync", now, Asked)
           b == Part(NetworkPanels, "network", now, Asked)
           c == Part(SystemPanels, "system", then, Asked)
<1>1. stage = "system" /\ stage' = "render"
    BY DEF LoadSystem, Load
<1>2. Passed = {"sync", "network"} /\ Passed' = {"sync", "network", "system"}
    BY <1>1 DEF Passed
<1>3. IF groups \cap {"All", "System"} # {} THEN SystemPanels = Keep(SystemPanels, Asked)
      ELSE Elements(SystemPanels) \cap Asked = {}
    BY <1>1, SystemSelected DEF Rendering
<1>4. /\ UNCHANGED requestVars /\ missing' \subseteq Passed' /\ then \ {"system"} = now
      /\ panels' = panels \o c \/ (panels' = panels /\ c = <<>>)
  <2>1. SystemPanels \in Seq(Elements(AllPanels)) /\ missing \subseteq Passed
    BY Dashboards DEF SelectionInv
  <2>2. "system" \notin Passed /\ Passed' = Passed \cup {"system"}
    BY <1>2
  <2> QED
    BY <1>3, <2>1, <2>2, LoadAdds DEF LoadSystem
<1>5. Asked' = Asked
    BY <1>4, AskedStays
<1>6. /\ "system" \notin now
      /\ "sync" \in now <=> "sync" \in then
      /\ "network" \in now <=> "network" \in then
    BY <1>2, <1>4
<1>7. Wanted = Shown(now, Asked) /\ Wanted' = Shown(then, Asked)
    BY <1>5 DEF Wanted
<1>8. panels = Keep(AllPanels, Shown(now, Asked))
    BY <1>7 DEF SelectionInv
<1>9. /\ a = Part(SyncPanels, "sync", then, Asked)
      /\ b = Part(NetworkPanels, "network", then, Asked)
    BY <1>6, PartStays
<1> HIDE DEF now, then
<1>10. /\ a \in Seq(Elements(AllPanels)) /\ b \in Seq(Elements(AllPanels))
       /\ c \in Seq(Elements(AllPanels))
    BY PartsAreSeqs
<1>11. panels = a \o b
  <2>1. Part(SystemPanels, "system", now, Asked) = <<>>
    BY <1>6, PartMissing
  <2>2. Keep(AllPanels, Shown(now, Asked)) = (a \o b) \o <<>>
    BY <2>1, KeepShown
  <2> HIDE DEF a, b
  <2>3. a \o b \in Seq(Elements(AllPanels))
    BY <1>10
  <2> QED
    BY <1>8, <2>2, <2>3, ConcatEmptySeq
<1>12. Keep(AllPanels, Shown(then, Asked)) = (a \o b) \o c
    BY <1>9, KeepShown
<1> HIDE DEF a, b, c
<1>13. a \o b \in Seq(Elements(AllPanels))
    BY <1>10
<1>14. panels' = (a \o b) \o c
    BY <1>4, <1>11, <1>13, ConcatEmptySeq
<1> QED
    BY <1>4, <1>7, <1>12, <1>14 DEF SelectionInv

-----------------------------------------------------------------------------
(* The pool *)

(* The pool works for a sequence of different panels, and only while it collects. *)
Selected == panels \in Seq(Elements(AllPanels)) /\ Distinct(panels)

LEMMA PanelsSelected ==
    ASSUME SelectionInv
    PROVE  Selected
BY PanelsShown DEF Selected

LEMMA TellsStays ==
    ASSUME panels' = panels, sent \in Int, sent' \in Int, sent <= sent', tried \subseteq tried'
    PROVE  \A r : Tells(r) => Tells(r)'
<1> SUFFICES ASSUME NEW r, Tells(r) PROVE Tells(r)'
    OBVIOUS
<1>1. r.index \in 1..sent' /\ <<panels[r.index], r.ok>> \in tried'
    BY DEF Tells
<1> QED
    BY <1>1 DEF Tells

LEMMA WorkerChanged ==
    ASSUME worker \in [DOMAIN worker -> Working], NEW w \in DOMAIN worker, NEW x,
           worker' = [worker EXCEPT ![w] = x]
    PROVE  /\ DOMAIN worker' = DOMAIN worker /\ worker'[w] = x
           /\ \A v \in DOMAIN worker : v # w => worker'[v] = worker[v]
OBVIOUS

LEMMA WorkerTyped ==
    ASSUME worker \in [DOMAIN worker -> Working], NEW w \in DOMAIN worker, NEW x,
           worker' = [worker EXCEPT ![w] = x], panels' = panels, x \in Working
    PROVE  worker' \in [DOMAIN worker' -> Working']
<1>1. Working' = Working
    BY DEF Working, Result
<1> QED
    BY <1>1

LEMMA Shape ==
    ASSUME RunInv
    PROVE  /\ sent \in Nat /\ sent <= Len(panels)
           /\ worker \in [DOMAIN worker -> Working]
           /\ \A w \in DOMAIN worker :
                /\ worker[w] \in Working /\ Held(w) \in 0..Len(panels)
                /\ worker[w].result.ok \in BOOLEAN
                /\ worker[w].result = [index |-> Held(w), ok |-> worker[w].result.ok]
<1>1. PoolShape
    BY DEF RunInv
<1>2. sent \in 0..Len(panels) /\ worker \in [DOMAIN worker -> Working]
    BY <1>1 DEF PoolShape
<1>3. ASSUME NEW w \in DOMAIN worker
      PROVE  /\ worker[w] \in Working /\ Held(w) \in 0..Len(panels)
             /\ worker[w].result.ok \in BOOLEAN
             /\ worker[w].result = [index |-> Held(w), ok |-> worker[w].result.ok]
  <2>1. worker[w] \in Working
    BY <1>2
  <2>2. worker[w].result \in Result
    BY <2>1 DEF Working
  <2> QED
    BY <2>1, <2>2 DEF Result, Held
<1> QED
    BY <1>2, <1>3

LEMMA UnsetWithIndex ==
    ASSUME NEW n \in Int
    PROVE  [Unset EXCEPT !.index = n] = [index |-> n, ok |-> FALSE]
<1>1. /\ Unset = [index |-> 0, ok |-> FALSE]
      /\ [index |-> 0, ok |-> FALSE] \in [index : Int, ok : BOOLEAN]
      /\ [index |-> 0, ok |-> FALSE].ok = FALSE
    BY DEF Unset
<1>2. PICK u \in [index : Int, ok : BOOLEAN] : u = Unset /\ u.ok = FALSE
    BY <1>1
<1>3. [u EXCEPT !.index = n] = [index |-> n, ok |-> u.ok]
    OBVIOUS
<1> QED
    BY <1>2, <1>3

(* What a worker's step changes of its record. *)
LEMMA WorkerSet ==
    ASSUME NEW y \in Working, NEW ok \in BOOLEAN
    PROVE  /\ [y EXCEPT !.at = "done"] = [at |-> "done", result |-> y.result]
           /\ [y EXCEPT !.at = "deliver", !.result.ok = ok]
                = [at |-> "deliver", result |-> [index |-> y.result.index, ok |-> ok]]
<1>1. [y EXCEPT !.at = "done"] = [at |-> "done", result |-> y.result]
    BY DEF Working
<1>2. y.result \in Result
    BY DEF Working
<1>3. [y.result EXCEPT !.ok = ok] = [index |-> y.result.index, ok |-> ok]
    BY <1>2 DEF Result
<1>4. [y EXCEPT !.at = "deliver"] = [at |-> "deliver", result |-> y.result]
    BY DEF Working
<1>5. PICK z : z = [at |-> "deliver", result |-> y.result]
    OBVIOUS
<1>6. z \in Working /\ z.at = "deliver" /\ z.result = y.result
    BY <1>2, <1>5 DEF Working
<1>7. [y EXCEPT !.at = "deliver", !.result.ok = ok]
        = [z EXCEPT !.result = [z.result EXCEPT !.ok = ok]]
    BY <1>4, <1>5
<1>8. \A r : [z EXCEPT !.result = r] = [at |-> z.at, result |-> r]
    BY <1>6 DEF Working
<1> QED
    BY <1>1, <1>3, <1>6, <1>7, <1>8

(* The workers that render go on with what they render. *)
LEMMA TriedOnceStays ==
    ASSUME RunInv, UNCHANGED <<panels, sent, tried>>,
           \A v \in DOMAIN worker' :
               worker'[v].at = "render" => v \in DOMAIN worker /\ worker'[v] = worker[v]
    PROVE  TriedOnce'
<1>1. ASSUME NEW v \in DOMAIN worker', worker'[v].at = "render"
      PROVE  /\ v \in DOMAIN worker /\ worker[v].at = "render" /\ Held(v)' = Held(v)
             /\ Held(v)' \in 1..sent' /\ Outcomes(panels[Held(v)])' = {}
  <2>1. v \in DOMAIN worker /\ worker'[v] = worker[v]
    BY <1>1
  <2>2. Held(v)' = Held(v)
    BY <2>1 DEF Held
  <2>3. Held(v) \in 1..sent /\ Outcomes(panels[Held(v)]) = {}
    BY <1>1, <2>1 DEF RunInv, TriedOnce
  <2>4. Outcomes(panels[Held(v)])' = Outcomes(panels[Held(v)])
    BY <2>2 DEF Outcomes
  <2> QED
    BY <1>1, <2>1, <2>2, <2>3, <2>4
<1> QED
    BY <1>1 DEF RunInv, TriedOnce

LEMMA HandOverInv ==
    ASSUME Selected, RunInv, NEW w \in DOMAIN worker, HandOver(w)
    PROVE  RunInv'
<1> DEFINE x == [at |-> "render", result |-> [index |-> sent + 1, ok |-> FALSE]]
<1>0. Len(panels) \in Nat /\ DOMAIN panels = 1..Len(panels)
    BY DEF Selected
<1>1. /\ sent < Len(panels) /\ worker[w].at = "idle" /\ sent' = sent + 1
      /\ worker' = [worker EXCEPT ![w] = x]
      /\ UNCHANGED <<panels, jobsClosed, results, resultsClosed, ordered, tried>>
  <2>1. \A n \in Int : [Unset EXCEPT !.index = n] = [index |-> n, ok |-> FALSE]
    BY UnsetWithIndex
  <2>2. sent' \in Int /\ sent' = sent + 1
    BY Shape DEF HandOver
  <2> QED
    BY <2>1, <2>2 DEF HandOver
<1>2. sent \in Nat /\ sent + 1 \in 1..Len(panels) /\ worker \in [DOMAIN worker -> Working]
    BY <1>0, <1>1, Shape
<1>3. x \in Working
    BY <1>2, <1>0 DEF Working, Result
<1>4. x.at = "render" /\ x.result.index = sent + 1
    OBVIOUS
<1> HIDE DEF x
<1>5. /\ DOMAIN worker' = DOMAIN worker /\ worker'[w] = x
      /\ \A v \in DOMAIN worker : v # w => worker'[v] = worker[v]
    BY <1>1, <1>2, WorkerChanged
<1>6. 1..sent \subseteq 1..sent' /\ sent' \in 0..Len(panels) /\ sent + 1 \notin 1..sent
      /\ sent + 1 \in 1..sent' /\ \A i \in 1..sent' : i \in 1..sent \/ i = sent + 1
    BY <1>0, <1>1, <1>2
<1>7. PoolShape'
  <2>1. worker' \in [DOMAIN worker' -> Working']
    BY <1>1, <1>2, <1>3, WorkerTyped
  <2>2. Result' = Result
    BY <1>1 DEF Result
  <2>3. tried' \subseteq {panels[i] : i \in 1..sent'} \X BOOLEAN
    BY <1>1, <1>6 DEF RunInv, PoolShape
  <2> QED
    BY <1>1, <1>6, <2>1, <2>2, <2>3 DEF RunInv, PoolShape
<1>8. ~jobsClosed
    BY <1>0, <1>1, <1>2 DEF RunInv, PoolClosed
<1>9. PoolClosed'
    BY <1>1, <1>4, <1>5, <1>8 DEF RunInv, PoolClosed
<1>10. Outcomes(panels[sent + 1]) = {}
  <2>1. \A i \in 1..sent : panels[i] # panels[sent + 1]
    BY <1>0, <1>2, <1>6 DEF Selected, Distinct
  <2> QED
    BY <2>1 DEF RunInv, PoolShape, Outcomes
<1>11. TriedOnce'
  <2>1. ASSUME NEW v \in DOMAIN worker', worker'[v].at = "render"
        PROVE  worker'[v].result.index \in 1..sent'
               /\ {ok \in BOOLEAN : <<panels[worker'[v].result.index], ok>> \in tried} = {}
    <3>1. CASE v = w
      BY <1>4, <1>5, <1>6, <1>10, <3>1 DEF Outcomes
    <3>2. CASE v # w
      BY <1>5, <1>6, <2>1, <3>2 DEF RunInv, TriedOnce, Held, Outcomes
    <3> QED
      BY <3>1, <3>2
  <2>2. \A v \in DOMAIN worker :
          v # w /\ worker'[v].at = "render" => worker'[v].result.index # sent + 1
    BY <1>5, <1>6 DEF RunInv, TriedOnce, Held
  <2>3. \A u, v \in DOMAIN worker' :
          /\ worker'[u].at = "render" /\ worker'[v].at = "render"
          /\ worker'[u].result.index = worker'[v].result.index
          => u = v
    BY <1>4, <1>5, <2>2 DEF RunInv, TriedOnce, Held
  <2> QED
    BY <1>1, <2>1, <2>3 DEF RunInv, TriedOnce, Held, Outcomes
<1>12. ResultsTell'
  <2>1. \A r : Tells(r) => Tells(r)'
    BY <1>1, <1>2, TellsStays
  <2>2. \A v \in DOMAIN worker' : worker'[v].at = "deliver" => v # w
    BY <1>4, <1>5
  <2> QED
    BY <1>1, <1>5, <2>1, <2>2 DEF RunInv, ResultsTell
<1>13. NothingLost'
  <2> SUFFICES ASSUME NEW i \in 1..sent'
               PROVE  \/ \E v \in DOMAIN worker' : Busy(v)' /\ Held(v)' = i
                      \/ \E n \in DOMAIN results' : results'[n].index = i
                      \/ ordered'[i].index = i
    BY DEF NothingLost
  <2>1. CASE i = sent + 1
    BY <1>4, <1>5, <2>1 DEF Busy, Held
  <2>2. CASE i \in 1..sent
    <3>1. ASSUME NEW v \in DOMAIN worker, Busy(v), Held(v) = i
          PROVE  v \in DOMAIN worker' /\ Busy(v)' /\ Held(v)' = i
      BY <1>1, <1>5, <3>1 DEF Busy, Held
    <3> QED
      BY <1>1, <2>2, <3>1 DEF RunInv, NothingLost
  <2> QED
    BY <1>6, <2>1, <2>2
<1> QED
    BY <1>7, <1>9, <1>11, <1>12, <1>13 DEF RunInv

LEMMA RenderInv ==
    ASSUME Selected, RunInv, NEW w \in DOMAIN worker, Render(w)
    PROVE  RunInv'
<1> PICK i : i = Held(w)
    OBVIOUS
<1>0. Len(panels) \in Nat /\ DOMAIN panels = 1..Len(panels)
    BY DEF Selected
<1>1. PICK ok \in BOOLEAN :
        /\ worker' = [worker EXCEPT ![w].at = "deliver", ![w].result.ok = ok]
        /\ tried' = tried \cup {<<panels[worker[w].result.index], ok>>}
    BY DEF Render
<1> PICK x : x = [at |-> "deliver", result |-> [index |-> i, ok |-> ok]]
    OBVIOUS
<1>2. /\ worker[w].at = "render"
      /\ UNCHANGED <<panels, sent, jobsClosed, results, resultsClosed, ordered>>
    BY DEF Render
<1>3. /\ sent \in Nat /\ sent <= Len(panels) /\ worker \in [DOMAIN worker -> Working]
      /\ worker[w] \in Working /\ worker[w].result = [index |-> i, ok |-> worker[w].result.ok]
    BY Shape
<1>4. worker' = [worker EXCEPT ![w] = x]
  <2>1. [worker[w] EXCEPT !.at = "deliver", !.result.ok = ok] = x
    BY <1>3, WorkerSet DEF Held
  <2>2. worker' = [worker EXCEPT ![w] = [worker[w] EXCEPT !.at = "deliver", !.result.ok = ok]]
    BY <1>1, <1>3
  <2> QED
    BY <2>1, <2>2
<1>5. /\ i \in 1..sent /\ Outcomes(panels[i]) = {}
      /\ \A v \in DOMAIN worker : worker[v].at = "render" /\ Held(v) = i => v = w
    BY <1>2 DEF RunInv, TriedOnce
<1>6. tried' = tried \cup {<<panels[i], ok>>}
    BY <1>1 DEF Held
<1>7. i \in 1..Len(panels) /\ i \in 0..Len(panels)
    BY <1>0, <1>3, <1>5
<1>8. x \in Working /\ x.at = "deliver" /\ x.result.index = i /\ x.result.ok = ok
    BY <1>7 DEF Working, Result
<1>9. /\ DOMAIN worker' = DOMAIN worker /\ worker'[w] = x
      /\ \A v \in DOMAIN worker : v # w => worker'[v] = worker[v]
    BY <1>3, <1>4, WorkerChanged
<1>10. PoolShape'
  <2>1. worker' \in [DOMAIN worker' -> Working']
    BY <1>2, <1>3, <1>4, <1>8, WorkerTyped
  <2>2. Result' = Result
    BY <1>2 DEF Result
  <2>3. tried' \subseteq {panels[j] : j \in 1..sent'} \X BOOLEAN
    BY <1>2, <1>5, <1>6 DEF RunInv, PoolShape
  <2> QED
    BY <1>2, <2>1, <2>2, <2>3 DEF RunInv, PoolShape
<1>11. PoolClosed'
    BY <1>2, <1>8, <1>9 DEF RunInv, PoolClosed, AllDone
<1>12. TriedOnce'
  <2>1. \A p : p # panels[i] => Outcomes(p)' = Outcomes(p)
    BY <1>6 DEF Outcomes
  <2>2. <<panels[i], TRUE>> \notin tried /\ <<panels[i], FALSE>> \notin tried
    BY <1>5 DEF Outcomes
  <2>3. \A p \in Elements(panels) : ~(<<p, TRUE>> \in tried' /\ <<p, FALSE>> \in tried')
    <3> TAKE p \in Elements(panels)
    <3>1. CASE p = panels[i]
      BY <1>6, <2>2, <3>1
    <3>2. CASE p # panels[i]
      BY <1>6, <3>2 DEF RunInv, TriedOnce
    <3> QED
      BY <3>1, <3>2
  <2>4. ASSUME NEW v \in DOMAIN worker', worker'[v].at = "render"
        PROVE  Held(v)' \in 1..sent' /\ Outcomes(panels[Held(v)])' = {} /\ Held(v)' = Held(v)
               /\ worker[v].at = "render"
    <3>1. v # w /\ worker'[v] = worker[v]
      BY <1>8, <1>9, <2>4
    <3>2. Held(v) \in 1..sent /\ Outcomes(panels[Held(v)]) = {} /\ Held(v) # i
      BY <1>5, <1>9, <2>4, <3>1 DEF RunInv, TriedOnce
    <3>3. panels[Held(v)] # panels[i]
      BY <1>0, <1>3, <1>5, <3>2 DEF Selected, Distinct
    <3>4. Held(v)' = Held(v)
      BY <3>1 DEF Held
    <3>5. Outcomes(panels[Held(v)])' = {}
      BY <1>2, <2>1, <3>2, <3>3, <3>4
    <3> QED
      BY <1>2, <2>4, <3>1, <3>2, <3>4, <3>5
  <2>5. \A u, v \in DOMAIN worker' :
          worker'[u].at = "render" /\ worker'[v].at = "render" /\ Held(u)' = Held(v)' => u = v
    BY <1>9, <2>4 DEF RunInv, TriedOnce
  <2> QED
    BY <1>2, <2>3, <2>4, <2>5 DEF TriedOnce
<1>13. ResultsTell'
  <2>1. \A r : Tells(r) => Tells(r)'
    BY <1>2, <1>3, <1>6, TellsStays
  <2>2. Tells(x.result)'
    BY <1>2, <1>5, <1>6, <1>8 DEF Tells
  <2> QED
    BY <1>2, <1>9, <2>1, <2>2 DEF RunInv, ResultsTell
<1>14. NothingLost'
  <2>1. ASSUME NEW v \in DOMAIN worker, Busy(v)
        PROVE  v \in DOMAIN worker' /\ Busy(v)' /\ Held(v)' = Held(v)
    BY <1>8, <1>9, <2>1 DEF Busy, Held
  <2> QED
    BY <1>2, <2>1 DEF RunInv, NothingLost
<1> QED
    BY <1>10, <1>11, <1>12, <1>13, <1>14 DEF RunInv

LEMMA DeliverInv ==
    ASSUME Selected, RunInv, NEW w \in DOMAIN worker, Deliver(w)
    PROVE  RunInv'
<1> DEFINE r == worker[w].result
           n == Len(results)
<1>0. Len(panels) \in Nat
    BY DEF Selected
<1>1. /\ worker[w].at = "deliver" /\ Len(results) < Len(panels)
      /\ results' = Append(results, r) /\ worker' = [worker EXCEPT ![w] = Idle]
      /\ UNCHANGED <<panels, sent, jobsClosed, resultsClosed, ordered, tried>>
    BY DEF Deliver, NextJob
<1>2. /\ sent \in Nat /\ worker \in [DOMAIN worker -> Working] /\ worker[w] \in Working
    BY Shape
<1>3. Idle \in Working /\ Idle.at = "idle"
    BY <1>0 DEF Idle, Unset, Working, Result
<1>4. /\ DOMAIN worker' = DOMAIN worker /\ worker'[w] = Idle
      /\ \A v \in DOMAIN worker : v # w => worker'[v] = worker[v]
    BY <1>1, <1>2, WorkerChanged
<1>5. results \in Seq(Result) /\ r \in Result /\ n \in Nat
    BY <1>2 DEF RunInv, PoolShape, Working
<1>6. /\ results' \in Seq(Result) /\ Len(results') = n + 1 /\ DOMAIN results = 1..n
      /\ DOMAIN results' = 1..(n + 1) /\ results'[n + 1] = r
      /\ \A j \in 1..n : results'[j] = results[j]
    BY <1>1, <1>5
<1>7. Tells(r)
    BY <1>1 DEF RunInv, ResultsTell
<1>8. n < Len(panels)
    BY <1>1
<1>9. \A j \in 1..(n + 1) : j \in 1..n \/ j = n + 1
    BY <1>5
<1>10. n + 1 \in 1..(n + 1) /\ 1..n \subseteq 1..(n + 1)
    BY <1>5
<1> HIDE DEF n, r
<1>11. PoolShape'
  <2>1. worker' \in [DOMAIN worker' -> Working']
    BY <1>1, <1>2, <1>3, WorkerTyped
  <2>2. Result' = Result
    BY <1>1 DEF Result
  <2>3. Len(results') <= Len(panels)
    BY <1>0, <1>5, <1>6, <1>8
  <2> QED
    BY <1>1, <1>6, <2>1, <2>2, <2>3 DEF RunInv, PoolShape
<1>12. PoolClosed'
    BY <1>1, <1>3, <1>4 DEF RunInv, PoolClosed, AllDone
<1>13. TriedOnce'
    BY <1>1, <1>3, <1>4, TriedOnceStays
<1>14. ResultsTell'
  <2>1. \A q : Tells(q) => Tells(q)'
    BY <1>1, <1>2, TellsStays
  <2>2. \A v \in DOMAIN worker' : worker'[v].at = "deliver" => Tells(worker'[v].result)
    BY <1>3, <1>4 DEF RunInv, ResultsTell
  <2>3. \A j \in DOMAIN results' : Tells(results'[j])
    BY <1>6, <1>7, <1>9 DEF RunInv, ResultsTell
  <2> QED
    BY <1>1, <2>1, <2>2, <2>3 DEF RunInv, ResultsTell
<1>15. NothingLost'
  <2> SUFFICES ASSUME NEW i \in 1..sent
               PROVE  \/ \E v \in DOMAIN worker' : Busy(v)' /\ Held(v)' = i
                      \/ \E j \in DOMAIN results' : results'[j].index = i
                      \/ ordered'[i].index = i
    BY <1>1 DEF NothingLost
  <2>1. CASE \E v \in DOMAIN worker : Busy(v) /\ Held(v) = i
    <3>1. PICK v \in DOMAIN worker : Busy(v) /\ Held(v) = i
      BY <2>1
    <3>2. CASE v = w
      BY <1>6, <1>10, <3>1, <3>2 DEF Held, r
    <3>3. CASE v # w
      BY <1>4, <3>1, <3>3 DEF Busy, Held
    <3> QED
      BY <3>2, <3>3
  <2>2. CASE \E j \in DOMAIN results : results[j].index = i
    BY <1>6, <1>10, <2>2
  <2>3. CASE ordered[i].index = i
    BY <1>1, <2>3
  <2> QED
    BY <2>1, <2>2, <2>3 DEF RunInv, NothingLost
<1> QED
    BY <1>11, <1>12, <1>13, <1>14, <1>15 DEF RunInv

LEMMA FinishInv ==
    ASSUME Selected, RunInv, NEW w \in DOMAIN worker, Finish(w)
    PROVE  RunInv'
<1> DEFINE x == [at |-> "done", result |-> worker[w].result]
<1>1. /\ jobsClosed /\ worker[w].at = "idle"
      /\ worker' = [worker EXCEPT ![w].at = "done"]
      /\ UNCHANGED <<panels, sent, jobsClosed, results, resultsClosed, ordered, tried>>
    BY DEF Finish
<1>2. sent \in Nat /\ worker \in [DOMAIN worker -> Working] /\ worker[w] \in Working
    BY Shape
<1>3. worker' = [worker EXCEPT ![w] = x]
  <2>1. [worker[w] EXCEPT !.at = "done"] = x
    BY <1>2, WorkerSet
  <2>2. worker' = [worker EXCEPT ![w] = [worker[w] EXCEPT !.at = "done"]]
    BY <1>1, <1>2
  <2> QED
    BY <2>1, <2>2
<1>4. x \in Working /\ x.at = "done"
    BY <1>2 DEF Working
<1> HIDE DEF x
<1>5. /\ DOMAIN worker' = DOMAIN worker /\ worker'[w] = x
      /\ \A v \in DOMAIN worker : v # w => worker'[v] = worker[v]
    BY <1>2, <1>3, WorkerChanged
<1>6. PoolShape'
  <2>1. worker' \in [DOMAIN worker' -> Working']
    BY <1>1, <1>2, <1>3, <1>4, WorkerTyped
  <2>2. Result' = Result
    BY <1>1 DEF Result
  <2> QED
    BY <1>1, <2>1, <2>2 DEF RunInv, PoolShape
<1>7. PoolClosed'
    BY <1>1, <1>4, <1>5 DEF RunInv, PoolClosed, AllDone
<1>9. TriedOnce'
    BY <1>1, <1>4, <1>5, TriedOnceStays
<1>10. ResultsTell'
  <2>1. \A r : Tells(r) => Tells(r)'
    BY <1>1, <1>2, TellsStays
  <2> QED
    BY <1>1, <1>4, <1>5, <2>1 DEF RunInv, ResultsTell
<1>11. NothingLost'
  <2>1. ASSUME NEW v \in DOMAIN worker, Busy(v)
        PROVE  v \in DOMAIN worker' /\ Busy(v)' /\ Held(v)' = Held(v)
    BY <1>1, <1>5, <2>1 DEF Busy, Held
  <2> QED
    BY <1>1, <2>1 DEF RunInv, NothingLost
<1> QED
    BY <1>6, <1>7, <1>9, <1>10, <1>11 DEF RunInv

(* The steps that close a channel leave the workers alone. *)
LEMMA CloseInv ==
    ASSUME RunInv, CloseJobs \/ CloseResults
    PROVE  RunInv'
<1>1. UNCHANGED <<panels, sent, worker, results, ordered, tried>>
    BY DEF CloseJobs, CloseResults
<1>2. PoolShape'
  <2>1. jobsClosed' \in BOOLEAN /\ resultsClosed' \in BOOLEAN
    BY DEF CloseJobs, CloseResults, RunInv, PoolShape
  <2>2. Result' = Result /\ Working' = Working
    BY <1>1 DEF Result, Working
  <2> QED
    BY <1>1, <2>1, <2>2 DEF RunInv, PoolShape
<1>3. PoolClosed'
    BY <1>1 DEF CloseJobs, CloseResults, RunInv, PoolClosed, AllDone
<1>4. TriedOnce'
    BY <1>1, TriedOnceStays DEF RunInv, PoolShape
<1>5. ResultsTell'
    BY <1>1 DEF RunInv, ResultsTell, Tells
<1>6. NothingLost'
    BY <1>1 DEF RunInv, NothingLost, Busy, Held
<1> QED
    BY <1>2, <1>3, <1>4, <1>5, <1>6 DEF RunInv

LEMMA CollectInv ==
    ASSUME Selected, RunInv, Collect
    PROVE  RunInv'
<1> DEFINE n == Len(results)
<1>0. Len(panels) \in Nat
    BY DEF Selected
<1>1. /\ results # <<>> /\ ordered' = [ordered EXCEPT ![Head(results).index] = Head(results)]
      /\ results' = Tail(results)
      /\ UNCHANGED <<panels, sent, jobsClosed, worker, resultsClosed, tried>>
    BY DEF Collect, Place
<1>2. results \in Seq(Result) /\ Len(results) <= Len(panels) /\ sent \in 0..Len(panels)
    BY DEF RunInv, PoolShape
<1>3. /\ n \in Nat /\ n > 0 /\ DOMAIN results = 1..n /\ Head(results) = results[1]
      /\ results' \in Seq(Result) /\ Len(results') = n - 1 /\ DOMAIN results' = 1..(n - 1)
      /\ \A j \in 1..(n - 1) : results'[j] = results[j + 1]
    BY <1>1, <1>2
<1>4. PICK r : r = results[1]
    OBVIOUS
<1>5. r \in Result /\ Tells(r) /\ r.index \in 1..Len(panels)
  <2>1. 1 \in DOMAIN results
    BY <1>3
  <2>2. r \in Result
    BY <1>2, <1>4, <2>1
  <2>3. Tells(r)
    BY <1>4, <2>1 DEF RunInv, ResultsTell
  <2>4. r.index \in 1..Len(panels)
    BY <1>0, <1>2, <2>3 DEF Tells
  <2> QED
    BY <2>2, <2>3, <2>4
<1>6. /\ ordered \in [1..Len(panels) -> Result]
      /\ ordered' = [ordered EXCEPT ![r.index] = r]
    BY <1>1, <1>3, <1>4 DEF RunInv, PoolShape
<1>7. /\ ordered' \in [1..Len(panels) -> Result] /\ ordered'[r.index] = r
      /\ \A i \in 1..Len(panels) : i # r.index => ordered'[i] = ordered[i]
    BY <1>5, <1>6
<1>8. PoolShape'
  <2>1. Result' = Result /\ Working' = Working
    BY <1>1 DEF Result, Working
  <2>2. Len(results') <= Len(panels)
    BY <1>0, <1>2, <1>3
  <2> QED
    BY <1>1, <1>3, <1>7, <2>1, <2>2 DEF RunInv, PoolShape
<1>9. PoolClosed'
    BY <1>1 DEF RunInv, PoolClosed, AllDone
<1>10. TriedOnce'
    BY <1>1, TriedOnceStays DEF RunInv, PoolShape
<1>11. ResultsTell'
  <2>1. \A q : Tells(q)' <=> Tells(q)
    BY <1>1 DEF Tells
  <2>2. \A j \in DOMAIN results' : Tells(results'[j])
    <3> TAKE j \in DOMAIN results'
    <3>1. j \in 1..(n - 1) /\ j + 1 \in DOMAIN results
      BY <1>3
    <3> QED
      BY <1>3, <3>1 DEF RunInv, ResultsTell
  <2>3. \A i \in 1..Len(panels) :
          ordered'[i].index # 0 => ordered'[i].index = i /\ Tells(ordered'[i])
    <3> TAKE i \in 1..Len(panels)
    <3>1. CASE i = r.index
      BY <1>5, <1>7, <3>1
    <3>2. CASE i # r.index
      BY <1>7, <3>2 DEF RunInv, ResultsTell
    <3> QED
      BY <3>1, <3>2
  <2> QED
    BY <1>1, <2>1, <2>2, <2>3 DEF RunInv, ResultsTell
<1>12. NothingLost'
  <2> SUFFICES ASSUME NEW i \in 1..sent
               PROVE  \/ \E v \in DOMAIN worker : Busy(v) /\ Held(v) = i
                      \/ \E j \in DOMAIN results' : results'[j].index = i
                      \/ ordered'[i].index = i
    BY <1>1 DEF NothingLost, Busy, Held
  <2>0. i \in 1..Len(panels)
    BY <1>0, <1>2
  <2>1. CASE \E j \in DOMAIN results : results[j].index = i
    <3>1. PICK j \in DOMAIN results : results[j].index = i
      BY <2>1
    <3>2. CASE j = 1
      BY <1>4, <1>7, <3>1, <3>2
    <3>3. CASE j # 1
      <4>1. j - 1 \in 1..(n - 1) /\ (j - 1) + 1 = j
        BY <1>3, <3>3
      <4>2. j - 1 \in DOMAIN results' /\ results'[j - 1] = results[j]
        BY <1>3, <4>1
      <4> QED
        BY <3>1, <4>2
    <3> QED
      BY <3>2, <3>3
  <2>2. CASE ordered[i].index = i
    BY <1>7, <2>0, <2>2
  <2> QED
    BY <2>1, <2>2 DEF RunInv, NothingLost
<1> QED
    BY <1>8, <1>9, <1>10, <1>11, <1>12 DEF RunInv

LEMMA StartInv ==
    ASSUME Selected, Untouched, StartPool
    PROVE  RunInv'
<1> DEFINE N == Len(panels)
<1>1. /\ worker' = [w \in 1..Clamped(renderWorkers) |-> Idle]
      /\ ordered' = [i \in DOMAIN panels |-> Unset]
      /\ UNCHANGED <<panels, sent, jobsClosed, results, resultsClosed, charts, tried>>
    BY DEF StartPool
<1>2. N \in Nat /\ DOMAIN panels = 1..N
    BY DEF Selected
<1>3. sent' = 0 /\ jobsClosed' = FALSE /\ resultsClosed' = FALSE /\ results' = <<>> /\ tried' = {}
    BY <1>1 DEF Untouched
<1>4. Unset \in Result /\ Idle \in Working /\ Idle.at = "idle" /\ Unset.index = 0
    BY <1>2 DEF Unset, Idle, Result, Working
<1>5. Result' = Result /\ Working' = Working
    BY <1>1 DEF Result, Working
<1>6. \A w \in DOMAIN worker' : worker'[w] = Idle
    BY <1>1
<1>7. PoolShape'
  <2>1. worker' \in [DOMAIN worker' -> Working']
    BY <1>1, <1>4, <1>5
  <2>2. ordered' \in [1..Len(panels') -> Result']
    BY <1>1, <1>2, <1>4, <1>5
  <2>3. results' \in Seq(Result') /\ Len(results') <= Len(panels')
    BY <1>1, <1>2, <1>3, EmptySeq
  <2>4. sent' \in 0..Len(panels')
    BY <1>1, <1>2, <1>3
  <2>5. tried' \subseteq {panels'[i] : i \in 1..sent'} \X BOOLEAN
    BY <1>3
  <2> QED
    BY <1>1, <1>3, <2>1, <2>2, <2>3, <2>4, <2>5 DEF PoolShape
<1>8. PoolClosed'
    BY <1>3, <1>4, <1>6 DEF PoolClosed
<1>9. TriedOnce'
    BY <1>3, <1>4, <1>6 DEF TriedOnce
<1>10. ResultsTell'
  <2>1. DOMAIN results' = {}
    BY <1>3
  <2>2. \A i \in 1..Len(panels') : ordered'[i].index = 0
    BY <1>1, <1>2, <1>4
  <2> QED
    BY <1>4, <1>6, <2>1, <2>2 DEF ResultsTell
<1>11. NothingLost'
    BY <1>3 DEF NothingLost
<1> QED
    BY <1>7, <1>8, <1>9, <1>10, <1>11 DEF RunInv

(* When the channel of results is closed and empty, the collector has a result of every
   panel in its place. *)
LEMMA AllCollected ==
    ASSUME Selected, RunInv, resultsClosed, results = <<>>
    PROVE  \A i \in DOMAIN panels :
             /\ ordered[i].index = i /\ ordered[i] \in Result
             /\ <<panels[i], ordered[i].ok>> \in tried
<1>1. sent = Len(panels) /\ AllDone /\ DOMAIN panels = 1..Len(panels)
    BY DEF RunInv, PoolClosed, Selected
<1>2. DOMAIN results = {}
    OBVIOUS
<1>3. \A w \in DOMAIN worker : ~Busy(w)
    BY <1>1 DEF AllDone, Busy
<1>4. ASSUME NEW i \in DOMAIN panels
      PROVE  /\ ordered[i].index = i /\ ordered[i] \in Result
             /\ <<panels[i], ordered[i].ok>> \in tried
  <2>1. ordered[i].index = i
    BY <1>1, <1>2, <1>3 DEF RunInv, NothingLost
  <2>2. i # 0
    BY <1>1
  <2>3. Tells(ordered[i])
    BY <1>1, <2>1, <2>2 DEF RunInv, ResultsTell
  <2>4. ordered[i] \in Result
    BY <1>1 DEF RunInv, PoolShape
  <2> QED
    BY <2>1, <2>3, <2>4 DEF Tells
<1> QED
    BY <1>4

LEMMA ReturnInv ==
    ASSUME Selected, RunInv, Return
    PROVE  RunInv' /\ Returned'
<1> DEFINE N    == Len(panels)
           Here == {r \in Result : r.index \in 1..N}
           good == {r \in Elements(ordered) : r.ok}
           rendered == {p \in Elements(panels) : <<p, TRUE>> \in tried}
           h == [r \in Here |-> panels[r.index]]
<1>1. /\ resultsClosed /\ results = <<>>
      /\ charts' = [i \in DOMAIN Keep(ordered, good) |-> panels[Keep(ordered, good)[i].index]]
      /\ UNCHANGED <<panels, sent, jobsClosed, worker, results, resultsClosed, ordered, tried>>
    BY DEF Return
<1>2. RunInv'
  <2>1. Result' = Result /\ Working' = Working
    BY <1>1 DEF Result, Working
  <2>2. PoolShape'
    BY <1>1, <2>1 DEF RunInv, PoolShape
  <2>3. PoolClosed'
    BY <1>1 DEF RunInv, PoolClosed, AllDone
  <2>4. TriedOnce'
    BY <1>1, TriedOnceStays DEF RunInv, PoolShape
  <2>5. ResultsTell'
    BY <1>1 DEF RunInv, ResultsTell, Tells
  <2>6. NothingLost'
    BY <1>1 DEF RunInv, NothingLost, Busy, Held
  <2> QED
    BY <2>2, <2>3, <2>4, <2>5, <2>6 DEF RunInv
<1>3. /\ N \in Nat /\ DOMAIN panels = 1..N /\ panels \in Seq(Elements(AllPanels))
      /\ DOMAIN ordered = 1..N
    BY DEF Selected, RunInv, PoolShape
<1>4. \A i \in 1..N : /\ ordered[i].index = i /\ ordered[i] \in Result
                      /\ <<panels[i], ordered[i].ok>> \in tried
    BY <1>1, <1>3, AllCollected
<1>5. \A p \in Elements(panels) : ~(<<p, TRUE>> \in tried /\ <<p, FALSE>> \in tried)
    BY DEF RunInv, TriedOnce
<1>6. \A i \in 1..N : ordered[i].ok \in BOOLEAN
    BY <1>4 DEF Result
<1>7. \A i \in 1..N : panels[i] \in Elements(panels)
    BY <1>3 DEF Elements
<1>8. ASSUME NEW i \in 1..N
      PROVE  /\ ordered[i].ok <=> <<panels[i], TRUE>> \in tried
             /\ <<panels[i], TRUE>> \in tried <=> <<panels[i], FALSE>> \notin tried
  <2>1. CASE ordered[i].ok = TRUE
    <3>1. <<panels[i], TRUE>> \in tried
      BY <1>4, <2>1
    <3>2. <<panels[i], FALSE>> \notin tried
      BY <1>5, <1>7, <3>1
    <3> QED
      BY <2>1, <3>1, <3>2
  <2>2. CASE ordered[i].ok = FALSE
    <3>1. <<panels[i], FALSE>> \in tried
      BY <1>4, <2>2
    <3>2. <<panels[i], TRUE>> \notin tried
      BY <1>5, <1>7, <3>1
    <3> QED
      BY <2>2, <3>1, <3>2
  <2> QED
    BY <1>6, <2>1, <2>2
<1>9. \A p \in Elements(panels) : <<p, TRUE>> \in tried <=> <<p, FALSE>> \notin tried
    BY <1>3, <1>8 DEF Elements
<1>10. charts' = Keep(panels, rendered)
  <2>1. ordered \in Seq(Here) /\ Elements(ordered) \subseteq Here
    <3>1. \A i \in 1..N : ordered[i] \in Here
      BY <1>4
    <3>2. ordered \in [1..N -> Here]
      BY <1>3, <3>1 DEF RunInv, PoolShape
    <3> QED
      BY <1>3, <3>1, <3>2, SeqDef DEF Elements
  <2>2. h \in [Here -> Elements(panels)]
    BY <1>7
  <2>3. \A r \in Here : h[r] = panels[r.index]
    OBVIOUS
  <2>4. LookedUp(h, ordered) = panels
    <3>1. \A i \in 1..N : h[ordered[i]] = panels[i]
      BY <1>4, <2>3
    <3>2. panels = [i \in 1..N |-> panels[i]]
      BY <1>3, LenProperties
    <3> HIDE DEF h
    <3> QED
      BY <1>3, <3>1, <3>2 DEF LookedUp
  <2>5. /\ Keep(ordered, good) \in Seq(Here)
        /\ Elements(Keep(ordered, good)) = Elements(ordered) \cap good
    BY <2>1, KeepElements
  <2>6. charts' = LookedUp(h, Keep(ordered, good))
    <3>1. \A i \in DOMAIN Keep(ordered, good) : Keep(ordered, good)[i] \in Here
      BY <2>5
    <3> HIDE DEF h, good, Here
    <3> QED
      BY <1>1, <2>3, <3>1 DEF LookedUp
  <2>7. PICK fits : fits = {r \in Here : h[r] \in rendered}
    OBVIOUS
  <2>8. Elements(ordered) \cap good = Elements(ordered) \cap fits
    <3>1. \A i \in 1..N : ordered[i].ok <=> h[ordered[i]] \in rendered
      BY <1>4, <1>7, <1>8, <2>3
    <3>2. \A r \in Elements(ordered) : r.ok <=> h[r] \in rendered
      BY <1>3, <3>1 DEF Elements
    <3> HIDE DEF h, rendered, Here
    <3> QED
      BY <2>1, <2>7, <3>2
  <2> HIDE DEF good, h, rendered, Here
  <2>9. Keep(ordered, good) = Keep(ordered, fits)
    BY <2>1, <2>8, KeepSame
  <2>10. \A r \in Here : r \in fits <=> h[r] \in rendered
    BY <2>7
  <2>11. LookedUp(h, Keep(ordered, fits)) = Keep(LookedUp(h, ordered), rendered)
    <3>1. \A s \in Seq(Here) : LookedUp(h, Keep(s, fits)) = Keep(LookedUp(h, s), rendered)
      BY <2>2, <2>10, KeepLookedUp
    <3> QED
      BY <2>1, <3>1
  <2> QED
    BY <2>4, <2>6, <2>9, <2>11
<1>11. Returned'
    BY <1>1, <1>9, <1>10 DEF Returned
<1> QED
    BY <1>2, <1>11

(* Outside of the pool nothing of it changes. *)
LEMMA UntouchedStays ==
    ASSUME PoolInv, ~Running, UNCHANGED pool, ~Running'
    PROVE  PoolInv'
BY DEF PoolInv, Untouched, pool

LEMMA PreparePoolInv ==
    ASSUME PanelInv, Prepare
    PROVE  PoolInv'
<1>1. /\ stage \in {"request", "queued"}
      /\ stage' \in {"queued", "refused", "failed", "sync", "done"}
      /\ UNCHANGED <<panels, pool>>
  <2>1. UNCHANGED <<panels, pool>> /\ RequestStep
    BY DEF Prepare
  <2>2. CASE RunJob
    BY <2>1, <2>2 DEF RunJob
  <2>3. CASE CreateManual
    BY <2>1, <2>3 DEF CreateManual, Enqueue
  <2>4. CASE RefuseManual \/ CreateForAlert \/ CreateAuto
    BY <2>1, <2>4 DEF RefuseManual, CreateForAlert, CreateAuto, Enqueue
  <2> QED
    BY <2>1, <2>2, <2>3, <2>4 DEF RequestStep
<1>2. Passed = {}
    BY <1>1 DEF Passed
<1>3. panels = <<>>
    BY <1>2, NothingShown DEF PanelInv, SelectionInv, Wanted
<1>4. ~Running /\ ~Running'
    BY <1>1, <1>3 DEF Running
<1> QED
    BY <1>1, <1>4, UntouchedStays DEF PanelInv

LEMMA LoadPoolInv ==
    ASSUME PanelInv, LoadSync \/ LoadNetwork \/ LoadSystem
    PROVE  PoolInv'
<1>1. stage \in Rendering \ {"collect"} /\ stage' \in Rendering \ {"collect"} /\ UNCHANGED pool
    BY DEF LoadSync, LoadNetwork, LoadSystem, Load, Rendering
<1>2. ~Running /\ ~Running'
    BY <1>1 DEF Running, Rendering
<1> QED
    BY <1>1, <1>2, UntouchedStays DEF PanelInv

LEMMA NothingToRenderPoolInv ==
    ASSUME PanelInv, NothingToRender
    PROVE  PoolInv'
<1>1. stage = "render" /\ stage' = "done" /\ panels' = <<>> /\ UNCHANGED pool
    BY DEF NothingToRender
<1>2. ~Running /\ ~Running'
    BY <1>1 DEF Running
<1> QED
    BY <1>1, <1>2, UntouchedStays DEF PanelInv

LEMMA StartPoolInv ==
    ASSUME PanelInv, StartPool
    PROVE  PoolInv'
<1>1. /\ stage = "render" /\ stage' = "collect" /\ panels # <<>>
      /\ UNCHANGED charts /\ UNCHANGED <<accepted, missing, panels>>
    BY DEF StartPool
<1>2. Untouched /\ Selected
    BY <1>1, PanelsSelected DEF PanelInv, PoolInv, Running
<1>3. RunInv' /\ charts' = <<>>
    BY <1>1, <1>2, StartInv DEF Untouched
<1> QED
    BY <1>1, <1>3 DEF PoolInv, Running

PoolStep == \/ CloseJobs \/ CloseResults \/ Collect \/ Return
            \/ \E w \in DOMAIN worker : WorkerStep(w)

(* The pool takes no step before it starts, and none after it has returned. *)
LEMMA PoolStepsCollecting ==
    ASSUME PoolInv, PoolStep
    PROVE  stage = "collect" /\ panels # <<>> /\ RunInv /\ charts = <<>>
<1>1. CASE ~Running
  <2>1. DOMAIN worker = {} /\ results = <<>> /\ jobsClosed = FALSE
    BY <1>1 DEF PoolInv, Untouched
  <2> QED
    BY <1>1, <2>1 DEF PoolStep, CloseJobs, CloseResults, Collect, Return, Running
<1>2. CASE Running /\ stage = "done"
  <2>1. /\ resultsClosed /\ results = <<>>
        /\ \A w \in DOMAIN worker : worker[w].at = "done"
        /\ sent = Len(panels)
    BY <1>2 DEF PoolInv, RunInv, PoolClosed, AllDone, Returned
  <2>2. sent \in Int
    BY <1>2 DEF PoolInv, RunInv, PoolShape
  <2>3. ~(\E w \in DOMAIN worker : WorkerStep(w))
    BY <2>1, <2>2 DEF WorkerStep, HandOver, Render, Deliver, Finish
  <2> QED
    BY <1>2, <2>1, <2>3 DEF PoolStep, CloseJobs, CloseResults, Collect, Return
<1>3. CASE Running /\ stage # "done"
    BY <1>3 DEF PoolInv, Running
<1> QED
    BY <1>1, <1>2, <1>3

LEMMA PoolStepPoolInv ==
    ASSUME PanelInv, PoolStep
    PROVE  /\ PoolInv' /\ UNCHANGED <<accepted, missing, panels>>
           /\ stage = "collect" /\ stage' \in {"collect", "done"}
<1>1. stage = "collect" /\ panels # <<>> /\ RunInv /\ charts = <<>> /\ Selected
    BY PoolStepsCollecting, PanelsSelected DEF PanelInv
<1>2. CASE Return
  <2>1. RunInv' /\ Returned'
    BY <1>1, <1>2, ReturnInv
  <2>2. stage' = "done" /\ UNCHANGED <<accepted, missing, panels>>
    BY <1>2 DEF Return
  <2> QED
    BY <1>1, <2>1, <2>2 DEF PoolInv, Running
<1>3. CASE CloseJobs \/ CloseResults \/ Collect \/ \E w \in DOMAIN worker : WorkerStep(w)
  <2>1. RunInv'
    BY <1>1, <1>3, CloseInv, CollectInv, HandOverInv, RenderInv, DeliverInv, FinishInv
       DEF WorkerStep
  <2>2. UNCHANGED <<accepted, stage, missing, panels, charts>>
    BY <1>3 DEF CloseJobs, CloseResults, Collect, WorkerStep, HandOver, Render, Deliver, Finish
  <2>3. RunInv' /\ charts' = <<>> /\ stage' = "collect"
    BY <1>1, <2>1, <2>2
  <2> QED
    BY <1>1, <2>2, <2>3 DEF PoolInv, Running
<1> QED
    BY <1>2, <1>3 DEF PoolStep

-----------------------------------------------------------------------------
(* The theorems *)

LEMMA InitInv ==
    ASSUME Init
    PROVE  PanelInv
<1>1. RequestInv
    BY RequestAssumption DEF Init, RequestInit, NoJob, RequestInv, Rendering, AcceptedAsMeant
<1>2. PoolInv
    BY DEF Init, RequestInit, PoolInv, Running, Untouched
<1> QED
    BY <1>1, <1>2, InitSelectionInv DEF PanelInv

LEMMA StutterInv ==
    ASSUME PanelInv, UNCHANGED vars
    PROVE  PanelInv'
<1>1. UNCHANGED <<requestVars, renderWorkers, stage, missing, panels, sent, jobsClosed, worker,
                  results, resultsClosed, ordered, charts, tried>>
    BY DEF vars, accepted, pool
<1>2. RequestInv'
  <2>1. CASE stage \in {"request", "refused"}
    BY <1>1, <2>1 DEF PanelInv, RequestInv, AcceptedAsMeant, Rendering, requestVars
  <2>2. CASE stage \notin {"request", "refused"}
    <3>1. AcceptedAsMeant'
      BY <1>1, <2>2, MeantAccepted DEF PanelInv, RequestInv, Rendering
    <3> QED
      BY <1>1, <3>1 DEF PanelInv, RequestInv, Rendering, requestVars
  <2> QED
    BY <2>1, <2>2
<1>3. SelectionInv'
    BY <1>1, SelectionStays DEF PanelInv, Passed
<1>4. PoolInv'
  <2>1. CASE ~Running
    BY <1>1, <2>1 DEF PanelInv, PoolInv, Running, Untouched
  <2>2. CASE Running
    <3>1. RunInv
      BY <2>2 DEF PanelInv, PoolInv
    <3>2. Result' = Result /\ Working' = Working
      BY <1>1 DEF Result, Working
    <3>3. PoolShape'
      BY <1>1, <3>1, <3>2 DEF RunInv, PoolShape
    <3>4. PoolClosed'
      BY <1>1, <3>1 DEF RunInv, PoolClosed, AllDone
    <3>5. TriedOnce'
      BY <1>1, <3>1, TriedOnceStays DEF RunInv, PoolShape
    <3>6. ResultsTell'
      BY <1>1, <3>1 DEF RunInv, ResultsTell, Tells
    <3>7. NothingLost'
      BY <1>1, <3>1 DEF RunInv, NothingLost, Busy, Held
    <3>8. RunInv'
      BY <3>3, <3>4, <3>5, <3>6, <3>7 DEF RunInv
    <3> QED
      BY <1>1, <2>2, <3>8 DEF PanelInv, PoolInv, Running, Returned
  <2> QED
    BY <2>1, <2>2
<1> QED
    BY <1>2, <1>3, <1>4 DEF PanelInv

LEMMA NextInv ==
    ASSUME PanelInv, Next
    PROVE  PanelInv'
<1>1. CASE Prepare
  <2>1. RequestInv'
    BY <1>1, PrepareRequestInv DEF PanelInv
  <2> QED
    BY <1>1, <2>1, PrepareSelectionInv, PreparePoolInv DEF PanelInv
<1>2. CASE LoadSync \/ LoadNetwork \/ LoadSystem
  <2>1. RequestInv'
    BY <1>2, GenerateRequestInv
       DEF PanelInv, LoadSync, LoadNetwork, LoadSystem, Load, Rendering
  <2>2. SelectionInv'
    BY <1>2, SyncSelectionInv, NetworkSelectionInv, SystemSelectionInv DEF PanelInv
  <2> QED
    BY <1>2, <2>1, <2>2, LoadPoolInv DEF PanelInv
<1>3. CASE StartPool \/ NothingToRender \/ PoolStep
  <2>1. PoolInv'
    BY <1>3, StartPoolInv, NothingToRenderPoolInv, PoolStepPoolInv
  <2>2. /\ UNCHANGED <<accepted, missing, panels>>
        /\ stage \in {"render", "collect"} /\ stage' \in {"collect", "done"}
    BY <1>3, PoolStepPoolInv DEF StartPool, NothingToRender
  <2>3. RequestInv'
    BY <2>2, GenerateRequestInv DEF PanelInv, Rendering
  <2>4. Passed' = Passed /\ UNCHANGED requestVars
    BY <2>2 DEF Passed, accepted
  <2>5. SelectionInv'
    BY <2>2, <2>4, SelectionStays DEF PanelInv
  <2> QED
    BY <2>1, <2>3, <2>5 DEF PanelInv
<1> QED
    BY <1>1, <1>2, <1>3 DEF Next, PoolStep

(* The inductive invariant: what is known of the request and its job, of the selection of
   panels, and of the pool. *)
THEOREM Invariance == Spec => []PanelInv
<1>1. Init => PanelInv
    BY InitInv
<1>2. PanelInv /\ [Next]_vars => PanelInv'
    BY NextInv, StutterInv
<1> QED
    BY <1>1, <1>2, PTL DEF Spec

LEMMA InvTyped == PanelInv => PanelTypeOK
<1> SUFFICES ASSUME PanelInv PROVE PanelTypeOK
    OBVIOUS
<1>1. /\ settings \in Settings /\ request \in Requests
      /\ job.names \subseteq GroupNames /\ job.skip \in BOOLEAN
      /\ stage \in {"request", "refused", "queued", "sync", "network", "system", "render",
                    "collect", "done"}
    BY DEF PanelInv, RequestInv, Rendering
<1>2. missing \subseteq {"sync", "network", "system"}
    BY DEF PanelInv, SelectionInv, Passed
<1>3. panels \in Seq(Elements(AllPanels)) /\ Elements(panels) \subseteq Elements(AllPanels)
    BY PanelsShown DEF PanelInv, Wanted, Shown
<1>4. /\ sent \in 0..Len(panels)
      /\ \A w \in DOMAIN worker : worker[w] \in Working
      /\ Elements(results) \subseteq Result /\ Len(results) <= Len(panels)
      /\ Elements(ordered) \subseteq Result
      /\ jobsClosed => sent = Len(panels)
      /\ resultsClosed => \A w \in DOMAIN worker : worker[w].at = "done"
  <2>1. CASE Running
    <3>1. PoolShape /\ PoolClosed
      BY <2>1 DEF PanelInv, PoolInv, RunInv
    <3>2. /\ worker \in [DOMAIN worker -> Working] /\ results \in Seq(Result)
          /\ ordered \in [1..Len(panels) -> Result]
          /\ sent \in 0..Len(panels) /\ Len(results) <= Len(panels)
      BY <3>1 DEF PoolShape
    <3>3. Elements(results) \subseteq Result /\ Elements(ordered) \subseteq Result
      BY <3>2 DEF Elements
    <3> QED
      BY <3>1, <3>2, <3>3 DEF PoolClosed, AllDone
  <2>2. CASE ~Running
    <3>1. /\ sent = 0 /\ worker = <<>> /\ results = <<>> /\ ordered = <<>>
          /\ jobsClosed = FALSE /\ resultsClosed = FALSE
      BY <2>2 DEF PanelInv, PoolInv, Untouched
    <3>2. Len(panels) \in Nat
      BY <1>3
    <3> QED
      BY <3>1, <3>2, ElementsEmpty
  <2> QED
    BY <2>1, <2>2
<1> QED
    BY <1>1, <1>2, <1>3, <1>4 DEF PanelTypeOK, Working

LEMMA InvShows == PanelInv => ReportShowsWhatWasAsked
<1> SUFFICES ASSUME PanelInv PROVE ReportShowsWhatWasAsked
    OBVIOUS
<1> DEFINE S == Elements(AllPanels)
           shown == {p \in S : Asks(p) /\ <<p, TRUE>> \in tried}
<1>1. AcceptedAsMeant
    BY DEF PanelInv, RequestInv
<1>2. SUFFICES ASSUME stage = "done"
               PROVE  /\ charts = Keep(AllPanels, shown)
                      /\ \A p \in S : Asks(p) /\ DashboardOf(p) \notin missing =>
                            (<<p, TRUE>> \in tried <=> <<p, FALSE>> \notin tried)
    BY <1>1 DEF ReportShowsWhatWasAsked
<1>3. Passed = {"sync", "network", "system"}
    BY <1>2 DEF Passed
<1>4. \A p \in S : DashboardOf(p) \in Passed
    BY <1>3, Dashboards, DashboardOfPanels
<1>5. \A p \in S : p \in Wanted <=> Asks(p) /\ DashboardOf(p) \notin missing
    BY <1>4 DEF Wanted, Shown, Asked
<1>6. panels = Keep(AllPanels, Wanted) /\ Elements(panels) = Wanted /\ AllPanels \in Seq(S)
      /\ panels \in Seq(S)
    BY PanelsShown, Dashboards DEF PanelInv, SelectionInv
<1>7. Wanted \subseteq S
    BY DEF Wanted, Shown
<1>8. CASE panels = <<>>
  <2>1. charts = <<>> /\ tried = {}
    BY <1>2, <1>8 DEF PanelInv, PoolInv, Running, Untouched
  <2>2. S \cap shown = {}
    BY <2>1
  <2> HIDE DEF S, shown
  <2>3. Keep(AllPanels, shown) = <<>>
    BY <1>6, <2>2, KeepNone DEF S
  <2>4. Wanted = {}
    BY <1>6, <1>8, ElementsEmpty
  <2> QED
    BY <1>5, <2>1, <2>3, <2>4
<1>9. CASE panels # <<>>
  <2> DEFINE rendered == {p \in Elements(panels) : <<p, TRUE>> \in tried}
  <2>1. Running
    BY <1>2, <1>9 DEF Running
  <2>2. Returned /\ PoolShape
    BY <1>2, <2>1 DEF PanelInv, PoolInv, RunInv
  <2>3. charts = Keep(panels, rendered)
    BY <2>2 DEF Returned
  <2>4. \A p \in Wanted : <<p, TRUE>> \in tried <=> <<p, FALSE>> \notin tried
    BY <1>6, <2>2 DEF Returned
  <2>5. \A p : <<p, TRUE>> \in tried => p \in Wanted
    <3>1. sent \in 0..Len(panels) /\ tried \subseteq {panels[i] : i \in 1..sent} \X BOOLEAN
      BY <2>2 DEF PoolShape
    <3>2. \A i \in 1..sent : i \in DOMAIN panels
      BY <1>6, <3>1
    <3>3. {panels[i] : i \in 1..sent} \subseteq Elements(panels)
      BY <3>2 DEF Elements
    <3> QED
      BY <1>6, <3>1, <3>3
  <2>6. S \cap (Wanted \cap rendered) = S \cap shown
    BY <1>5, <1>6, <1>7, <2>5
  <2> HIDE DEF S, shown, rendered
  <2>7. Keep(panels, rendered) = Keep(AllPanels, Wanted \cap rendered)
    BY <1>6, KeepTwice
  <2>8. Keep(AllPanels, Wanted \cap rendered) = Keep(AllPanels, shown)
    BY <1>6, <2>6, KeepSame DEF S
  <2>9. charts = Keep(AllPanels, shown)
    BY <2>3, <2>7, <2>8
  <2> QED
    BY <1>5, <2>4, <2>9
<1> QED
    BY <1>8, <1>9

(* Every variable keeps its shape whatever the dashboards, the options, the request and
   the number of workers; nothing is sent on the channel of results once it is closed, and
   a result is never put outside of the slice of the panels (renderGrafanaCharts). *)
THEOREM PanelTypeCorrect == Spec => []PanelTypeOK
BY Invariance, InvTyped, PTL

(* Whatever the request, the dashboards that fail to load, the renders that fail and the
   order of the workers: a job has the groups, the end and the start of the window and
   the choice of charts its request meant, the start unless it asks for more seconds
   than a duration has, and a finished report has the charts of exactly the panels asked for that could be
   rendered, in the order of the dashboards, each tried once (createSpecFromRequest,
   runJob, Generate and renderGrafanaCharts). *)
THEOREM ShowsWhatWasAsked == Spec => []ReportShowsWhatWasAsked
BY Invariance, InvShows, PTL

-----------------------------------------------------------------------------
(* The pool ends *)

Staffed == stage = "collect" => IsFiniteSet(DOMAIN worker) /\ DOMAIN worker # {}

CollectorCanGo == results # <<>> \/ resultsClosed
FeederCanGo ==
    \/ sent = Len(panels) /\ ~jobsClosed
    \/ jobsClosed /\ AllDone /\ ~resultsClosed
WorkerCanGo(w) ==
    \/ worker[w].at = "idle" /\ (sent < Len(panels) \/ jobsClosed)
    \/ worker[w].at = "render"
    \/ worker[w].at = "deliver" /\ Len(results) < Len(panels)

(* Nobody waits for ever on somebody who waits: while the charts are collected the
   collector has a result to take or returns, or the feeder has a channel to close, or a
   worker has a job to take, to render or to deliver, or ends (renderGrafanaCharts). *)
NeverStuck ==
    stage = "collect" => CollectorCanGo \/ FeederCanGo \/ \E w \in DOMAIN worker : WorkerCanGo(w)

(* What is left to do: four steps of each job that was not handed over, and those that
   each worker, each result and each channel has before it. *)
Awake     == {w \in DOMAIN worker : worker[w].at # "done"}
Busied    == {w \in DOMAIN worker : worker[w].at \in {"render", "deliver"}}
Rendered  == {w \in DOMAIN worker : worker[w].at = "render"}
Open(closed) == IF closed THEN 0 ELSE 1

WorkLeft ==
    4 * (Len(panels) - sent) + Cardinality(Awake) + 2 * Cardinality(Busied)
      + Cardinality(Rendered) + Len(results) + Open(jobsClosed) + Open(resultsClosed)

(* Every step of the pool leaves less to do, until it returns. *)
PoolAdvances ==
    [][stage = "collect" => stage' = "done" \/ (WorkLeft' < WorkLeft /\ stage' = "collect")]_vars

LEMMA StaffedKept ==
    ASSUME PanelInv, Staffed, [Next]_vars
    PROVE  Staffed'
<1>1. CASE StartPool
  <2> DEFINE k == Clamped(renderWorkers)
  <2>1. DOMAIN worker' = 1..k
    BY <1>1 DEF StartPool
  <2>2. renderWorkers \in Int
    BY PanelAssumption DEF PanelAssumption, PanelInv, RequestInv
  <2>3. Len(panels) \in Nat /\ Len(panels) # 0
    BY <1>1, PanelsSelected, EmptySeq DEF StartPool, PanelInv, Selected
  <2>4. k \in Int /\ k >= 1
    BY <2>2, <2>3 DEF Clamped
  <2> HIDE DEF k
  <2>5. IsFiniteSet(1..k) /\ 1 \in 1..k
    BY <2>4, FS_Interval
  <2> QED
    BY <2>1, <2>5 DEF Staffed
<1>2. CASE PoolStep \/ UNCHANGED vars
  <2>1. stage = "collect" \/ stage' = stage
    BY <1>2, PoolStepPoolInv DEF vars
  <2>2. DOMAIN worker' = DOMAIN worker
    BY <1>2 DEF PoolStep, CloseJobs, CloseResults, Collect, Return, WorkerStep, HandOver, Render,
                Deliver, Finish, vars, pool
  <2> QED
    BY <2>1, <2>2 DEF Staffed
<1>3. CASE Prepare \/ LoadSync \/ LoadNetwork \/ LoadSystem \/ NothingToRender
  <2>1. stage' # "collect"
    BY <1>3 DEF Prepare, RequestStep, CreateManual, RefuseManual, CreateForAlert, CreateAuto, RunJob,
                Enqueue, LoadSync, LoadNetwork, LoadSystem, Load, NothingToRender
  <2> QED
    BY <2>1 DEF Staffed
<1> QED
    BY <1>1, <1>2, <1>3 DEF Next, PoolStep

LEMMA AlwaysStaffed == Spec => []Staffed
<1>1. Init => Staffed
    BY DEF Init, RequestInit, Staffed
<1>2. PanelInv /\ Staffed /\ [Next]_vars => Staffed'
    BY StaffedKept
<1> QED
    BY <1>1, <1>2, Invariance, PTL DEF Spec

LEMMA InvNotStuck == PanelInv /\ Staffed => NeverStuck
<1> SUFFICES ASSUME PanelInv, Staffed, stage = "collect", ~CollectorCanGo, ~FeederCanGo
             PROVE  \E w \in DOMAIN worker : WorkerCanGo(w)
    BY DEF NeverStuck
<1>1. RunInv /\ panels # <<>> /\ Selected
    BY PanelsSelected DEF PanelInv, PoolInv, Running
<1>2. Len(panels) \in Nat /\ Len(panels) > 0
    BY <1>1, EmptySeq DEF Selected
<1>3. results = <<>> /\ resultsClosed = FALSE
    BY <1>1 DEF CollectorCanGo, RunInv, PoolShape
<1>4. Len(results) < Len(panels)
    BY <1>2, <1>3
<1>5. sent \in Nat /\ (sent < Len(panels) \/ jobsClosed)
    BY <1>1, <1>2 DEF FeederCanGo, RunInv, PoolShape
<1>6. ~(AllDone /\ jobsClosed)
    BY <1>3 DEF FeederCanGo
<1>7. \E w \in DOMAIN worker : worker[w].at # "done"
  <2>1. PICK w \in DOMAIN worker : TRUE
    BY DEF Staffed
  <2>2. CASE AllDone
    BY <1>1, <1>6, <2>1, <2>2 DEF AllDone, RunInv, PoolClosed
  <2> QED
    BY <2>2 DEF AllDone
<1>8. PICK w \in DOMAIN worker : worker[w].at # "done"
    BY <1>7
<1>9. worker[w].at \in {"idle", "render", "deliver"}
    BY <1>1, <1>8, Shape DEF Working
<1> QED
    BY <1>4, <1>5, <1>9 DEF WorkerCanGo

LEMMA WorkCounted ==
    ASSUME IsFiniteSet(DOMAIN worker)
    PROVE  /\ IsFiniteSet(Awake) /\ IsFiniteSet(Busied) /\ IsFiniteSet(Rendered)
           /\ Cardinality(Awake) \in Nat /\ Cardinality(Busied) \in Nat
           /\ Cardinality(Rendered) \in Nat
<1>1. /\ Awake \in SUBSET DOMAIN worker /\ Busied \in SUBSET DOMAIN worker
      /\ Rendered \in SUBSET DOMAIN worker
    BY DEF Awake, Busied, Rendered
<1>2. IsFiniteSet(Awake) /\ IsFiniteSet(Busied) /\ IsFiniteSet(Rendered)
    BY <1>1, FS_Subset
<1> QED
    BY <1>2, FS_CardinalityType

(* How a step of one worker moves it between the sets that are counted. *)
LEMMA WorkerMoves ==
    ASSUME NEW w \in DOMAIN worker, DOMAIN worker' = DOMAIN worker,
           \A v \in DOMAIN worker : v # w => worker'[v] = worker[v]
    PROVE  /\ Awake' = IF worker'[w].at # "done" THEN Awake \cup {w} ELSE Awake \ {w}
           /\ Busied' = IF worker'[w].at \in {"render", "deliver"} THEN Busied \cup {w}
                        ELSE Busied \ {w}
           /\ Rendered' = IF worker'[w].at = "render" THEN Rendered \cup {w} ELSE Rendered \ {w}
<1>1. Awake' = IF worker'[w].at # "done" THEN Awake \cup {w} ELSE Awake \ {w}
    BY DEF Awake
<1>2. Busied' = IF worker'[w].at \in {"render", "deliver"} THEN Busied \cup {w} ELSE Busied \ {w}
    BY DEF Busied
<1>3. Rendered' = IF worker'[w].at = "render" THEN Rendered \cup {w} ELSE Rendered \ {w}
    BY DEF Rendered
<1> QED
    BY <1>1, <1>2, <1>3

LEMMA WorkerAdvances ==
    ASSUME Selected, RunInv, IsFiniteSet(DOMAIN worker), NEW w \in DOMAIN worker, WorkerStep(w)
    PROVE  WorkLeft' < WorkLeft
<1> DEFINE a == Cardinality(Awake)
           b == Cardinality(Busied)
           c == Cardinality(Rendered)
           n == Len(results)
           m == Len(panels)
           x == Open(jobsClosed)
           y == Open(resultsClosed)
<1>0. /\ a \in Nat /\ b \in Nat /\ c \in Nat
      /\ n \in Nat /\ m \in Nat /\ sent \in Nat /\ x \in Nat /\ y \in Nat
    BY Shape, WorkCounted DEF Selected, RunInv, PoolShape, Open
<1>1. IsFiniteSet(Awake) /\ IsFiniteSet(Busied) /\ IsFiniteSet(Rendered)
    BY WorkCounted
<1>2. /\ results \in Seq(Result) /\ worker \in [DOMAIN worker -> Working]
      /\ worker[w] \in Working /\ worker[w].result \in Result
    BY Shape DEF RunInv, PoolShape, Working
<1>3. WorkLeft = 4 * (m - sent) + a + 2 * b + c + n + x + y
    BY DEF WorkLeft
<1>4. WorkLeft' = 4 * (m' - sent') + Cardinality(Awake') + 2 * Cardinality(Busied')
                    + Cardinality(Rendered') + n' + x' + y'
    BY DEF WorkLeft
<1>5. UNCHANGED <<panels, jobsClosed, resultsClosed>>
    BY DEF WorkerStep, HandOver, Render, Deliver, Finish
<1>6. m' = m /\ x' = x /\ y' = y
    BY <1>5
<1>7. \E z : worker' = [worker EXCEPT ![w] = z]
    BY <1>2 DEF WorkerStep, HandOver, Render, Deliver, Finish
<1>8. /\ DOMAIN worker' = DOMAIN worker
      /\ \A v \in DOMAIN worker : v # w => worker'[v] = worker[v]
    BY <1>2, <1>7
<1>9. /\ Awake' = IF worker'[w].at # "done" THEN Awake \cup {w} ELSE Awake \ {w}
      /\ Busied' = IF worker'[w].at \in {"render", "deliver"} THEN Busied \cup {w}
                   ELSE Busied \ {w}
      /\ Rendered' = IF worker'[w].at = "render" THEN Rendered \cup {w} ELSE Rendered \ {w}
    BY <1>8, WorkerMoves
<1>10. /\ w \in Awake <=> worker[w].at # "done"
       /\ w \in Busied <=> worker[w].at \in {"render", "deliver"}
       /\ w \in Rendered <=> worker[w].at = "render"
    BY DEF Awake, Busied, Rendered
<1>11. CASE HandOver(w)
  <2>1. worker[w].at = "idle" /\ sent' = sent + 1 /\ n' = n /\ worker'[w].at = "render"
    BY <1>2, <1>11 DEF HandOver
  <2>2. Awake' = Awake /\ Busied' = Busied \cup {w} /\ Rendered' = Rendered \cup {w}
        /\ w \notin Busied /\ w \notin Rendered
    BY <1>9, <1>10, <2>1
  <2>3. Cardinality(Busied') = b + 1 /\ Cardinality(Rendered') = c + 1 /\ Cardinality(Awake') = a
    BY <1>0, <1>1, <2>2, FS_AddElement
  <2> HIDE DEF a, b, c, n, m, x, y
  <2>4. WorkLeft' = 4 * (m - (sent + 1)) + a + 2 * (b + 1) + (c + 1) + n + x + y
    BY <1>4, <1>6, <2>1, <2>3
  <2> QED
    BY <1>0, <1>3, <2>4
<1>12. CASE Render(w)
  <2>1. worker[w].at = "render" /\ sent' = sent /\ n' = n /\ worker'[w].at = "deliver"
    <3>1. PICK ok \in BOOLEAN :
            worker' = [worker EXCEPT ![w].at = "deliver", ![w].result.ok = ok]
      BY <1>12 DEF Render
    <3>2. worker'[w] = [worker[w] EXCEPT !.at = "deliver", !.result.ok = ok]
      BY <1>2, <3>1
    <3>3. worker'[w].at = "deliver"
      BY <1>2, <3>2, WorkerSet
    <3> QED
      BY <1>12, <3>3 DEF Render
  <2>2. Awake' = Awake /\ Busied' = Busied /\ Rendered' = Rendered \ {w} /\ w \in Rendered
    BY <1>9, <1>10, <2>1
  <2>3. Cardinality(Busied') = b /\ Cardinality(Rendered') = c - 1 /\ Cardinality(Awake') = a
    BY <1>1, <2>2, FS_RemoveElement
  <2> HIDE DEF a, b, c, n, m, x, y
  <2>4. WorkLeft' = 4 * (m - sent) + a + 2 * b + (c - 1) + n + x + y
    BY <1>4, <1>6, <2>1, <2>3
  <2> QED
    BY <1>0, <1>3, <2>4
<1>13. CASE Deliver(w)
  <2>1. /\ worker[w].at = "deliver" /\ sent' = sent /\ worker'[w].at = "idle"
        /\ results' = Append(results, worker[w].result)
    BY <1>2, <1>13 DEF Deliver, NextJob, Idle
  <2>2. n' = n + 1
    BY <1>2, <2>1
  <2>3. Awake' = Awake /\ Busied' = Busied \ {w} /\ Rendered' = Rendered /\ w \in Busied
    BY <1>9, <1>10, <2>1
  <2>4. Cardinality(Busied') = b - 1 /\ Cardinality(Rendered') = c /\ Cardinality(Awake') = a
    BY <1>1, <2>3, FS_RemoveElement
  <2> HIDE DEF a, b, c, n, m, x, y
  <2>5. WorkLeft' = 4 * (m - sent) + a + 2 * (b - 1) + c + (n + 1) + x + y
    BY <1>4, <1>6, <2>1, <2>2, <2>4
  <2> QED
    BY <1>0, <1>3, <2>5
<1>14. CASE Finish(w)
  <2>1. worker[w].at = "idle" /\ sent' = sent /\ n' = n /\ worker'[w].at = "done"
    <3>1. worker'[w] = [worker[w] EXCEPT !.at = "done"]
      BY <1>2, <1>14 DEF Finish
    <3>2. worker'[w].at = "done"
      BY <1>2, <3>1, WorkerSet
    <3> QED
      BY <1>14, <3>2 DEF Finish
  <2>2. Awake' = Awake \ {w} /\ Busied' = Busied /\ Rendered' = Rendered /\ w \in Awake
    BY <1>9, <1>10, <2>1
  <2>3. Cardinality(Busied') = b /\ Cardinality(Rendered') = c /\ Cardinality(Awake') = a - 1
    BY <1>1, <2>2, FS_RemoveElement
  <2> HIDE DEF a, b, c, n, m, x, y
  <2>4. WorkLeft' = 4 * (m - sent) + (a - 1) + 2 * b + c + n + x + y
    BY <1>4, <1>6, <2>1, <2>3
  <2> QED
    BY <1>0, <1>3, <2>4
<1> QED
    BY <1>11, <1>12, <1>13, <1>14 DEF WorkerStep

LEMMA ClosingAdvances ==
    ASSUME Selected, RunInv, IsFiniteSet(DOMAIN worker), CloseJobs \/ CloseResults \/ Collect
    PROVE  WorkLeft' < WorkLeft
<1> DEFINE rest == 4 * (Len(panels) - sent) + Cardinality(Awake) + 2 * Cardinality(Busied)
                     + Cardinality(Rendered)
           n == Len(results)
           x == Open(jobsClosed)
           y == Open(resultsClosed)
<1>1. UNCHANGED <<panels, sent, worker>>
    BY DEF CloseJobs, CloseResults, Collect
<1>2. Awake' = Awake /\ Busied' = Busied /\ Rendered' = Rendered
    BY <1>1 DEF Awake, Busied, Rendered
<1>3. rest' = rest
    BY <1>1, <1>2
<1>4. /\ n \in Nat /\ x \in Nat /\ y \in Nat /\ results \in Seq(Result)
    BY DEF RunInv, PoolShape, Open
<1>5. rest \in Int
  <2>1. Len(panels) \in Nat /\ sent \in Nat
    BY Shape DEF Selected
  <2>2. Cardinality(Awake) \in Nat /\ Cardinality(Busied) \in Nat /\ Cardinality(Rendered) \in Nat
    BY WorkCounted
  <2> QED
    BY <2>1, <2>2
<1>6. WorkLeft = rest + n + x + y /\ WorkLeft' = rest' + n' + x' + y'
    BY DEF WorkLeft
<1> HIDE DEF rest
<1>7. CASE CloseJobs
  <2>1. x = 1 /\ x' = 0 /\ n' = n /\ y' = y
    BY <1>7 DEF CloseJobs, Open
  <2> HIDE DEF n, x, y
  <2> QED
    BY <1>3, <1>4, <1>5, <1>6, <2>1
<1>8. CASE CloseResults
  <2>1. y = 1 /\ y' = 0 /\ n' = n /\ x' = x
    BY <1>8 DEF CloseResults, Open
  <2> HIDE DEF n, x, y
  <2> QED
    BY <1>3, <1>4, <1>5, <1>6, <2>1
<1>9. CASE Collect
  <2>1. x' = x /\ y' = y /\ results # <<>> /\ results' = Tail(results)
    BY <1>9 DEF Collect
  <2>2. n' = n - 1
    BY <1>4, <2>1
  <2> HIDE DEF n, x, y
  <2> QED
    BY <1>3, <1>4, <1>5, <1>6, <2>1, <2>2
<1> QED
    BY <1>7, <1>8, <1>9

LEMMA InvAdvances ==
    ASSUME PanelInv, Staffed, Next, stage = "collect"
    PROVE  stage' = "done" \/ (WorkLeft' < WorkLeft /\ stage' = "collect")
<1>1. RunInv /\ Selected /\ IsFiniteSet(DOMAIN worker)
    BY PanelsSelected DEF PanelInv, PoolInv, Running, Staffed
<1>2. PoolStep
    BY DEF Next, PoolStep, Prepare, RequestStep, CreateManual, RefuseManual, CreateForAlert,
           CreateAuto, RunJob, LoadSync, LoadNetwork, LoadSystem, Load, StartPool, NothingToRender
<1>3. stage' \in {"collect", "done"}
    BY <1>2, PoolStepPoolInv
<1>4. CASE Return
    BY <1>4 DEF Return
<1>5. CASE CloseJobs \/ CloseResults \/ Collect \/ \E w \in DOMAIN worker : WorkerStep(w)
    BY <1>1, <1>3, <1>5, ClosingAdvances, WorkerAdvances
<1> QED
    BY <1>2, <1>4, <1>5 DEF PoolStep

LEMMA WorkLeftNat ==
    ASSUME Selected, RunInv, IsFiniteSet(DOMAIN worker)
    PROVE  WorkLeft \in Nat
<1> DEFINE j == Len(panels) - sent
           a == Cardinality(Awake)
           b == Cardinality(Busied)
           c == Cardinality(Rendered)
           n == Len(results)
           x == Open(jobsClosed)
           y == Open(resultsClosed)
<1>1. j \in Nat /\ n \in Nat
    BY Shape DEF Selected, RunInv, PoolShape
<1>2. a \in Nat /\ b \in Nat /\ c \in Nat
    BY WorkCounted
<1>3. x \in Nat /\ y \in Nat
    BY DEF Open
<1>4. WorkLeft = 4 * j + a + 2 * b + c + n + x + y
    BY DEF WorkLeft
<1> HIDE DEF j, a, b, c, n, x, y
<1>5. 4 * j + a + 2 * b + c + n + x + y \in Nat
    BY ONLY <1>1, <1>2, <1>3
<1> QED
    BY ONLY <1>4, <1>5

(* The feeder, the workers and the collector never all wait for one another, whatever the
   option RenderWorkers says: there is always a worker. *)
THEOREM PoolNeverStuck == Spec => []NeverStuck
BY Invariance, AlwaysStaffed, InvNotStuck, PTL

(* And they cannot go on for ever: what is left to do is a natural number ... *)
THEOREM PoolWorkBounded == Spec => [](stage = "collect" => WorkLeft \in Nat)
<1>1. PanelInv /\ Staffed => (stage = "collect" => WorkLeft \in Nat)
    BY PanelsSelected, WorkLeftNat DEF PanelInv, PoolInv, Running, Staffed
<1> QED
    BY <1>1, Invariance, AlwaysStaffed, PTL

(* ... that every step makes smaller, until the charts are returned.  With NeverStuck this
   is why renderGrafanaCharts returns, if some goroutine goes on while one can. *)
THEOREM PoolEnds == Spec => PoolAdvances
<1>1. PanelInv /\ Staffed /\ [Next]_vars =>
        [stage = "collect" => stage' = "done" \/ (WorkLeft' < WorkLeft /\ stage' = "collect")]_vars
    BY InvAdvances
<1> QED
    BY <1>1, Invariance, AlwaysStaffed, PTL DEF Spec, PoolAdvances
=============================================================================
