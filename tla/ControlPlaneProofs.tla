------------------------- MODULE ControlPlaneProofs -------------------------
(***************************************************************************)
(* Proofs about ControlPlane for any clients and calls, descriptions,      *)
(* element classes and answers of GStreamer.                               *)
(***************************************************************************)
EXTENDS ControlPlane, SequenceTheorems, FiniteSetTheorems, WellFoundedInduction, TLAPS

(* Induction over the natural numbers, as a fact about sets. *)

LEMMA Least ==
  ASSUME NEW T, T \subseteq Nat, T # {}
  PROVE  \E n \in T : \A m \in T : n <= m
<1>1. IsWellFoundedOn(OpToRel(<, Nat), Nat)
  BY NatLessThanWellFounded
<1>2. PICK n \in T : \A m \in T : ~ (<<m, n>> \in OpToRel(<, Nat))
  BY <1>1, WFMin
<1>3. \A m \in T : ~ (m < n)
  BY <1>2 DEF OpToRel
<1> QED
  BY <1>3

LEMMA Induct ==
  ASSUME NEW S, 0 \in S, \A n \in Nat : n \in S => n + 1 \in S
  PROVE  Nat \subseteq S
<1> SUFFICES ASSUME Nat \ S # {} PROVE FALSE
  OBVIOUS
<1>1. PICK n \in Nat \ S : \A m \in Nat \ S : n <= m
  BY Least
<1>2. n # 0 /\ n - 1 \in Nat /\ n - 1 \in S
  BY <1>1
<1> QED
  BY <1>1, <1>2

-----------------------------------------------------------------------------
(* Sequences *)

IsSeq(s) == \E S : s \in Seq(S)

LEMMA SeqDomain ==
  ASSUME NEW s, IsSeq(s)
  PROVE  Len(s) \in Nat /\ DOMAIN s = 1 .. Len(s)
BY DEF IsSeq

LEMMA SeqIntro ==
  ASSUME NEW s, NEW n \in Nat, s = [i \in 1 .. n |-> s[i]]
  PROVE  IsSeq(s) /\ Len(s) = n
<1> DEFINE S == {s[i] : i \in 1 .. n}
<1>1. s \in [1 .. n -> S]
  OBVIOUS
<1>2. s \in Seq(S)
  <2> HIDE DEF S
  <2> QED
    BY <1>1, SeqDef
<1>3. DOMAIN s = 1 .. n /\ DOMAIN s = 1 .. Len(s) /\ Len(s) \in Nat
  BY <1>1, <1>2
<1>4. IsSeq(s)
  <2> HIDE DEF S
  <2> QED
    BY <1>2 DEF IsSeq
<1>5. Len(s) <= n
  <2> SUFFICES ASSUME Len(s) > n PROVE FALSE
    BY <1>3
  <2>1. Len(s) \in 1 .. Len(s) /\ Len(s) \notin 1 .. n
    BY <1>3
  <2> QED
    BY <1>3, <2>1
<1>6. n <= Len(s)
  <2> SUFFICES ASSUME n > Len(s) PROVE FALSE
    BY <1>3
  <2>1. n \in 1 .. n /\ n \notin 1 .. Len(s)
    BY <1>3
  <2> QED
    BY <1>3, <2>1
<1> QED
  BY <1>3, <1>4, <1>5, <1>6

LEMMA SeqAppend ==
  ASSUME NEW s, IsSeq(s), NEW e
  PROVE  /\ IsSeq(Append(s, e))
         /\ Len(Append(s, e)) = Len(s) + 1
         /\ DOMAIN Append(s, e) = 1 .. Len(s) + 1
         /\ \A i \in 1 .. Len(s) : Append(s, e)[i] = s[i]
         /\ Append(s, e)[Len(s) + 1] = e
<1>1. PICK S : s \in Seq(S)
  BY DEF IsSeq
<1>2. s \in Seq(S \cup {e}) /\ e \in S \cup {e}
  BY <1>1
<1>3. Append(s, e) \in Seq(S \cup {e})
  BY <1>2
<1> QED
  BY <1>2, <1>3, AppendProperties DEF IsSeq

LEMMA SeqTuple ==
  /\ IsSeq(<<>>) /\ Len(<<>>) = 0
  /\ \A a : IsSeq(<<a>>) /\ Len(<<a>>) = 1 /\ <<a>>[1] = a
  /\ \A a, b : IsSeq(<<a, b>>) /\ Len(<<a, b>>) = 2 /\ <<a, b>>[1] = a /\ <<a, b>>[2] = b
  /\ \A a, b, c : IsSeq(<<a, b, c>>) /\ Len(<<a, b, c>>) = 3
  /\ \A a, b, c, d : IsSeq(<<a, b, c, d>>)
<1>1. IsSeq(<<>>)
  <2>1. <<>> \in Seq({})
    OBVIOUS
  <2> QED
    BY <2>1 DEF IsSeq
<1>2. ASSUME NEW a PROVE IsSeq(<<a>>)
  <2>1. <<a>> \in Seq({a})
    OBVIOUS
  <2> QED
    BY <2>1 DEF IsSeq
<1>3. ASSUME NEW a, NEW b PROVE IsSeq(<<a, b>>)
  <2>1. <<a, b>> \in Seq({a, b})
    OBVIOUS
  <2> QED
    BY <2>1 DEF IsSeq
<1>4. ASSUME NEW a, NEW b, NEW c PROVE IsSeq(<<a, b, c>>)
  <2>1. <<a, b, c>> \in Seq({a, b, c})
    OBVIOUS
  <2> QED
    BY <2>1 DEF IsSeq
<1>5. ASSUME NEW a, NEW b, NEW c, NEW d PROVE IsSeq(<<a, b, c, d>>)
  <2>1. <<a, b, c, d>> \in Seq({a, b, c, d})
    OBVIOUS
  <2> QED
    BY <2>1 DEF IsSeq
<1> QED
  BY <1>1, <1>2, <1>3, <1>4, <1>5

LEMMA SeqConcat ==
  ASSUME NEW s, IsSeq(s), NEW t, IsSeq(t)
  PROVE  /\ IsSeq(s \o t) /\ Len(s \o t) = Len(s) + Len(t)
         /\ \A i \in 1 .. Len(s) : (s \o t)[i] = s[i]
         /\ \A i \in Len(s) + 1 .. Len(s) + Len(t) : (s \o t)[i] = t[i - Len(s)]
<1>1. PICK S : s \in Seq(S)
  BY DEF IsSeq
<1>2. PICK T : t \in Seq(T)
  BY DEF IsSeq
<1>3. s \in Seq(S \cup T) /\ t \in Seq(S \cup T) /\ Len(s) \in Nat /\ Len(t) \in Nat
  BY <1>1, <1>2
<1>4. s \o t \in Seq(S \cup T) /\ Len(s \o t) = Len(s) + Len(t)
  BY <1>3
<1>5. \A k \in 1 .. Len(s) + Len(t) : (s \o t)[k] = IF k <= Len(s) THEN s[k] ELSE t[k - Len(s)]
  BY <1>3, ConcatProperties
<1>6. \A i \in 1 .. Len(s) : (s \o t)[i] = s[i]
  BY <1>3, <1>5
<1>7. \A i \in Len(s) + 1 .. Len(s) + Len(t) : (s \o t)[i] = t[i - Len(s)]
  BY <1>3, <1>5
<1> QED
  BY <1>4, <1>6, <1>7 DEF IsSeq

\* What RemoveAt leaves.
LEMMA SeqRemove ==
  ASSUME NEW s, IsSeq(s), NEW i \in DOMAIN s
  PROVE  /\ IsSeq(RemoveAt(s, i))
         /\ DOMAIN RemoveAt(s, i) = 1 .. Len(s) - 1
         /\ \A j \in 1 .. Len(s) - 1 : RemoveAt(s, i)[j] = IF j < i THEN s[j] ELSE s[j + 1]
<1>1. PICK S : s \in Seq(S)
  BY DEF IsSeq
<1>2. i \in 1 .. Len(s) /\ Len(s) \in Nat
  BY <1>1
<1> DEFINE a == SubSeq(s, 1, i - 1)
           b == SubSeq(s, i + 1, Len(s))
<1>3. a \in Seq(S) /\ Len(a) = i - 1 /\ \A j \in 1 .. i - 1 : a[j] = s[j]
  BY <1>1, <1>2
<1>4. b \in Seq(S) /\ Len(b) = Len(s) - i /\ \A j \in 1 .. Len(s) - i : b[j] = s[i + j]
  BY <1>1, <1>2
<1>5. RemoveAt(s, i) = a \o b
  BY DEF RemoveAt
<1> HIDE DEF a, b
<1>6. a \o b \in Seq(S) /\ Len(a \o b) = Len(s) - 1
  BY <1>2, <1>3, <1>4
<1>7. \A j \in 1 .. Len(s) - 1 : (a \o b)[j] = IF j < i THEN s[j] ELSE s[j + 1]
  <2> TAKE j \in 1 .. Len(s) - 1
  <2>4. \A k \in 1 .. Len(a) + Len(b) : (a \o b)[k] = IF k <= Len(a) THEN a[k] ELSE b[k - Len(a)]
    BY <1>3, <1>4, ConcatProperties
  <2>5. j \in 1 .. Len(a) + Len(b)
    BY <1>2, <1>3, <1>4
  <2>1. (a \o b)[j] = IF j <= Len(a) THEN a[j] ELSE b[j - Len(a)]
    BY ONLY <2>4, <2>5
  <2>2. CASE j < i
    BY <1>2, <1>3, <2>1, <2>2
  <2>3. CASE ~(j < i)
    <3>1. j - (i - 1) \in 1 .. Len(s) - i /\ i + (j - (i - 1)) = j + 1
      BY <1>2, <2>3
    <3>2. (a \o b)[j] = b[j - (i - 1)]
      BY <1>2, <1>3, <2>1, <2>3
    <3>3. b[j - (i - 1)] = s[i + (j - (i - 1))]
      BY <1>4, <3>1
    <3> QED
      BY <2>3, <3>1, <3>2, <3>3
  <2> QED
    BY <2>2, <2>3
<1> QED
  BY <1>2, <1>5, <1>6, <1>7 DEF IsSeq

\* A sequence of sequences, each of a set that is closed under concatenation.
LEMMA Flattened ==
  ASSUME NEW s, IsSeq(s), NEW Z, <<>> \in Z, \A a, b \in Z : a \o b \in Z,
         \A i \in DOMAIN s : s[i] \in Z
  PROVE  FlattenSeq(s) \in Z
<1> DEFINE N == Len(s)
           run == CHOOSE run : run = [i \in 1 .. N |-> IF i = 1 THEN s[i] ELSE run[i - 1] \o s[i]]
<1>1. N \in Nat /\ DOMAIN s = 1 .. N
  BY SeqDomain
<1>2. FlattenSeq(s) = IF N = 0 THEN s ELSE run[N]
  BY DEF FlattenSeq
<1>3. CASE N = 0
  <2>1. PICK S : s \in Seq(S)
    BY DEF IsSeq
  <2>2. s = <<>>
    BY <1>3, <2>1, EmptySeq
  <2> QED
    BY <1>2, <1>3, <2>2
<1>4. CASE N # 0
  <2> HIDE DEF run
  <2>1. run = [i \in 1 .. N |-> IF i = 1 THEN s[i] ELSE run[i - 1] \o s[i]]
    <3> DEFINE S == {n \in Nat : \E f : f = [i \in 1 .. n |-> IF i = 1 THEN s[i] ELSE f[i - 1] \o s[i]]}
    <3>1. 0 \in S
      <4> DEFINE f == [i \in 1 .. 0 |-> s[i]]
      <4>1. f = [i \in 1 .. 0 |-> IF i = 1 THEN s[i] ELSE f[i - 1] \o s[i]]
        OBVIOUS
      <4> QED
        BY <4>1
    <3>2. \A n \in Nat : n \in S => n + 1 \in S
      <4> SUFFICES ASSUME NEW n \in Nat, n \in S PROVE n + 1 \in S
        OBVIOUS
      <4>1. PICK f : f = [i \in 1 .. n |-> IF i = 1 THEN s[i] ELSE f[i - 1] \o s[i]]
        OBVIOUS
      <4> DEFINE last == IF n = 0 THEN s[1] ELSE f[n] \o s[n + 1]
                 g == [i \in 1 .. n + 1 |-> IF i = n + 1 THEN last ELSE f[i]]
      <4>2. g = [i \in 1 .. n + 1 |-> IF i = 1 THEN s[i] ELSE g[i - 1] \o s[i]]
        <5>1. \A i \in 1 .. n + 1 : g[i] = IF i = 1 THEN s[i] ELSE g[i - 1] \o s[i]
          <6> TAKE i \in 1 .. n + 1
          <6>1. CASE i = n + 1
            BY <6>1
          <6>2. CASE i # n + 1 /\ i # 1
            <7>1. i \in 1 .. n /\ i - 1 \in 1 .. n /\ i - 1 # n + 1 /\ i - 1 \in 1 .. n + 1
              BY <6>2
            <7>2. g[i] = f[i] /\ g[i - 1] = f[i - 1]
              BY <6>2, <7>1
            <7>3. f[i] = f[i - 1] \o s[i]
              BY <4>1, <6>2, <7>1
            <7> QED
              BY <6>2, <7>2, <7>3
          <6>3. CASE i # n + 1 /\ i = 1
            BY <4>1, <6>3
          <6> QED
            BY <6>1, <6>2, <6>3
        <5> QED
          BY <5>1
      <4> HIDE DEF g, last
      <4>3. \E h : h = [i \in 1 .. n + 1 |-> IF i = 1 THEN s[i] ELSE h[i - 1] \o s[i]]
        BY <4>2, Zenon
      <4>4. n + 1 \in Nat
        OBVIOUS
      <4> QED
        BY ONLY <4>3, <4>4, Zenon
    <3>3. N \in S
      <4> HIDE DEF S
      <4> QED
        BY <1>1, <3>1, <3>2, Induct
    <3>4. \E f : f = [i \in 1 .. N |-> IF i = 1 THEN s[i] ELSE f[i - 1] \o s[i]]
      BY <3>3
    <3> QED
      BY ONLY <3>4, Zenon DEF run
  <2> DEFINE V == {n \in Nat : n + 1 <= N => run[n + 1] \in Z}
  <2>2. 0 \in V
    BY <1>1, <1>4, <2>1
  <2>3. \A n \in Nat : n \in V => n + 1 \in V
    <3> SUFFICES ASSUME NEW n \in Nat, n \in V, n + 2 <= N PROVE run[n + 2] \in Z
      OBVIOUS
    <3>1. n + 2 \in 1 .. N /\ n + 2 # 1 /\ (n + 2) - 1 = n + 1 /\ run[n + 1] \in Z
      BY <1>1
    <3> HIDE DEF V
    <3>2. run[n + 2] = run[n + 1] \o s[n + 2]
      BY <2>1, <3>1
    <3>3. s[n + 2] \in Z
      BY <1>1, <3>1
    <3>4. run[n + 1] \o s[n + 2] \in Z
      BY <3>1, <3>3
    <3> QED
      BY <3>2, <3>4
  <2>4. N - 1 \in V
    <3> HIDE DEF V
    <3> QED
      BY <1>1, <1>4, <2>2, <2>3, Induct
  <2> QED
    BY <1>1, <1>2, <1>4, <2>4
<1> QED
  BY <1>3, <1>4

-----------------------------------------------------------------------------
(* The entries of an element's list of properties *)

IsEntry(x) ==
  /\ x = [name |-> x.name, target |-> x.target, pspec |-> x.pspec]
  /\ x.target \in DOMAIN Class
  /\ \E j \in DOMAIN Class[x.target].props : x.pspec = Class[x.target].props[j]
Entries(s) == IsSeq(s) /\ \A i \in DOMAIN s : IsEntry(s[i])

LEMMA ClassSeqs ==
  ASSUME NEW o \in DOMAIN Class
  PROVE  /\ IsSeq(Class[o].props) /\ IsSeq(Class[o].children)
         /\ IsSeq(Class[o].signals) /\ IsSeq(Class[o].actions)
         /\ \A i \in DOMAIN Class[o].children : Class[o].children[i] \in DOMAIN Class
BY ResourcesAssumption DEF IsSeq

LEMMA OwnEntries ==
  ASSUME NEW o \in DOMAIN Class
  PROVE  Entries(append_object_properties(o))
<1> DEFINE props == Class[o].props
           s == append_object_properties(o)
<1>1. IsSeq(props)
  BY ClassSeqs
<1>2. Len(props) \in Nat /\ DOMAIN props = 1 .. Len(props)
  BY <1>1, SeqDomain
<1>3. s = [i \in DOMAIN props |-> [name |-> props[i].name, target |-> o, pspec |-> props[i]]]
  BY DEF append_object_properties
<1>4. \A i \in DOMAIN props : IsEntry(s[i])
  BY <1>3 DEF IsEntry
<1>5. s = [i \in 1 .. Len(props) |-> s[i]] /\ DOMAIN s = DOMAIN props
  BY <1>2, <1>3
<1> HIDE DEF s, props
<1>6. IsSeq(s)
  BY <1>2, <1>5, SeqIntro
<1> QED
  BY <1>4, <1>5, <1>6 DEF Entries, s

LEMMA BelowEntries ==
  ASSUME NEW child, NEW s, Entries(s)
  PROVE  Entries(Below(child, s))
<1> DEFINE t == Below(child, s)
<1>1. Len(s) \in Nat /\ DOMAIN s = 1 .. Len(s)
  BY SeqDomain DEF Entries
<1>2. t = [i \in DOMAIN s |-> [s[i] EXCEPT !.name = child \o "::" \o s[i].name]]
  BY DEF Below
<1>3. \A i \in DOMAIN s : IsEntry(t[i])
  <2> TAKE i \in DOMAIN s
  <2> DEFINE x == s[i]
             v == child \o "::" \o x.name
  <2>1. IsEntry(x)
    BY DEF Entries
  <2>2. t[i] = [x EXCEPT !.name = v]
    BY <1>2
  <2> HIDE DEF x, v, t
  <2> QED
    BY <2>1, <2>2 DEF IsEntry
<1>4. t = [i \in 1 .. Len(s) |-> t[i]] /\ DOMAIN t = DOMAIN s
  BY <1>1, <1>2
<1> HIDE DEF t
<1>5. IsSeq(t)
  BY <1>1, <1>4, SeqIntro
<1> QED
  BY <1>3, <1>4, <1>5 DEF Entries, t

LEMMA ConcatEntries ==
  ASSUME NEW s, Entries(s), NEW t, Entries(t)
  PROVE  Entries(s \o t)
<1>1. IsSeq(s) /\ IsSeq(t)
  BY DEF Entries
<1>2. Len(s) \in Nat /\ Len(t) \in Nat /\ DOMAIN s = 1 .. Len(s) /\ DOMAIN t = 1 .. Len(t)
  BY <1>1, SeqDomain
<1>3. /\ IsSeq(s \o t) /\ Len(s \o t) = Len(s) + Len(t)
      /\ \A i \in 1 .. Len(s) : (s \o t)[i] = s[i]
      /\ \A i \in Len(s) + 1 .. Len(s) + Len(t) : (s \o t)[i] = t[i - Len(s)]
  BY <1>1, SeqConcat
<1>4. DOMAIN (s \o t) = 1 .. Len(s) + Len(t)
  BY <1>3, SeqDomain
<1>5. ASSUME NEW i \in 1 .. Len(s) + Len(t) PROVE IsEntry((s \o t)[i])
  <2>1. CASE i <= Len(s)
    BY <1>2, <1>3, <2>1 DEF Entries
  <2>2. CASE i > Len(s)
    <3>1. i - Len(s) \in DOMAIN t /\ (s \o t)[i] = t[i - Len(s)]
      BY <1>2, <1>3, <2>2
    <3> QED
      BY <3>1 DEF Entries
  <2> QED
    BY <1>2, <2>1, <2>2
<1> QED
  BY <1>3, <1>4, <1>5 DEF Entries

LEMMA FlatEntries ==
  ASSUME NEW s, IsSeq(s), \A i \in DOMAIN s : Entries(s[i])
  PROVE  Entries(FlattenSeq(s))
<1> DEFINE R == UNION {{s[i][j] : j \in DOMAIN s[i]} : i \in DOMAIN s}
           Z == {t \in Seq(R) : Entries(t)}
<1>1. ASSUME NEW i \in DOMAIN s PROVE s[i] \in Z
  <2>1. Entries(s[i]) /\ IsSeq(s[i])
    BY DEF Entries
  <2>2. PICK S : s[i] \in Seq(S)
    BY <2>1 DEF IsSeq
  <2>3. Len(s[i]) \in Nat /\ s[i] \in [1 .. Len(s[i]) -> S] /\ DOMAIN s[i] = 1 .. Len(s[i])
    BY <2>2
  <2>4. \A j \in 1 .. Len(s[i]) : s[i][j] \in R
    BY <2>3
  <2>5. s[i] \in Seq(R)
    <3> HIDE DEF R
    <3> QED
      BY <2>3, <2>4, SeqDef
  <2> QED
    BY <2>1, <2>5
<1>2. <<>> \in Z
  BY SeqTuple DEF Entries
<1>3. \A a, b \in Z : a \o b \in Z
  <2> HIDE DEF R
  <2> QED
    BY ConcatEntries
<1>4. FlattenSeq(s) \in Z
  <2> HIDE DEF Z
  <2> QED
    BY <1>1, <1>2, <1>3, Flattened
<1> QED
  BY <1>4

\* What the recursion makes of an object whose children's properties f has.
Filled(f, o) ==
  FlattenSeq([i \in DOMAIN Class[o].children |->
                Below(Class[o].children[i], f[Class[o].children[i]]
                                            \o append_object_properties(Class[o].children[i]))])

\* The recursion ends, at the objects without children.
LEMMA Recursion ==
  fill_child_properties = [o \in DOMAIN Class |-> Filled(fill_child_properties, o)]
<1>1. PICK h \in [DOMAIN Class -> 0 .. Cardinality(DOMAIN Class)] :
        \A o \in DOMAIN Class : \A i \in DOMAIN Class[o].children : h[Class[o].children[i]] < h[o]
  BY ResourcesAssumption
<1> DEFINE N == Cardinality(DOMAIN Class) + 1
           D(n) == {o \in DOMAIN Class : h[o] < n}
           S == {n \in Nat : \E f : f = [o \in D(n) |-> Filled(f, o)]}
<1>2. N \in Nat /\ \A o \in DOMAIN Class : h[o] \in Nat /\ h[o] < N
  <2>1. Cardinality(DOMAIN Class) \in Nat
    BY ResourcesAssumption, FS_CardinalityType
  <2> QED
    BY <1>1, <2>1
<1>3. 0 \in S
  <2> DEFINE f == [o \in D(0) |-> <<>>]
  <2>1. D(0) = {}
    BY <1>2
  <2>2. f = [o \in D(0) |-> Filled(f, o)]
    BY <2>1
  <2> QED
    BY <2>2
<1>4. \A n \in Nat : n \in S => n + 1 \in S
  <2> SUFFICES ASSUME NEW n \in Nat, n \in S PROVE n + 1 \in S
    OBVIOUS
  <2>1. PICK f : f = [o \in D(n) |-> Filled(f, o)]
    OBVIOUS
  <2> DEFINE g == [o \in D(n + 1) |-> Filled(f, o)]
  <2>2. \A o \in D(n) : o \in D(n + 1) /\ g[o] = f[o]
    <3>1. \A o \in D(n) : o \in D(n + 1)
      BY <1>2
    <3> QED
      BY <2>1, <3>1
  <2>3. \A o \in D(n + 1) : \A i \in DOMAIN Class[o].children : Class[o].children[i] \in D(n)
    <3> TAKE o \in D(n + 1)
    <3> TAKE i \in DOMAIN Class[o].children
    <3> DEFINE child == Class[o].children[i]
    <3>1. child \in DOMAIN Class
      BY ClassSeqs
    <3>2. h[child] < h[o] /\ h[o] < n + 1 /\ h[child] \in Nat /\ h[o] \in Nat
      BY <1>1, <1>2, <3>1
    <3> QED
      BY <3>1, <3>2
  <2> HIDE DEF g, D
  <2>4. \A o \in D(n + 1) : Filled(f, o) = Filled(g, o)
    <3> TAKE o \in D(n + 1)
    <3> DEFINE I == DOMAIN Class[o].children
               C(i) == Class[o].children[i]
               A(i) == append_object_properties(C(i))
    <3>1. \A i \in I : f[C(i)] = g[C(i)]
      BY <2>2, <2>3
    <3> HIDE DEF A
    <3>2. [i \in I |-> Below(C(i), f[C(i)] \o A(i))] = [i \in I |-> Below(C(i), g[C(i)] \o A(i))]
      <4> HIDE DEF C, I
      <4> QED
        BY <3>1
    <3> QED
      BY <3>2 DEF Filled, A
  <2>5. g = [o \in D(n + 1) |-> Filled(g, o)]
    BY <2>4 DEF g
  <2>6. \E e : e = [o \in D(n + 1) |-> Filled(e, o)]
    BY <2>5
  <2> QED
    BY <2>6
<1>5. N \in S
  <2> HIDE DEF S, N
  <2> QED
    BY <1>2, <1>3, <1>4, Induct
<1>6. D(N) = DOMAIN Class
  BY <1>2
<1>7. \E f : f = [o \in DOMAIN Class |-> Filled(f, o)]
  <2> HIDE DEF D, N
  <2> QED
    BY <1>5, <1>6
<1> DEFINE F == CHOOSE f : f = [o \in DOMAIN Class |-> Filled(f, o)]
<1>8. F = [o \in DOMAIN Class |-> Filled(F, o)]
  BY ONLY <1>7, Zenon
<1>9. fill_child_properties = F
  BY DEF fill_child_properties, Filled, Joined, Each
<1> QED
  BY <1>8, <1>9

LEMMA ChildEntries ==
  ASSUME NEW e \in DOMAIN Class
  PROVE  Entries(fill_child_properties[e])
<1>1. PICK h \in [DOMAIN Class -> 0 .. Cardinality(DOMAIN Class)] :
        \A o \in DOMAIN Class : \A i \in DOMAIN Class[o].children : h[Class[o].children[i]] < h[o]
  BY ResourcesAssumption
<1> DEFINE F == fill_child_properties
           V == {n \in Nat : \A o \in DOMAIN Class : h[o] < n => Entries(F[o])}
<1>2. \A o \in DOMAIN Class : h[o] \in Nat
  <2>1. Cardinality(DOMAIN Class) \in Nat
    BY ResourcesAssumption, FS_CardinalityType
  <2> QED
    BY <1>1, <2>1
<1> HIDE DEF F
<1>3. 0 \in V
  BY <1>2
<1>4. \A n \in Nat : n \in V => n + 1 \in V
  <2> SUFFICES ASSUME NEW n \in Nat, n \in V, NEW o \in DOMAIN Class, h[o] < n + 1
               PROVE  Entries(F[o])
    OBVIOUS
  <2> DEFINE C(i) == Class[o].children[i]
             I == DOMAIN Class[o].children
             s == [i \in I |-> Below(C(i), F[C(i)] \o append_object_properties(C(i)))]
  <2>1. F[o] = FlattenSeq(s)
    BY Recursion DEF F, Filled
  <2>2. IsSeq(Class[o].children) /\ \A i \in I : C(i) \in DOMAIN Class
    BY ClassSeqs
  <2>3. ASSUME NEW i \in I PROVE Entries(s[i])
    <3> DEFINE c == C(i)
               a == append_object_properties(c)
               f == F[c]
    <3>1. c \in DOMAIN Class /\ h[c] < h[o] /\ h[c] \in Nat /\ h[o] \in Nat
      BY <1>1, <1>2, <2>2
    <3>2. Entries(f)
      BY <3>1
    <3>3. Entries(a)
      <4> HIDE DEF c
      <4> QED
        BY <3>1, OwnEntries
    <3>4. s[i] = Below(c, f \o a)
      OBVIOUS
    <3> HIDE DEF c, a, f, s
    <3> QED
      BY <3>2, <3>3, <3>4, ConcatEntries, BelowEntries
  <2>4. IsSeq(s) /\ DOMAIN s = I
    <3>1. Len(Class[o].children) \in Nat /\ I = 1 .. Len(Class[o].children)
      BY <2>2, SeqDomain
    <3>2. s = [i \in 1 .. Len(Class[o].children) |-> s[i]] /\ DOMAIN s = I
      BY <3>1
    <3> HIDE DEF s
    <3> QED
      BY <3>1, <3>2, SeqIntro
  <2> HIDE DEF s, I, V
  <2> QED
    BY <2>1, <2>3, <2>4, FlatEntries
<1>5. h[e] + 1 \in V
  <2> HIDE DEF V
  <2> QED
    BY <1>2, <1>3, <1>4, Induct
<1> QED
  BY <1>2, <1>5 DEF F

\* The list of properties of an element has entries only.
LEMMA FillEntries ==
  ASSUME NEW e \in DOMAIN Class
  PROVE  Entries(fill_properties(e))
<1> DEFINE a == append_object_properties(e)
           f == fill_child_properties[e]
<1>1. Entries(a) /\ Entries(f)
  BY OwnEntries, ChildEntries
<1> HIDE DEF a, f
<1>2. Entries(a \o f)
  BY <1>1, ConcatEntries
<1> QED
  BY <1>2 DEF fill_properties, a, f

\* One answer of the iterator.
Scanned(r, word) ==
  IF r.done THEN r
  ELSE IF word = "error" THEN [r EXCEPT !.done = TRUE]
  ELSE IF word = "resync"
       THEN IF r.resyncs + 1 > MaxResync THEN [r EXCEPT !.done = TRUE]
            ELSE [r EXCEPT !.resyncs = @ + 1, !.saved = 0]
  ELSE [r EXCEPT !.resyncs = 0, !.saved = @ + 1,
                 !.best = IF @ < r.saved + 1 THEN r.saved + 1 ELSE @]
Scans == [saved : Nat, best : Nat, resyncs : Nat, done : BOOLEAN]
Unscanned == [saved |-> 0, best |-> 0, resyncs |-> 0, done |-> FALSE]

LEMMA ScanStep ==
  ASSUME NEW r \in Scans, NEW word
  PROVE  Scanned(r, word) \in Scans
<1> DEFINE k == IF r.best < r.saved + 1 THEN r.saved + 1 ELSE r.best
<1>1. r.saved + 1 \in Nat /\ r.resyncs + 1 \in Nat /\ k \in Nat
  BY DEF Scans
<1>2. [r EXCEPT !.done = TRUE] \in Scans
  BY DEF Scans
<1>3. [r EXCEPT !.resyncs = r.resyncs + 1, !.saved = 0] \in Scans
  BY <1>1 DEF Scans
<1> HIDE DEF k
<1>4. [r EXCEPT !.resyncs = 0, !.saved = r.saved + 1, !.best = k] \in Scans
  BY <1>1 DEF Scans
<1> QED
  BY <1>2, <1>3, <1>4 DEF Scanned, k

\* Whatever the iterator answers, some of the elements, from the first on, are listed.
LEMMA FillElements ==
  ASSUME NEW names, IsSeq(names), NEW scan, IsSeq(scan)
  PROVE  /\ IsSeq(fill_elements(names, scan))
         /\ \A i \in DOMAIN fill_elements(names, scan) :
              i \in DOMAIN names /\ fill_elements(names, scan)[i] = names[i]
<1> DEFINE N == Len(scan)
           run == CHOOSE run : run = [i \in 0 .. N |-> IF i = 0 THEN Unscanned ELSE Scanned(run[i - 1], scan[i])]
           r == run[N]
           t == fill_elements(names, scan)
<1>1. N \in Nat
  BY SeqDomain
<1>2. t = IF r.done /\ r.best < Len(names) THEN SubSeq(names, 1, r.best) ELSE names
  BY DEF fill_elements, Scanned, Unscanned
<1> HIDE DEF run
<1>3. run = [i \in 0 .. N |-> IF i = 0 THEN Unscanned ELSE Scanned(run[i - 1], scan[i])]
  <2> DEFINE S == {n \in Nat : \E f : f = [i \in 0 .. n |-> IF i = 0 THEN Unscanned
                                                            ELSE Scanned(f[i - 1], scan[i])]}
  <2>1. 0 \in S
    <3> DEFINE f == [i \in 0 .. 0 |-> Unscanned]
    <3>1. f = [i \in 0 .. 0 |-> IF i = 0 THEN Unscanned ELSE Scanned(f[i - 1], scan[i])]
      OBVIOUS
    <3> QED
      BY <3>1
  <2>2. \A n \in Nat : n \in S => n + 1 \in S
    <3> SUFFICES ASSUME NEW n \in Nat, n \in S PROVE n + 1 \in S
      OBVIOUS
    <3>1. PICK f : f = [i \in 0 .. n |-> IF i = 0 THEN Unscanned ELSE Scanned(f[i - 1], scan[i])]
      OBVIOUS
    <3> DEFINE g == [i \in 0 .. n + 1 |-> IF i = n + 1 THEN Scanned(f[n], scan[n + 1]) ELSE f[i]]
    <3>2. g = [i \in 0 .. n + 1 |-> IF i = 0 THEN Unscanned ELSE Scanned(g[i - 1], scan[i])]
      <4>1. \A i \in 0 .. n + 1 : g[i] = IF i = 0 THEN Unscanned ELSE Scanned(g[i - 1], scan[i])
        <5> TAKE i \in 0 .. n + 1
        <5>1. CASE i = n + 1
          BY <5>1
        <5>2. CASE i # n + 1 /\ i # 0
          <6>1. i \in 0 .. n /\ i - 1 \in 0 .. n /\ i - 1 # n + 1
            BY <5>2
          <6>2. g[i] = f[i] /\ g[i - 1] = f[i - 1]
            BY <5>2, <6>1
          <6>3. f[i] = Scanned(f[i - 1], scan[i])
            BY <3>1, <5>2, <6>1
          <6> QED
            BY <5>2, <6>2, <6>3
        <5>3. CASE i = 0
          BY <3>1, <5>3
        <5> QED
          BY <5>1, <5>2, <5>3
      <4> QED
        BY <4>1
    <3> HIDE DEF g
    <3> QED
      BY <3>2
  <2>3. N \in S
    <3> HIDE DEF S
    <3> QED
      BY <1>1, <2>1, <2>2, Induct
  <2>4. \E f : f = [i \in 0 .. N |-> IF i = 0 THEN Unscanned ELSE Scanned(f[i - 1], scan[i])]
    BY <2>3
  <2> QED
    BY ONLY <2>4, Zenon DEF run
<1> DEFINE V == {n \in Nat : n <= N => run[n] \in Scans}
<1>4. 0 \in V
  <2>1. Unscanned \in Scans
    BY DEF Unscanned, Scans
  <2> QED
    BY <1>1, <1>3, <2>1
<1>5. \A n \in Nat : n \in V => n + 1 \in V
  <2> SUFFICES ASSUME NEW n \in Nat, n \in V, n + 1 <= N PROVE run[n + 1] \in Scans
    OBVIOUS
  <2>1. run[n] \in Scans /\ n + 1 \in 0 .. N /\ n + 1 # 0 /\ (n + 1) - 1 = n
    BY <1>1
  <2> HIDE DEF V
  <2>2. run[n + 1] = Scanned(run[n], scan[n + 1])
    BY <1>3, <2>1
  <2> QED
    BY <2>1, <2>2, ScanStep
<1>6. r \in Scans
  <2>1. N \in V
    <3> HIDE DEF V
    <3> QED
      BY <1>1, <1>4, <1>5, Induct
  <2> QED
    BY <1>1, <2>1
<1>7. r.best \in Nat
  BY <1>6 DEF Scans
<1> HIDE DEF r
<1>8. PICK S : names \in Seq(S)
  BY DEF IsSeq
<1>9. CASE r.done /\ r.best < Len(names)
  <2> DEFINE k == r.best
  <2>1. t = SubSeq(names, 1, k) /\ k \in Nat /\ k < Len(names)
    BY <1>2, <1>7, <1>9
  <2> HIDE DEF k, t
  <2>2. t \in Seq(S) /\ Len(t) = k /\ \A i \in 1 .. k : t[i] = names[i]
    BY <1>8, <2>1
  <2>3. DOMAIN t = 1 .. k /\ \A i \in 1 .. k : i \in DOMAIN names
    BY <1>8, <2>1, <2>2
  <2> QED
    BY <2>2, <2>3 DEF IsSeq, t
<1>10. CASE ~(r.done /\ r.best < Len(names))
  BY <1>2, <1>10
<1> QED
  BY <1>9, <1>10

-----------------------------------------------------------------------------
(* The world *)

Fields == {"name", "desc", "goal", "cur", "verbose", "timeout", "types", "elements",
           "lists", "sigtimes", "vals"}
Three == {"properties", "signals", "actions"}

\* What one of the three lists of an element was filled from.
Source(e, l) ==
  IF l = "properties" THEN fill_properties(e)
  ELSE IF l = "signals" THEN Class[e].signals ELSE Class[e].actions

\* The lists hold nothing but what the element's class has.
ListsSound(lists) ==
  /\ lists = [e \in DOMAIN lists |-> lists[e]] /\ DOMAIN lists \subseteq DOMAIN Class
  /\ \A e \in DOMAIN lists :
       /\ lists[e] = [l \in Three |-> lists[e][l]]
       /\ \A l \in Three :
            /\ IsSeq(lists[e][l])
            /\ \A i \in DOMAIN lists[e][l] : Has(Source(e, l), lists[e][l][i])
ElementsSound(elements, E) == IsSeq(elements) /\ \A i \in DOMAIN elements : elements[i] \in E

\* Every property of the elements and of the objects below them has a value.
ValsSound(vals, E) ==
  /\ vals = [o \in DOMAIN vals |-> vals[o]]
  /\ \A o \in DOMAIN vals :
       /\ vals[o] = [p \in DOMAIN vals[o] |-> vals[o][p]]
       /\ \A p \in DOMAIN vals[o] : IsSeq(vals[o][p])
  /\ \A e \in E : \A i \in DOMAIN fill_properties(e) :
       LET entry == fill_properties(e)[i]
       IN entry.target \in DOMAIN vals /\ entry.pspec.name \in DOMAIN vals[entry.target]

\* What is kept of a pipeline.
IsPipe(r) ==
  /\ r = [x \in Fields |-> r[x]]
  /\ r.goal \in States /\ r.cur \in States
  /\ ListsSound(r.lists) /\ ElementsSound(r.elements, DOMAIN r.lists) /\ ValsSound(r.vals, DOMAIN r.lists)

\* The listed ids are those of pipelines with names of their own.
Sound(w) ==
  /\ w = [pipes |-> w.pipes, inst |-> w.inst, debug |-> w.debug]
  /\ IsSeq(w.pipes) /\ IsSeq(w.inst)
  /\ \A id \in DOMAIN w.inst : IsPipe(w.inst[id])
  /\ \A i \in DOMAIN w.pipes : w.pipes[i] \in DOMAIN w.inst
  /\ \A i, j \in DOMAIN w.pipes : w.inst[w.pipes[i]].name = w.inst[w.pipes[j]].name => i = j

\* A pipeline keeps its name and its elements' lists, and is there for good, listed or not:
\* a node that a request holds does not become a dangling one.
Kept(r, q) == q.name = r.name /\ DOMAIN q.lists = DOMAIN r.lists
Later(w, v) ==
  \A id \in DOMAIN w.inst : id \in DOMAIN v.inst /\ DOMAIN v.inst[id].lists = DOMAIN w.inst[id].lists
Becomes(w, v) == Sound(v) /\ Later(w, v)

LEMMA InstPipe ==
  ASSUME NEW w, Sound(w), NEW id \in DOMAIN w.inst
  PROVE  IsPipe(w.inst[id])
BY Zenon DEF Sound

LEMMA PipeParts ==
  ASSUME NEW r, IsPipe(r)
  PROVE  /\ r = [x \in Fields |-> r[x]]
         /\ r.goal \in States /\ r.cur \in States
         /\ ListsSound(r.lists) /\ ElementsSound(r.elements, DOMAIN r.lists)
         /\ ValsSound(r.vals, DOMAIN r.lists)
BY Zenon DEF IsPipe

\* A field of a pipeline is written.
LEMMA FieldPut ==
  ASSUME NEW q, q = [x \in Fields |-> q[x]], NEW f \in Fields, NEW v
  PROVE  /\ [q EXCEPT ![f] = v] = [x \in Fields |-> [q EXCEPT ![f] = v][x]]
         /\ [q EXCEPT ![f] = v][f] = v
         /\ \A x \in Fields \ {f} : [q EXCEPT ![f] = v][x] = q[x]
OBVIOUS

LEMMA ValsShape ==
  ASSUME NEW vals, NEW E, ValsSound(vals, E)
  PROVE  /\ vals = [k \in DOMAIN vals |-> vals[k]]
         /\ \A k \in DOMAIN vals : vals[k] = [j \in DOMAIN vals[k] |-> vals[k][j]]
         /\ \A k \in DOMAIN vals : \A j \in DOMAIN vals[k] : IsSeq(vals[k][j])
BY Zenon DEF ValsSound

LEMMA Same ==
  ASSUME NEW w, Sound(w)
  PROVE  Becomes(w, w)
BY DEF Becomes, Later

LEMMA Twice ==
  ASSUME NEW w, NEW v, Becomes(w, v), NEW u, Becomes(v, u)
  PROVE  Becomes(w, u)
BY DEF Becomes, Later

\* A pipeline changes, and keeps its name and what it has lists of.
LEMMA Changed ==
  ASSUME NEW w, Sound(w), NEW id, NEW r,
         id \in DOMAIN w.inst => IsPipe(r) /\ Kept(w.inst[id], r)
  PROVE  Becomes(w, [w EXCEPT !.inst[id] = r])
<1> DEFINE v == [w EXCEPT !.inst[id] = r]
<1>1. /\ v = [pipes |-> v.pipes, inst |-> v.inst, debug |-> v.debug]
      /\ v.pipes = w.pipes /\ v.inst = [w.inst EXCEPT ![id] = r]
  BY DEF Sound
<1> HIDE DEF v
<1>2. IsSeq(v.inst)
  <2>1. Len(w.inst) \in Nat /\ DOMAIN w.inst = 1 .. Len(w.inst)
    BY SeqDomain DEF Sound
  <2>2. v.inst = [i \in 1 .. Len(w.inst) |-> v.inst[i]]
    BY <1>1, <2>1
  <2> QED
    BY <2>1, <2>2, SeqIntro
<1>3. DOMAIN v.inst = DOMAIN w.inst
  BY <1>1
<1>4. \A k \in DOMAIN v.inst : IsPipe(v.inst[k]) /\ Kept(w.inst[k], v.inst[k])
  BY <1>1, <1>3 DEF Sound, Kept
<1>5. Sound(v)
  BY <1>1, <1>2, <1>3, <1>4 DEF Sound, Kept
<1>6. Later(w, v)
  BY <1>3, <1>4 DEF Later, Kept
<1> QED
  BY <1>5, <1>6 DEF Becomes, v

-----------------------------------------------------------------------------
(* The operations keep the world sound and return one of the daemon's codes. *)

Fair(w, d) == d.code \in Codes /\ Becomes(w, d.w)

LEMMA FairDone ==
  ASSUME NEW code \in Codes, NEW w, NEW v, Becomes(w, v)
  PROVE  Fair(w, Done(code, v))
BY DEF Fair, Done

LEMMA FairEok ==
  ASSUME NEW w, NEW v, Becomes(w, v)
  PROVE  Fair(w, Done("EOK", v))
BY FairDone DEF Codes

LEMMA FairSame ==
  ASSUME NEW code \in Codes, NEW w, Sound(w)
  PROVE  Fair(w, Done(code, w))
BY Same, FairDone

\* A field that nothing is said of is written.
Loose == {"verbose", "timeout", "types", "sigtimes"}
LEMMA FieldWritten ==
  ASSUME NEW r, IsPipe(r), NEW f \in Loose,
         NEW q, q = [x \in Fields |-> q[x]], \A x \in Fields \ {f} : q[x] = r[x]
  PROVE  IsPipe(q) /\ Kept(r, q)
<1>1. /\ q.name = r.name /\ q.goal = r.goal /\ q.cur = r.cur /\ q.lists = r.lists
      /\ q.elements = r.elements /\ q.vals = r.vals
  BY DEF Fields, Loose
<1> QED
  BY <1>1 DEF IsPipe, Kept

LEMMA StateUpdateFair ==
  ASSUME NEW w, Sound(w), NEW id, NEW text, NEW env, env.part \in States \cup {"same"}
  PROVE  Fair(w, state_update(w, id, text, env))
<1> DEFINE s == state_enum(text)
<1>1. s = "none" \/ s \in States
  BY DEF state_enum, States, Upper
<1>2. CASE s = "none"
  BY <1>2, FairSame DEF state_update, Codes
<1>3. CASE s # "none"
  <2> DEFINE r == set_state(w.inst[id], s, env)
  <2>1. ASSUME id \in DOMAIN w.inst
        PROVE  IsPipe(r) /\ Kept(w.inst[id], r)
    <3>1. IsPipe(w.inst[id])
      BY <2>1, InstPipe
    <3>2. /\ r = [x \in Fields |-> r[x]] /\ r.goal \in States /\ r.cur \in States
          /\ \A x \in Fields \ {"goal", "cur"} : r[x] = w.inst[id][x]
      BY <1>1, <1>3, <3>1, PipeParts DEF set_state, Fields, States
    <3> HIDE DEF r
    <3>3. /\ r.name = w.inst[id].name /\ r.lists = w.inst[id].lists
          /\ r.elements = w.inst[id].elements /\ r.vals = w.inst[id].vals
      BY <3>2 DEF Fields
    <3> QED
      BY <3>1, <3>2, <3>3 DEF IsPipe, Kept
  <2> HIDE DEF r
  <2>2. Becomes(w, [w EXCEPT !.inst[id] = r])
    BY <2>1, Changed
  <2>3. state_update(w, id, text, env) =
          Done(IF env.ok THEN "EOK" ELSE "STATE_ERROR", [w EXCEPT !.inst[id] = r])
    BY <1>3 DEF state_update, r
  <2> QED
    BY <2>2, <2>3, FairDone DEF Codes
<1> QED
  BY <1>2, <1>3

LEMMA SetTargetSound ==
  ASSUME NEW w, Sound(w), NEW n, NEW text, IsSeq(text)
  PROVE  Becomes(w, SetTarget(w, n, text))
<1> DEFINE e == Entry(n)
           r == [w.inst[n.id] EXCEPT !.vals[e.target][e.pspec.name] = text]
<1>1. ASSUME n.id \in DOMAIN w.inst
      PROVE  IsPipe(r) /\ Kept(w.inst[n.id], r)
  <2>1. IsPipe(w.inst[n.id])
    BY <1>1, InstPipe
  <2> DEFINE q == w.inst[n.id]
             o == e.target
             p == e.pspec.name
             u == [q.vals EXCEPT ![o][p] = text]
  <2>2. /\ r = [x \in Fields |-> r[x]] /\ r.vals = u
        /\ \A x \in Fields \ {"vals"} : r[x] = q[x]
    <3>1. r = [q EXCEPT !.vals = u]
      BY ONLY Zenon
    <3>2. q = [x \in Fields |-> q[x]]
      BY ONLY <2>1, PipeParts
    <3> HIDE DEF r, q, u
    <3>3. "vals" \in Fields
      BY ONLY DEF Fields
    <3> QED
      BY ONLY <3>1, <3>2, <3>3
  <2>3. /\ q.vals = [k \in DOMAIN q.vals |-> q.vals[k]]
        /\ \A k \in DOMAIN q.vals : q.vals[k] = [j \in DOMAIN q.vals[k] |-> q.vals[k][j]]
        /\ \A k \in DOMAIN q.vals : \A j \in DOMAIN q.vals[k] : IsSeq(q.vals[k][j])
    BY ONLY <2>1, PipeParts, ValsShape
  <2> HIDE DEF r, e, o, p, q
  <2>4. /\ u = [k \in DOMAIN u |-> u[k]] /\ DOMAIN u = DOMAIN q.vals
        /\ \A k \in DOMAIN u : u[k] = [j \in DOMAIN u[k] |-> u[k][j]] /\ DOMAIN u[k] = DOMAIN q.vals[k]
    BY <2>3
  <2>5. \A k \in DOMAIN u : \A j \in DOMAIN u[k] : IsSeq(u[k][j])
    BY <2>3
  <2> HIDE DEF u
  <2>6. ValsSound(u, DOMAIN q.lists)
    <3>1. ValsSound(q.vals, DOMAIN q.lists)
      BY <2>1 DEF IsPipe, q
    <3> QED
      BY <2>4, <2>5, <3>1 DEF ValsSound
  <2>7. /\ r.name = q.name /\ r.goal = q.goal /\ r.cur = q.cur
        /\ r.lists = q.lists /\ r.elements = q.elements
    BY <2>2 DEF Fields
  <2>8. IsPipe(q)
    BY ONLY <2>1 DEF q
  <2>9. IsPipe(r) /\ Kept(q, r)
    BY ONLY <2>2, <2>6, <2>7, <2>8, PipeParts DEF IsPipe, Kept
  <2> QED
    BY ONLY <2>9 DEF q
<1> DEFINE v == [w EXCEPT !.inst[n.id] = r]
<1>2. SetTarget(w, n, text) = IF e.pspec.write THEN v ELSE w
  BY DEF SetTarget
<1> HIDE DEF e, r
<1>3. Becomes(w, v)
  BY <1>1, Changed
<1>4. Becomes(w, w)
  BY Same
<1> HIDE DEF v
<1> QED
  BY ONLY <1>2, <1>3, <1>4

LEMMA SetPropertySound ==
  ASSUME NEW w, Sound(w), NEW n, NEW p, NEW text
  PROVE  Becomes(w, set_property(w, n, p, text))
<1>1. CASE n.kind = "debug"
  <2> DEFINE v == [w EXCEPT !.debug = debug_set_property(w.debug, p, text)]
  <2>1. set_property(w, n, p, text) = v
    BY <1>1 DEF set_property
  <2>2. v = [pipes |-> v.pipes, inst |-> v.inst, debug |-> v.debug] /\ v.pipes = w.pipes /\ v.inst = w.inst
    BY DEF Sound
  <2> HIDE DEF v
  <2> QED
    BY <2>1, <2>2 DEF Sound, Becomes, Later
<1>2. CASE n.kind = "pipeline"
  <2>1. set_property(w, n, p, text) = [w EXCEPT !.inst[n.id] = pipeline_set_property(w.inst[n.id], text)]
    BY <1>2 DEF set_property
  <2> DEFINE r == pipeline_set_property(w.inst[n.id], text)
             f == "verbose"
  <2>2. ASSUME n.id \in DOMAIN w.inst
        PROVE  IsPipe(r) /\ Kept(w.inst[n.id], r)
    <3>1. IsPipe(w.inst[n.id])
      BY <2>2, InstPipe
    <3>2. r = [x \in Fields |-> r[x]] /\ \A x \in Fields \ {f} : r[x] = w.inst[n.id][x]
      BY ONLY <3>1, PipeParts, FieldPut DEF pipeline_set_property, Fields
    <3>3. f \in Loose
      BY DEF Loose
    <3> HIDE DEF r, f
    <3> QED
      BY <3>1, <3>2, <3>3, FieldWritten
  <2> HIDE DEF r
  <2>3. Becomes(w, [w EXCEPT !.inst[n.id] = r])
    BY <2>2, Changed
  <2> QED
    BY <2>1, <2>3 DEF r
<1>3. CASE n.kind = "bus"
  <2>1. set_property(w, n, p, text) = [w EXCEPT !.inst[n.id] = bus_set_property(w.inst[n.id], p, text)]
    BY <1>3 DEF set_property
  <2> DEFINE r == bus_set_property(w.inst[n.id], p, text)
             f == IF p = "timeout" THEN "timeout" ELSE "types"
  <2>2. ASSUME n.id \in DOMAIN w.inst
        PROVE  IsPipe(r) /\ Kept(w.inst[n.id], r)
    <3>1. IsPipe(w.inst[n.id])
      BY <2>2, InstPipe
    <3>2. r = [x \in Fields |-> r[x]] /\ \A x \in Fields \ {f} : r[x] = w.inst[n.id][x]
      BY <3>1, PipeParts DEF bus_set_property
    <3>3. f \in Loose
      BY DEF Loose
    <3> HIDE DEF r, f
    <3> QED
      BY <3>1, <3>2, <3>3, FieldWritten
  <2> HIDE DEF r
  <2>3. Becomes(w, [w EXCEPT !.inst[n.id] = r])
    BY <2>2, Changed
  <2> QED
    BY <2>1, <2>3 DEF r
<1>4. CASE n.kind = "signal"
  <2>1. set_property(w, n, p, text) = [w EXCEPT !.inst[n.id] = signal_set_property(w.inst[n.id], n, text)]
    BY <1>4 DEF set_property
  <2> DEFINE r == signal_set_property(w.inst[n.id], n, text)
             f == "sigtimes"
  <2>2. ASSUME n.id \in DOMAIN w.inst
        PROVE  IsPipe(r) /\ Kept(w.inst[n.id], r)
    <3>1. IsPipe(w.inst[n.id])
      BY <2>2, InstPipe
    <3> DEFINE q == w.inst[n.id]
               u == [q.sigtimes EXCEPT ![n.elem][n.name] = text]
    <3>4. r = [q EXCEPT !.sigtimes = u]
      BY ONLY Zenon DEF signal_set_property
    <3>2. r = [x \in Fields |-> r[x]] /\ \A x \in Fields \ {f} : r[x] = w.inst[n.id][x]
      <4>1. q = [x \in Fields |-> q[x]] /\ f \in Fields
        BY ONLY <3>1, PipeParts DEF Fields
      <4> HIDE DEF r, q, u
      <4>2. r = [x \in Fields |-> r[x]] /\ \A x \in Fields \ {f} : r[x] = q[x]
        BY ONLY <3>4, <4>1
      <4> QED
        BY ONLY <4>2 DEF q
    <3>3. f \in Loose
      BY DEF Loose
    <3> HIDE DEF r, f
    <3> QED
      BY <3>1, <3>2, <3>3, FieldWritten
  <2> HIDE DEF r
  <2>3. Becomes(w, [w EXCEPT !.inst[n.id] = r])
    BY <2>2, Changed
  <2> QED
    BY <2>1, <2>3 DEF r
<1> QED
  BY <1>1, <1>2, <1>3, <1>4, Same DEF set_property

LEMMA Deserialized ==
  ASSUME NEW type, NEW text, IsSeq(text)
  PROVE  IsSeq(deserialize(type, text))
BY SeqTuple DEF deserialize

LEMMA UpdateFair ==
  ASSUME NEW w, Sound(w), NEW n, NEW text, IsSeq(text), NEW env, env.part \in States \cup {"same"}
  PROVE  Fair(w, object_update(w, n, text, env))
<1>1. Fair(w, property_array_update(w, n, text))
  <2> DEFINE t == [i \in DOMAIN text |-> ascii_to_double(text[i])]
  <2>1. IsSeq(t)
    <3>1. Len(text) \in Nat /\ DOMAIN text = 1 .. Len(text)
      BY SeqDomain
    <3>2. t = [i \in 1 .. Len(text) |-> t[i]]
      BY <3>1
    <3> HIDE DEF t
    <3> QED
      BY <3>1, <3>2, SeqIntro
  <2>2. property_array_update(w, n, text) =
          IF ~Has(Class[Entry(n).target].props, n.name) THEN Done("MISSING_INITIALIZATION", w)
          ELSE Done("EOK", SetTarget(w, n, t))
    BY DEF property_array_update
  <2> HIDE DEF t
  <2>3. Fair(w, Done("EOK", SetTarget(w, n, t)))
    BY <2>1, SetTargetSound, FairDone DEF Codes
  <2> QED
    BY <2>2, <2>3, FairSame DEF Codes
<1>2. Fair(w, property_update(w, n, text))
  <2> DEFINE t == deserialize(Entry(n).pspec.type, text)
  <2>1. IsSeq(t)
    BY Deserialized
  <2>2. property_update(w, n, text) =
          IF element_property_get_type(Entry(n).pspec.type) = "array" THEN property_array_update(w, n, text)
          ELSE IF t = <<>> THEN Done("BAD_VALUE", w)
          ELSE Done("EOK", SetTarget(w, n, t))
    BY DEF property_update
  <2> HIDE DEF t
  <2>3. Fair(w, Done("EOK", SetTarget(w, n, t)))
    BY <2>1, SetTargetSound, FairDone DEF Codes
  <2> QED
    BY <1>1, <2>2, <2>3, FairSame DEF Codes
<1>3. Fair(w, value_update(w, n, text))
  <2> DEFINE pspec == Get(Props(n.of.kind), n.name)
             t == deserialize(pspec.type, text)
             v == IF pspec.write THEN set_property(w, n.of, n.name, t) ELSE w
  <2>1. Becomes(w, v)
    <3> HIDE DEF pspec, t
    <3> QED
      BY SetPropertySound, Same
  <2>2. value_update(w, n, text) = IF t = <<>> THEN Done("BAD_VALUE", w) ELSE Done("EOK", v)
    BY DEF value_update
  <2> HIDE DEF pspec, t, v
  <2> QED
    BY <2>1, <2>2, FairDone, FairSame DEF Codes
<1> QED
  BY <1>2, <1>3, StateUpdateFair, FairSame DEF object_update, property_int_update, Codes

LEMMA BothWritten ==
  ASSUME NEW w, w = [pipes |-> w.pipes, inst |-> w.inst, debug |-> w.debug],
         NEW a, NEW b, NEW v, v = [w EXCEPT !.inst = a, !.pipes = b]
  PROVE  v = [pipes |-> v.pipes, inst |-> v.inst, debug |-> v.debug] /\ v.pipes = b /\ v.inst = a
OBVIOUS

LEMMA Appended ==
  ASSUME NEW w, Sound(w), NEW r, IsPipe(r),
         \A i \in DOMAIN w.pipes : w.inst[w.pipes[i]].name # r.name
  PROVE  Becomes(w, [w EXCEPT !.inst = Append(@, r), !.pipes = Append(@, Len(w.inst) + 1)])
<1> DEFINE k == Len(w.inst) + 1
           a == Append(w.inst, r)
           b == Append(w.pipes, k)
           v == [w EXCEPT !.inst = a, !.pipes = b]
<1>0. v = [w EXCEPT !.inst = a, !.pipes = b]
  OBVIOUS
<1>1. /\ v = [pipes |-> v.pipes, inst |-> v.inst, debug |-> v.debug]
      /\ v.pipes = Append(w.pipes, k) /\ v.inst = Append(w.inst, r)
  <2>1. w = [pipes |-> w.pipes, inst |-> w.inst, debug |-> w.debug]
    BY DEF Sound
  <2> HIDE DEF a, b, v
  <2>2. v = [pipes |-> v.pipes, inst |-> v.inst, debug |-> v.debug] /\ v.pipes = b /\ v.inst = a
    BY <1>0, <2>1, BothWritten
  <2> QED
    BY <2>2 DEF a, b
<1> HIDE DEF v
<1>2. IsSeq(w.inst) /\ IsSeq(w.pipes)
  BY DEF Sound
<1>3. Len(w.inst) \in Nat /\ DOMAIN w.inst = 1 .. Len(w.inst)
  BY <1>2, SeqDomain
<1>4. Len(w.pipes) \in Nat /\ DOMAIN w.pipes = 1 .. Len(w.pipes)
  BY <1>2, SeqDomain
<1>5. /\ IsSeq(v.inst) /\ DOMAIN v.inst = 1 .. k /\ v.inst[k] = r
      /\ \A i \in 1 .. Len(w.inst) : v.inst[i] = w.inst[i]
  BY <1>1, <1>2, SeqAppend
<1> DEFINE l == Len(w.pipes) + 1
<1>6. /\ IsSeq(v.pipes) /\ DOMAIN v.pipes = 1 .. l /\ v.pipes[l] = k
      /\ \A i \in 1 .. Len(w.pipes) : v.pipes[i] = w.pipes[i]
  BY <1>1, <1>2, SeqAppend
<1>7. \A id \in DOMAIN v.inst : IsPipe(v.inst[id])
  BY <1>3, <1>5 DEF Sound
<1>8. \A i \in 1 .. Len(w.pipes) : w.pipes[i] \in 1 .. Len(w.inst)
  BY <1>3, <1>4 DEF Sound
<1>9. \A i \in DOMAIN v.pipes : v.pipes[i] \in DOMAIN v.inst
  <2> TAKE i \in DOMAIN v.pipes
  <2>1. CASE i = l
    BY <1>3, <1>5, <1>6, <2>1
  <2>2. CASE i # l
    <3>1. i \in 1 .. Len(w.pipes)
      BY <1>4, <1>6, <2>2
    <3>2. v.pipes[i] \in 1 .. Len(w.inst)
      BY <1>6, <1>8, <3>1
    <3> QED
      BY <1>3, <1>5, <3>2
  <2> QED
    BY <2>1, <2>2
<1>10. \A i \in 1 .. Len(w.pipes) :
         v.inst[v.pipes[i]] = w.inst[w.pipes[i]] /\ v.inst[v.pipes[i]].name # r.name
  BY <1>4, <1>5, <1>6, <1>8
<1>11. ASSUME NEW i \in DOMAIN v.pipes, NEW j \in DOMAIN v.pipes,
              v.inst[v.pipes[i]].name = v.inst[v.pipes[j]].name
       PROVE  i = j
  <2>1. v.inst[v.pipes[l]] = r
    BY <1>5, <1>6
  <2>2. (i = l \/ i \in 1 .. Len(w.pipes)) /\ (j = l \/ j \in 1 .. Len(w.pipes))
    BY <1>4, <1>6
  <2> QED
    BY <1>4, <1>10, <1>11, <2>1, <2>2 DEF Sound
<1>12. Sound(v)
  BY <1>1, <1>5, <1>6, <1>7, <1>9, <1>11 DEF Sound
<1>13. Later(w, v)
  BY <1>3, <1>5 DEF Later
<1> QED
  BY <1>12, <1>13 DEF Becomes, v

\* A new pipeline.
LEMMA Listed ==
  ASSUME NEW desc \in DOMAIN Launch, NEW scan, IsSeq(scan)
  PROVE  /\ IsSeq(Launch[desc]) /\ \A i \in DOMAIN Launch[desc] : Launch[desc][i] \in DOMAIN Class
         /\ ElementsSound(fill_elements(Launch[desc], scan), {Launch[desc][i] : i \in DOMAIN Launch[desc]})
<1>1. IsSeq(Launch[desc]) /\ \A i \in DOMAIN Launch[desc] : Launch[desc][i] \in DOMAIN Class
  BY ResourcesAssumption DEF IsSeq
<1>2. /\ IsSeq(fill_elements(Launch[desc], scan))
      /\ \A i \in DOMAIN fill_elements(Launch[desc], scan) :
           i \in DOMAIN Launch[desc] /\ fill_elements(Launch[desc], scan)[i] = Launch[desc][i]
  BY <1>1, FillElements
<1> QED
  BY <1>1, <1>2 DEF ElementsSound

LEMMA NamesListed ==
  ASSUME NEW s, IsSeq(s)
  PROVE  IsSeq(NamesOf(s)) /\ \A i \in DOMAIN NamesOf(s) : Has(s, NamesOf(s)[i])
<1> DEFINE t == NamesOf(s)
<1>1. Len(s) \in Nat /\ DOMAIN s = 1 .. Len(s)
  BY SeqDomain
<1>2. t = [i \in 1 .. Len(s) |-> t[i]] /\ \A i \in DOMAIN s : t[i] = s[i].name
  BY <1>1 DEF NamesOf
<1>3. DOMAIN t = DOMAIN s
  BY <1>1, <1>2
<1> HIDE DEF t
<1>4. IsSeq(t)
  BY <1>1, <1>2, SeqIntro
<1>5. \A i \in DOMAIN t : Has(s, t[i])
  BY <1>2, <1>3 DEF Has
<1> QED
  BY <1>4, <1>5 DEF t

LEMMA ListsFilled ==
  ASSUME NEW E, E \subseteq DOMAIN Class, NEW lists, lists = [e \in E |-> Lists(e)]
  PROVE  ListsSound(lists)
<1>1. ASSUME NEW e \in E
      PROVE  /\ Lists(e) = [l \in Three |-> Lists(e)[l]]
             /\ \A l \in Three : /\ IsSeq(Lists(e)[l])
                                 /\ \A i \in DOMAIN Lists(e)[l] : Has(Source(e, l), Lists(e)[l][i])
  <2>1. IsSeq(fill_properties(e)) /\ IsSeq(Class[e].signals) /\ IsSeq(Class[e].actions)
    BY FillEntries, ClassSeqs DEF Entries
  <2>2. Lists(e) = [l \in Three |-> NamesOf(Source(e, l))]
    BY DEF Lists, Source, Three
  <2>3. \A l \in Three : IsSeq(Source(e, l))
    BY <2>1 DEF Source
  <2> QED
    BY <2>2, <2>3, NamesListed
<1> QED
  BY <1>1 DEF ListsSound

LEMMA FirstHas ==
  ASSUME NEW s, NEW name, Has(s, name)
  PROVE  \E i \in DOMAIN s : Get(s, name) = s[i] /\ s[i].name = name
<1> DEFINE i == CHOOSE i \in DOMAIN s : s[i].name = name
<1>1. \E k \in DOMAIN s : s[k].name = name
  BY DEF Has
<1>2. i \in DOMAIN s /\ s[i].name = name
  BY <1>1
<1>3. Get(s, name) = s[i]
  BY DEF Get
<1> QED
  BY <1>2, <1>3

LEMMA ValsFilled ==
  ASSUME NEW E, E \subseteq DOMAIN Class, NEW vals,
         vals = [o \in UNION {{fill_properties(e)[i].target : i \in DOMAIN fill_properties(e)} : e \in E} |->
                   [p \in {Class[o].props[i].name : i \in DOMAIN Class[o].props} |->
                      Get(Class[o].props, p).default]]
  PROVE  ValsSound(vals, E)
<1> DEFINE O == UNION {{fill_properties(e)[i].target : i \in DOMAIN fill_properties(e)} : e \in E}
           N(o) == {Class[o].props[i].name : i \in DOMAIN Class[o].props}
<1>1. \A e \in E : \A i \in DOMAIN fill_properties(e) : IsEntry(fill_properties(e)[i])
  BY FillEntries DEF Entries
<1>2. O \subseteq DOMAIN Class
  BY <1>1 DEF IsEntry
<1>3. ASSUME NEW o \in O, NEW p \in N(o) PROVE IsSeq(Get(Class[o].props, p).default)
  <2> DEFINE s == Class[o].props
  <2>1. s \in Seq(Pspecs)
    BY <1>2, ResourcesAssumption
  <2>2. Has(s, p)
    BY DEF Has
  <2> HIDE DEF s
  <2>3. PICK i \in DOMAIN s : Get(s, p) = s[i]
    BY <2>2, FirstHas
  <2>4. s[i] \in Pspecs
    <3> HIDE DEF Pspecs
    <3> QED
      BY <2>1
  <2> QED
    BY <2>3, <2>4 DEF Pspecs, IsSeq, s
<1>4. ASSUME NEW e \in E, NEW i \in DOMAIN fill_properties(e)
      PROVE  LET entry == fill_properties(e)[i] IN entry.target \in O /\ entry.pspec.name \in N(entry.target)
  <2> DEFINE entry == fill_properties(e)[i]
  <2>1. IsEntry(entry)
    BY <1>1
  <2>2. entry.target \in O
    OBVIOUS
  <2> HIDE DEF entry
  <2> QED
    BY <2>1, <2>2 DEF IsEntry, entry
<1> HIDE DEF O
<1>5. /\ DOMAIN vals = O /\ vals = [o \in O |-> vals[o]]
      /\ \A o \in O : vals[o] = [p \in N(o) |-> vals[o][p]] /\ DOMAIN vals[o] = N(o)
      /\ \A o \in O : \A p \in N(o) : vals[o][p] = Get(Class[o].props, p).default
  BY DEF O
<1> HIDE DEF N
<1>6. vals = [o \in DOMAIN vals |-> vals[o]]
  BY ONLY <1>5
<1>7. ASSUME NEW o \in DOMAIN vals
      PROVE  /\ vals[o] = [p \in DOMAIN vals[o] |-> vals[o][p]]
             /\ \A p \in DOMAIN vals[o] : IsSeq(vals[o][p])
  <2>1. o \in O
    BY ONLY <1>5, <1>7
  <2>2. vals[o] = [p \in N(o) |-> vals[o][p]] /\ DOMAIN vals[o] = N(o)
    BY ONLY <1>5, <2>1
  <2>3. \A p \in N(o) : IsSeq(vals[o][p])
    BY ONLY <1>3, <1>5, <2>1
  <2> QED
    BY ONLY <2>2, <2>3
<1>8. \A e \in E : \A i \in DOMAIN fill_properties(e) :
        LET entry == fill_properties(e)[i]
        IN entry.target \in DOMAIN vals /\ entry.pspec.name \in DOMAIN vals[entry.target]
  BY ONLY <1>4, <1>5
<1> QED
  BY ONLY <1>6, <1>7, <1>8 DEF ValsSound

LEMMA PipelineSound ==
  ASSUME NEW name, NEW desc \in DOMAIN Launch, NEW names,
         ElementsSound(names, {Launch[desc][i] : i \in DOMAIN Launch[desc]})
  PROVE  IsPipe(pipeline_init(name, desc, names)) /\ pipeline_init(name, desc, names).name = name
<1> DEFINE r == pipeline_init(name, desc, names)
           E == {Launch[desc][i] : i \in DOMAIN Launch[desc]}
<1>1. /\ r = [x \in Fields |-> r[x]] /\ r.name = name /\ r.goal = "null" /\ r.cur = "null"
      /\ r.elements = names /\ r.lists = [e \in E |-> Lists(e)]
      /\ r.vals = [o \in UNION {{fill_properties(e)[i].target : i \in DOMAIN fill_properties(e)} : e \in E} |->
                     [p \in {Class[o].props[i].name : i \in DOMAIN Class[o].props} |->
                        Get(Class[o].props, p).default]]
  BY DEF pipeline_init, Fields
<1>2. E \subseteq DOMAIN Class
  BY ResourcesAssumption
<1> HIDE DEF r, E
<1>3. ListsSound(r.lists) /\ DOMAIN r.lists = E
  BY <1>1, <1>2, ListsFilled
<1>4. ValsSound(r.vals, E)
  BY <1>1, <1>2, ValsFilled
<1>5. ElementsSound(r.elements, E)
  BY <1>1 DEF E
<1>6. r = [x \in Fields |-> r[x]] /\ r.name = name /\ r.goal = "null" /\ r.cur = "null"
  BY ONLY <1>1
<1>7. IsPipe(r) /\ r.name = name
  BY ONLY <1>3, <1>4, <1>5, <1>6 DEF IsPipe, States
<1> QED
  BY ONLY <1>7, Zenon DEF r

LEMMA ListCreateFair ==
  ASSUME NEW w, Sound(w), NEW n, NEW name, NEW desc, NEW env, IsSeq(env.scan)
  PROVE  Fair(w, list_create(w, n, name, desc, env))
<1> DEFINE built == pipeline_creator_create(name, desc, env)
<1>1. \/ built.code \in {"MISSING_NAME", "MISSING_ARGUMENT", "BAD_DESCRIPTION"}
      \/ /\ built.code = "EOK" /\ desc \in DOMAIN Launch
         /\ built.inst = pipeline_init(name[1], desc, fill_elements(Launch[desc], env.scan))
  BY DEF pipeline_creator_create, pipeline_create
<1>2. CASE n.name # "pipelines"
  BY <1>2, FairSame DEF list_create, Codes
<1>3. CASE n.name = "pipelines" /\ built.code # "EOK"
  BY <1>1, <1>3, FairSame DEF list_create, Codes
<1>4. CASE n.name = "pipelines" /\ built.code = "EOK"
  <2> DEFINE r == built.inst
  <2>1. IsPipe(r) /\ r.name = name[1]
    <3> DEFINE names == fill_elements(Launch[desc], env.scan)
    <3>1. desc \in DOMAIN Launch /\ r = pipeline_init(name[1], desc, names)
      BY <1>1, <1>4
    <3>2. ElementsSound(names, {Launch[desc][i] : i \in DOMAIN Launch[desc]})
      BY <3>1, Listed
    <3> HIDE DEF names, r
    <3> QED
      BY <3>1, <3>2, PipelineSound
  <2>2. list_create(w, n, name, desc, env) = append_child(w, name[1], r)
    BY <1>4 DEF list_create
  <2> HIDE DEF r, built
  <2>3. CASE \E i \in DOMAIN w.pipes : w.inst[w.pipes[i]].name = name[1]
    BY <2>2, <2>3, FairSame DEF append_child, Codes
  <2>4. CASE ~ \E i \in DOMAIN w.pipes : w.inst[w.pipes[i]].name = name[1]
    <3> DEFINE v == [w EXCEPT !.inst = Append(@, r), !.pipes = Append(@, Len(w.inst) + 1)]
    <3>1. Becomes(w, v)
      BY <2>1, <2>4, Appended
    <3>2. append_child(w, name[1], r) = Done("EOK", v)
      BY ONLY <2>4 DEF append_child
    <3> HIDE DEF v
    <3> QED
      BY ONLY <2>2, <3>1, <3>2, FairEok, Zenon
  <2> QED
    BY <2>3, <2>4
<1> QED
  BY <1>2, <1>3, <1>4

LEMMA CreateFair ==
  ASSUME NEW w, Sound(w), NEW n, NEW name, NEW desc, NEW env, IsSeq(env.scan)
  PROVE  Fair(w, object_create(w, n, name, desc, env))
<1>1. event_creator_create(name, desc, env) \in Codes
  BY DEF event_creator_create, send_event, Codes
<1>2. action_create(n, name, desc) \in Codes
  BY DEF action_create, Codes
<1> QED
  BY <1>1, <1>2, ListCreateFair, FairSame DEF object_create, Codes

\* A listed pipeline leaves the list.
LEMMA Unlisted ==
  ASSUME NEW w, Sound(w), NEW i \in DOMAIN w.pipes
  PROVE  Becomes(w, [w EXCEPT !.pipes = RemoveAt(@, i)])
<1> DEFINE v == [w EXCEPT !.pipes = RemoveAt(@, i)]
<1>1. /\ v = [pipes |-> v.pipes, inst |-> v.inst, debug |-> v.debug]
      /\ v.pipes = RemoveAt(w.pipes, i) /\ v.inst = w.inst
  BY DEF Sound
<1> HIDE DEF v
<1>2. IsSeq(w.pipes) /\ Len(w.pipes) \in Nat /\ DOMAIN w.pipes = 1 .. Len(w.pipes)
  BY SeqDomain DEF Sound
<1> DEFINE At(j) == IF j < i THEN j ELSE j + 1
<1>3. /\ IsSeq(v.pipes) /\ DOMAIN v.pipes = 1 .. Len(w.pipes) - 1
      /\ \A j \in DOMAIN v.pipes : v.pipes[j] = w.pipes[At(j)]
  BY <1>1, <1>2, SeqRemove
<1>4. /\ \A j \in DOMAIN v.pipes : At(j) \in DOMAIN w.pipes
      /\ \A j, k \in DOMAIN v.pipes : At(j) = At(k) => j = k
  BY <1>2, <1>3
<1> HIDE DEF At
<1>5. Sound(v)
  BY <1>1, <1>3, <1>4 DEF Sound
<1>6. Later(w, v)
  BY <1>1 DEF Later
<1> QED
  BY <1>5, <1>6 DEF Becomes, v

\* Where a name is found.
LEMMA FoundAt ==
  ASSUME NEW w, NEW n, NEW name, IsSeq(List(w, n)), find_node(w, n, name) # 0
  PROVE  find_node(w, n, name) \in DOMAIN List(w, n) /\ List(w, n)[find_node(w, n, name)] = name
<1> DEFINE s == List(w, n)
           i == find_node(w, n, name)
           at == {k \in DOMAIN s : s[k] = name}
<1>1. at # {} /\ i = CHOOSE k \in at : \A m \in at : k <= m
  BY DEF find_node
<1>2. DOMAIN s \subseteq Nat
  BY SeqDomain
<1>3. \E k \in at : \A m \in at : k <= m
  <2>1. at \subseteq Nat
    BY <1>2
  <2> HIDE DEF at
  <2> QED
    BY <1>1, <2>1, Least
<1>4. i \in at
  <2> HIDE DEF at, i
  <2> QED
    BY <1>1, <1>3
<1> QED
  BY <1>4

LEMMA SeqShrunk ==
  ASSUME NEW s, IsSeq(s), NEW i \in DOMAIN s
  PROVE  /\ IsSeq(RemoveAt(s, i))
         /\ \A j \in DOMAIN RemoveAt(s, i) : \E k \in DOMAIN s : RemoveAt(s, i)[j] = s[k]
<1> DEFINE t == RemoveAt(s, i)
<1>1. /\ IsSeq(t) /\ DOMAIN t = 1 .. Len(s) - 1
      /\ \A j \in 1 .. Len(s) - 1 : t[j] = IF j < i THEN s[j] ELSE s[j + 1]
  BY SeqRemove
<1>2. Len(s) \in Nat /\ DOMAIN s = 1 .. Len(s)
  BY SeqDomain
<1> HIDE DEF t
<1>3. ASSUME NEW j \in DOMAIN t PROVE \E k \in DOMAIN s : t[j] = s[k]
  <2>1. j \in DOMAIN s /\ j + 1 \in DOMAIN s
    BY <1>1, <1>2
  <2> QED
    BY <1>1, <2>1
<1> QED
  BY <1>1, <1>3 DEF t

\* A name leaves one of the lists of an element.
LEMMA ListShrunk ==
  ASSUME NEW lists, ListsSound(lists), NEW e, NEW l, NEW i,
         e \in DOMAIN lists /\ l \in Three => i \in DOMAIN lists[e][l]
  PROVE  /\ ListsSound([lists EXCEPT ![e][l] = RemoveAt(@, i)])
         /\ DOMAIN [lists EXCEPT ![e][l] = RemoveAt(@, i)] = DOMAIN lists
<1> DEFINE u == [lists EXCEPT ![e][l] = RemoveAt(@, i)]
           t == RemoveAt(lists[e][l], i)
<1>1. /\ u = [k \in DOMAIN lists |-> u[k]] /\ DOMAIN u = DOMAIN lists
      /\ \A k \in DOMAIN lists : u[k] = IF k = e THEN [lists[k] EXCEPT ![l] = t] ELSE lists[k]
  BY DEF ListsSound
<1>2. ASSUME e \in DOMAIN lists, l \in Three
      PROVE  IsSeq(t) /\ \A j \in DOMAIN t : Has(Source(e, l), t[j])
  <2>1. /\ IsSeq(lists[e][l]) /\ i \in DOMAIN lists[e][l]
        /\ \A j \in DOMAIN lists[e][l] : Has(Source(e, l), lists[e][l][j])
    BY <1>2 DEF ListsSound
  <2>2. IsSeq(t) /\ \A j \in DOMAIN t : \E k \in DOMAIN lists[e][l] : t[j] = lists[e][l][k]
    BY <2>1, SeqShrunk
  <2> HIDE DEF t
  <2> QED
    BY <2>1, <2>2
<1> HIDE DEF u, t
<1>3. ASSUME NEW k \in DOMAIN lists
      PROVE  /\ u[k] = [m \in Three |-> u[k][m]]
             /\ \A m \in Three : IsSeq(u[k][m]) /\ \A j \in DOMAIN u[k][m] : Has(Source(k, m), u[k][m][j])
  <2>1. /\ lists[k] = [m \in Three |-> lists[k][m]]
        /\ \A m \in Three : /\ IsSeq(lists[k][m])
                            /\ \A j \in DOMAIN lists[k][m] : Has(Source(k, m), lists[k][m][j])
    BY DEF ListsSound
  <2>2. CASE k # e
    BY <1>1, <2>1, <2>2
  <2>3. CASE k = e
    <3>1. u[k] = [lists[k] EXCEPT ![l] = t]
      BY <1>1, <2>3
    <3>2. /\ u[k] = [m \in Three |-> u[k][m]]
          /\ \A m \in Three : u[k][m] = IF m = l THEN t ELSE lists[k][m]
      BY <2>1, <3>1
    <3> QED
      BY <1>2, <2>1, <2>3, <3>2
  <2> QED
    BY <2>2, <2>3
<1>4. DOMAIN u \subseteq DOMAIN Class
  BY <1>1 DEF ListsSound
<1>5. ListsSound(u)
  BY <1>1, <1>3, <1>4 DEF ListsSound
<1> QED
  BY <1>1, <1>5 DEF u

LEMMA DeleteFair ==
  ASSUME NEW w, Sound(w), NEW n, NEW name, NEW env, env.part \in States \cup {"same"}
  PROVE  Fair(w, list_delete(w, n, name, env))
<1> DEFINE i == find_node(w, n, name)
           done == pipeline_deleter_delete(w, w.pipes[i], env)
<1>1. CASE i = 0
  BY <1>1, FairSame DEF list_delete, Codes
<1>2. CASE i # 0 /\ n.name # "pipelines"
  <2>1. list_delete(w, n, name, env) = Done("EOK", Unlink(w, n, i))
    BY <1>2 DEF list_delete
  <2>2. CASE n.name = "elements"
    <3> DEFINE r == [w.inst[n.id] EXCEPT !.elements = RemoveAt(@, i)]
    <3>1. ASSUME n.id \in DOMAIN w.inst
          PROVE  IsPipe(r) /\ Kept(w.inst[n.id], r)
      <4>1. IsPipe(w.inst[n.id])
        BY <3>1, InstPipe
      <4> DEFINE q == w.inst[n.id]
      <4>2. /\ r = [x \in Fields |-> r[x]] /\ r.elements = RemoveAt(q.elements, i)
            /\ \A x \in Fields \ {"elements"} : r[x] = q[x]
        BY ONLY <4>1, PipeParts, FieldPut DEF Fields
      <4>3. IsSeq(q.elements) /\ List(w, n) = q.elements
        BY <2>2, <4>1 DEF IsPipe, ElementsSound, List, Inst
      <4>4. i \in DOMAIN q.elements
        BY <1>2, <4>3, FoundAt
      <4> HIDE DEF r, i, q
      <4>5. /\ IsSeq(r.elements)
            /\ \A j \in DOMAIN r.elements : \E k \in DOMAIN q.elements : r.elements[j] = q.elements[k]
        BY <4>2, <4>3, <4>4, SeqShrunk
      <4>6. /\ r.name = q.name /\ r.goal = q.goal /\ r.cur = q.cur
            /\ r.lists = q.lists /\ r.vals = q.vals
        <5>1. \A x \in Fields \ {"elements"} : r[x] = q[x]
          BY ONLY <4>2, Zenon
        <5> QED
          BY ONLY <5>1 DEF Fields
      <4>7. ElementsSound(r.elements, DOMAIN r.lists)
        BY <4>1, <4>5, <4>6 DEF IsPipe, ElementsSound, q
      <4> QED
        BY <4>1, <4>2, <4>6, <4>7 DEF IsPipe, Kept, q
    <3> DEFINE v == [w EXCEPT !.inst[n.id] = r]
    <3>2. Unlink(w, n, i) = v
      BY <2>2 DEF Unlink
    <3> HIDE DEF r, i
    <3>3. Becomes(w, v)
      BY <3>1, Changed
    <3> HIDE DEF v
    <3> QED
      BY ONLY <2>1, <3>2, <3>3, FairEok, Zenon
  <2>3. CASE n.name # "elements"
    <3> DEFINE r == [w.inst[n.id] EXCEPT !.lists[n.elem][n.name] = RemoveAt(@, i)]
    <3>1. ASSUME n.id \in DOMAIN w.inst
          PROVE  IsPipe(r) /\ Kept(w.inst[n.id], r)
      <4>1. IsPipe(w.inst[n.id])
        BY <3>1, InstPipe
      <4> DEFINE q == w.inst[n.id]
                 u == [q.lists EXCEPT ![n.elem][n.name] = RemoveAt(@, i)]
      <4>2. /\ r = [x \in Fields |-> r[x]] /\ r.lists = u
            /\ \A x \in Fields \ {"lists"} : r[x] = q[x]
        <5>1. r = [q EXCEPT !.lists = u]
          BY ONLY Zenon
        <5>2. q = [x \in Fields |-> q[x]]
          BY ONLY <4>1, PipeParts
        <5> HIDE DEF r, q, u
        <5>3. "lists" \in Fields
          BY ONLY DEF Fields
        <5> QED
          BY ONLY <5>1, <5>2, <5>3
      <4>3. List(w, n) = q.lists[n.elem][n.name]
        BY <1>2, <2>3 DEF List, Inst
      <4>4. ListsSound(q.lists)
        BY <4>1 DEF IsPipe
      <4>5. ASSUME n.elem \in DOMAIN q.lists, n.name \in Three
            PROVE  i \in DOMAIN q.lists[n.elem][n.name]
        <5> HIDE DEF q
        <5>1. IsSeq(List(w, n))
          BY ONLY <4>3, <4>4, <4>5 DEF ListsSound
        <5> QED
          BY ONLY <1>2, <4>3, <5>1, FoundAt
      <4> HIDE DEF r, i, q
      <4>6. ListsSound(u) /\ DOMAIN u = DOMAIN q.lists
        BY <4>4, <4>5, ListShrunk
      <4> HIDE DEF u
      <4>7. /\ r.name = q.name /\ r.goal = q.goal /\ r.cur = q.cur
            /\ r.elements = q.elements /\ r.vals = q.vals
        <5>1. \A x \in Fields \ {"lists"} : r[x] = q[x]
          BY ONLY <4>2
        <5> QED
          BY ONLY <5>1 DEF Fields
      <4> QED
        BY <4>1, <4>2, <4>6, <4>7 DEF IsPipe, Kept, q
    <3>2. Unlink(w, n, i) = [w EXCEPT !.inst[n.id] = r]
      BY <1>2, <2>3 DEF Unlink
    <3> HIDE DEF r, i
    <3>3. Becomes(w, [w EXCEPT !.inst[n.id] = r])
      BY <3>1, Changed
    <3> QED
      BY <2>1, <3>2, <3>3, FairDone DEF Codes
  <2> QED
    BY <2>2, <2>3
<1>3. CASE i # 0 /\ n.name = "pipelines"
  <2>1. Fair(w, done)
    BY StateUpdateFair DEF pipeline_deleter_delete
  <2>2. done.w.pipes = w.pipes
    BY DEF pipeline_deleter_delete, state_update, Done, Sound
  <2>3. i \in DOMAIN w.pipes
    <3>1. IsSeq(List(w, n)) /\ DOMAIN List(w, n) = DOMAIN w.pipes
      <4>1. Len(w.pipes) \in Nat /\ DOMAIN w.pipes = 1 .. Len(w.pipes)
        BY SeqDomain DEF Sound
      <4>2. List(w, n) = [k \in 1 .. Len(w.pipes) |-> List(w, n)[k]] /\ DOMAIN List(w, n) = DOMAIN w.pipes
        BY <1>3, <4>1 DEF List
      <4> QED
        BY <4>1, <4>2, SeqIntro
    <3> QED
      BY <1>3, <3>1, FoundAt
  <2>4. Unlink(done.w, n, i) = [done.w EXCEPT !.pipes = RemoveAt(@, i)]
    BY <1>3 DEF Unlink
  <2>5. list_delete(w, n, name, env) = IF done.code # "EOK" THEN done ELSE Done("EOK", Unlink(done.w, n, i))
    BY <1>3 DEF list_delete
  <2> HIDE DEF i, done
  <2>6. Becomes(w, Unlink(done.w, n, i))
    <3>1. Sound(done.w) /\ i \in DOMAIN done.w.pipes
      BY <2>1, <2>2, <2>3 DEF Fair, Becomes
    <3>2. Becomes(done.w, Unlink(done.w, n, i))
      BY <2>4, <3>1, Unlisted
    <3> QED
      BY <2>1, <3>2, Twice DEF Fair
  <2> QED
    BY <2>1, <2>5, <2>6, FairDone DEF Codes
<1> QED
  BY <1>1, <1>2, <1>3

LEMMA ObjectDeleteFair ==
  ASSUME NEW w, Sound(w), NEW n, NEW name, NEW env, env.part \in States \cup {"same"}
  PROVE  Fair(w, object_delete(w, n, name, env))
BY DeleteFair, FairSame DEF object_delete, Codes

-----------------------------------------------------------------------------
(* The parser *)

Verbs == {"create", "read", "update", "delete"}

\* A refusal, or a verb with words.
Accepted(raw) ==
  /\ raw.code \in Codes
  /\ raw.code = "EOK" => raw.verb \in Verbs /\ IsSeq(raw.uri) /\ IsSeq(raw.rest)

LEMMA RawAccepted ==
  ASSUME NEW verb \in Verbs, NEW uri, IsSeq(uri), NEW rest, IsSeq(rest)
  PROVE  Accepted(Raw(verb, uri, rest))
BY DEF Accepted, Raw, Codes

LEMMA Checked ==
  ASSUME NEW args, NEW raw, Accepted(raw)
  PROVE  /\ Accepted(NotNull(args, raw)) /\ Accepted(Given(args, raw)) /\ Accepted(Refuse("BAD_COMMAND"))
         /\ \A n : Accepted(check_argument(args, n, raw))
<1>1. Accepted(Refuse("BAD_COMMAND")) /\ Accepted(Refuse("NULL_ARGUMENT"))
  BY DEF Accepted, Refuse, Codes
<1> QED
  BY <1>1 DEF NotNull, Given, check_argument

LEMMA Words ==
  ASSUME NEW args, IsSeq(args)
  PROVE  /\ IsSeq(Tokens(args)) /\ IsSeq(Printed(args))
         /\ \A n \in Nat : IsSeq(After(args, n))
<1>1. IsSeq(Tokens(args)) /\ IsSeq(Printed(args))
  BY SeqTuple DEF Tokens, Printed
<1>2. ASSUME NEW n \in Nat PROVE IsSeq(After(args, n))
  <2>1. PICK S : args \in Seq(S)
    BY DEF IsSeq
  <2>2. CASE n >= Len(args)
    BY <2>2, SeqTuple DEF After
  <2>3. CASE n < Len(args)
    <3>1. SubSeq(args, n + 1, Len(args)) \in Seq(S)
      BY <2>1, <2>3
    <3> QED
      BY <2>1, <2>3, <3>1 DEF After, IsSeq
  <2> QED
    BY <2>1, <2>2, <2>3
<1> QED
  BY <1>1, <1>2

LEMMA Uris ==
  ASSUME NEW p, NEW e, NEW rest, IsSeq(rest)
  PROVE  IsSeq(Pipelines) /\ IsSeq(Pipeline(p, rest)) /\ IsSeq(Element(p, e, rest))
BY SeqTuple, SeqConcat DEF Pipelines, Pipeline, Element

LEMMA ParseAccepted ==
  ASSUME NEW line, IsSeq(line.uri), IsSeq(line.args)
  PROVE  Accepted(parse_cmd(line))
<1> DEFINE args == line.args
           a1 == After(args, 1)
           a3 == After(args, 3)
           cmd == line.cmd
<1>1. IsSeq(args) /\ IsSeq(<<>>)
  BY SeqTuple
<1>2. IsSeq(a1) /\ IsSeq(a3)
  BY <1>1, Words
<1>3. IsSeq(Printed(a1)) /\ IsSeq(Tokens(a3))
  <2> HIDE DEF a1, a3
  <2> QED
    BY <1>2, Words
<1>4. CASE cmd \in {"create", "read", "update", "delete"}
  <2>1. cmd \in Verbs
    BY <1>4 DEF Verbs
  <2>2. parse_cmd(line) = Raw(cmd, line.uri, args)
    BY <1>4 DEF parse_cmd
  <2> HIDE DEF args, cmd
  <2> QED
    BY <1>1, <2>1, <2>2, RawAccepted
<1> HIDE DEF args, cmd
<1>10. {"create", "read", "update", "delete"} \subseteq Verbs
  BY DEF Verbs
<1>11. Accepted(parser_pipeline_create(args)) /\ Accepted(parser_pipeline_delete(args))
  BY <1>1, <1>10, SeqTuple, Uris, RawAccepted, Checked DEF parser_pipeline_create, parser_pipeline_delete
<1>12. Accepted(parser_pipeline_play(args)) /\ Accepted(parser_pipeline_pause(args))
       /\ Accepted(parser_pipeline_stop(args))
  BY <1>10, SeqTuple, Uris, RawAccepted, Checked
     DEF parser_pipeline_play, parser_pipeline_pause, parser_pipeline_stop
<1>13. Accepted(parser_pipeline_graph(args)) /\ Accepted(parser_pipeline_verbose(args))
  BY <1>1, <1>2, <1>10, SeqTuple, Uris, RawAccepted, Checked
     DEF parser_pipeline_graph, parser_pipeline_verbose, a1
<1>14. Accepted(parser_element_set(args)) /\ Accepted(parser_element_get(args))
  BY <1>1, <1>2, <1>10, SeqTuple, Uris, RawAccepted, Checked DEF parser_element_set, parser_element_get, a3
<1>15. Accepted(parser_list_pipelines(args)) /\ Accepted(parser_list_elements(args))
  BY <1>1, <1>10, SeqTuple, Uris, RawAccepted, Checked DEF parser_list_pipelines, parser_list_elements
<1>16. Accepted(parser_list_properties(args)) /\ Accepted(parser_list_signals(args))
  BY <1>1, <1>10, SeqTuple, Uris, RawAccepted, Checked DEF parser_list_properties, parser_list_signals
<1>17. Accepted(parser_bus_read(args)) /\ Accepted(parser_bus_filter(args)) /\ Accepted(parser_bus_timeout(args))
  BY <1>1, <1>2, <1>10, SeqTuple, Uris, RawAccepted, Checked
     DEF parser_bus_read, parser_bus_filter, parser_bus_timeout, a1
<1>18. Accepted(parser_event_eos(args)) /\ Accepted(parser_event_flush_start(args))
  BY <1>1, <1>10, SeqTuple, Uris, RawAccepted, Checked DEF parser_event_eos, parser_event_flush_start
<1>19. Accepted(parser_event_seek(args)) /\ Accepted(parser_event_flush_stop(args))
  BY <1>3, <1>10, SeqTuple, SeqConcat, Uris, RawAccepted, Checked
     DEF parser_event_seek, parser_event_flush_stop, a1
<1>20. Accepted(parser_debug_enable(args)) /\ Accepted(parser_debug_threshold(args))
       /\ Accepted(parser_debug_color(args)) /\ Accepted(parser_debug_reset(args))
  BY <1>1, <1>10, SeqTuple, RawAccepted, Checked
     DEF parser_debug_enable, parser_debug_threshold, parser_debug_color, parser_debug_reset
<1>21. Accepted(parser_signal_connect(args)) /\ Accepted(parser_signal_disconnect(args))
  BY <1>1, <1>10, SeqTuple, Uris, RawAccepted, Checked DEF parser_signal_connect, parser_signal_disconnect
<1>22. Accepted(parser_signal_timeout(args))
  BY <1>2, <1>10, SeqTuple, Uris, RawAccepted, Checked DEF parser_signal_timeout, a3
<1>23. Accepted(parser_action_emit(args))
  BY <1>3, <1>10, SeqTuple, SeqConcat, Uris, RawAccepted, Checked DEF parser_action_emit, a3
<1>24. Accepted(Refuse("BAD_COMMAND"))
  BY <1>11, Checked
<1> QED
  BY <1>4, <1>11, <1>12, <1>13, <1>14, <1>15, <1>16, <1>17, <1>18, <1>19, <1>20, <1>21, <1>22, <1>23,
     <1>24 DEF parse_cmd, cmds, args, cmd, Verbs


-----------------------------------------------------------------------------
(* Documents *)

\* A set of texts whose brackets, keys and values are in their places, with all the texts in
\* them.
Closed(T) == \A t \in T : Shaped(t) /\ Inner({t}) \subseteq T
Doc(text) == \E T : text \in T /\ Closed(T)

\* A value within an array or an object.
Tok(k) == k[1] \notin Brackets \cup {"key"} /\ (k[1] = "text" => Doc(k[2]))
Items(s) == IsSeq(s) /\ \A i \in DOMAIN s : Tok(s[i])

\* The members of an object.
Pairs(s) ==
  /\ IsSeq(s) /\ Len(s) % 2 = 0
  /\ \A i \in DOMAIN s : IF i % 2 = 1 THEN s[i][1] = "key" ELSE Tok(s[i])

\* However deep the parser goes, it finds no other texts.
LEMMA DocShaped ==
  ASSUME NEW text, Doc(text)
  PROVE  \A t \in Texts(text) : Shaped(t)
<1>1. PICK T : text \in T /\ Closed(T)
  BY DEF Doc
<1> DEFINE N == Nesting
           deep == CHOOSE deep : deep = [d \in 0 .. N |-> IF d = 0 THEN {text}
                                                          ELSE deep[d - 1] \cup Inner(deep[d - 1])]
<1>2. Texts(text) = deep[N]
  BY DEF Texts
<1>3. N \in Nat
  BY DEF Nesting
<1> HIDE DEF deep, N
<1>4. deep = [d \in 0 .. N |-> IF d = 0 THEN {text} ELSE deep[d - 1] \cup Inner(deep[d - 1])]
  <2> DEFINE S == {n \in Nat : \E f : f = [d \in 0 .. n |-> IF d = 0 THEN {text}
                                                            ELSE f[d - 1] \cup Inner(f[d - 1])]}
  <2>1. 0 \in S
    <3> DEFINE f == [d \in 0 .. 0 |-> {text}]
    <3>1. f = [d \in 0 .. 0 |-> IF d = 0 THEN {text} ELSE f[d - 1] \cup Inner(f[d - 1])]
      OBVIOUS
    <3> QED
      BY <3>1
  <2>2. \A n \in Nat : n \in S => n + 1 \in S
    <3> SUFFICES ASSUME NEW n \in Nat, n \in S PROVE n + 1 \in S
      OBVIOUS
    <3>1. PICK f : f = [d \in 0 .. n |-> IF d = 0 THEN {text} ELSE f[d - 1] \cup Inner(f[d - 1])]
      OBVIOUS
    <3> DEFINE g == [d \in 0 .. n + 1 |-> IF d = n + 1 THEN f[n] \cup Inner(f[n]) ELSE f[d]]
    <3>2. g = [d \in 0 .. n + 1 |-> IF d = 0 THEN {text} ELSE g[d - 1] \cup Inner(g[d - 1])]
      <4>1. \A d \in 0 .. n + 1 : g[d] = IF d = 0 THEN {text} ELSE g[d - 1] \cup Inner(g[d - 1])
        <5> TAKE d \in 0 .. n + 1
        <5>1. CASE d = n + 1
          BY <5>1
        <5>2. CASE d # n + 1 /\ d # 0
          <6>1. d \in 0 .. n /\ d - 1 \in 0 .. n /\ d - 1 # n + 1
            BY <5>2
          <6>2. g[d] = f[d] /\ g[d - 1] = f[d - 1]
            BY <5>2, <6>1
          <6>3. f[d] = f[d - 1] \cup Inner(f[d - 1])
            BY <3>1, <5>2, <6>1
          <6> QED
            BY <5>2, <6>2, <6>3
        <5>3. CASE d = 0
          BY <3>1, <5>3
        <5> QED
          BY <5>1, <5>2, <5>3
      <4> QED
        BY <4>1
    <3> HIDE DEF g
    <3> QED
      BY <3>2
  <2>3. N \in S
    <3> HIDE DEF S
    <3> QED
      BY <1>3, <2>1, <2>2, Induct
  <2>4. \E f : f = [d \in 0 .. N |-> IF d = 0 THEN {text} ELSE f[d - 1] \cup Inner(f[d - 1])]
    BY <2>3
  <2> QED
    BY ONLY <2>4, Zenon DEF deep
<1> DEFINE V == {n \in Nat : n <= N => deep[n] \subseteq T}
<1>5. 0 \in V
  BY <1>1, <1>3, <1>4
<1>6. \A n \in Nat : n \in V => n + 1 \in V
  <2> SUFFICES ASSUME NEW n \in Nat, n \in V, n + 1 <= N PROVE deep[n + 1] \subseteq T
    OBVIOUS
  <2>0. deep[n] \subseteq T
    BY <1>3
  <2>1. deep[n + 1] = deep[n] \cup Inner(deep[n])
    <3>1. n + 1 \in 0 .. N /\ n + 1 # 0 /\ (n + 1) - 1 = n
      BY <1>3
    <3> HIDE DEF V
    <3> QED
      BY <1>4, <3>1
  <2>2. Inner(deep[n]) \subseteq T
    <3> SUFFICES ASSUME NEW t \in deep[n], NEW i \in DOMAIN t, t[i][1] = "text" PROVE t[i][2] \in T
      BY DEF Inner
    <3>1. t \in T /\ Inner({t}) \subseteq T
      BY <1>1, <2>0 DEF Closed
    <3>2. t[i][2] \in Inner({t})
      BY DEF Inner
    <3> QED
      BY <3>1, <3>2
  <2> QED
    BY <2>0, <2>1, <2>2
<1>7. N \in V
  <2> HIDE DEF V
  <2> QED
    BY <1>3, <1>5, <1>6, Induct
<1>8. Texts(text) \subseteq T
  BY <1>2, <1>3, <1>7
<1> QED
  BY ONLY <1>1, <1>8, Zenon DEF Closed

\* A well-formed text of documents is one.
LEMMA DocIntro ==
  ASSUME NEW text, Shaped(text), \A i \in DOMAIN text : text[i][1] = "text" => Doc(text[i][2])
  PROVE  Doc(text)
<1> DEFINE J == {i \in DOMAIN text : text[i][1] = "text"}
           C(u) == CHOOSE T : u \in T /\ Closed(T)
           T == {text} \cup UNION {C(text[i][2]) : i \in J}
<1>1. \A i \in J : text[i][2] \in C(text[i][2]) /\ Closed(C(text[i][2]))
  <2> TAKE i \in J
  <2> DEFINE u == text[i][2]
  <2>1. \E U : u \in U /\ Closed(U)
    BY DEF Doc
  <2> HIDE DEF u
  <2> QED
    BY <2>1, Zenon DEF u
<1> HIDE DEF C
<1>2. Inner({text}) \subseteq T
  BY <1>1 DEF Inner
<1>3. \A i \in J : \A t \in C(text[i][2]) : Shaped(t) /\ Inner({t}) \subseteq T
  BY <1>1 DEF Closed
<1>4. Closed(T)
  BY <1>2, <1>3 DEF Closed
<1> HIDE DEF T
<1>5. text \in T
  BY DEF T
<1> QED
  BY <1>4, <1>5 DEF Doc

\* The three kinds of brackets are no values.
LEMMA Tokens1 ==
  /\ \A text : Doc(text) => Tok(Nested(text))
  /\ \A text : Tok(set_string_value(text))
  /\ \A type, text : Tok(set_value(type, text))
  /\ Tok(set_null_value)
  /\ \A name : Tok(print_name(name))
<1>1. ASSUME NEW text, Doc(text) PROVE Tok(Nested(text))
  BY <1>1 DEF Tok, Nested, Brackets
<1>2. ASSUME NEW text PROVE Tok(set_string_value(text))
  BY DEF Tok, set_string_value, Brackets
<1>3. ASSUME NEW type, NEW text PROVE Tok(set_value(type, text))
  BY DEF Tok, set_value, Brackets
<1>4. Tok(set_null_value)
  BY DEF Tok, set_null_value, Brackets
<1>5. ASSUME NEW name PROVE Tok(print_name(name))
  BY DEF Tok, print_name, Brackets
<1> QED
  BY <1>1, <1>2, <1>3, <1>4, <1>5

LEMMA MemberPairs ==
  ASSUME NEW name, NEW k, Tok(k)
  PROVE  Pairs(Member(name, k))
<1>1. Member(name, k) = <<set_member_name(name), k>>
  BY DEF Member
<1> DEFINE s == <<set_member_name(name), k>>
<1>2. IsSeq(s) /\ Len(s) = 2 /\ s[1] = set_member_name(name) /\ s[2] = k /\ DOMAIN s = {1, 2}
  BY SeqTuple
<1>3. s[1][1] = "key"
  BY <1>2 DEF set_member_name
<1> HIDE DEF s
<1> QED
  BY <1>1, <1>2, <1>3 DEF Pairs, s

LEMMA StringPairs ==
  ASSUME NEW name, NEW text
  PROVE  Pairs(String(name, text)) /\ \A type : Pairs(Value(name, type, text))
BY MemberPairs, Tokens1 DEF String, Value

LEMMA PairsEmpty == Pairs(<<>>)
BY SeqTuple DEF Pairs

LEMMA PairsConcat ==
  ASSUME NEW s, Pairs(s), NEW t, Pairs(t)
  PROVE  Pairs(s \o t)
<1>1. IsSeq(s) /\ IsSeq(t) /\ Len(s) % 2 = 0 /\ Len(t) % 2 = 0
  BY DEF Pairs
<1>2. Len(s) \in Nat /\ Len(t) \in Nat /\ DOMAIN s = 1 .. Len(s) /\ DOMAIN t = 1 .. Len(t)
  BY <1>1, SeqDomain
<1>3. /\ IsSeq(s \o t) /\ Len(s \o t) = Len(s) + Len(t)
      /\ \A i \in 1 .. Len(s) : (s \o t)[i] = s[i]
      /\ \A i \in Len(s) + 1 .. Len(s) + Len(t) : (s \o t)[i] = t[i - Len(s)]
  BY <1>1, SeqConcat
<1>4. DOMAIN (s \o t) = 1 .. Len(s) + Len(t)
  BY <1>3, SeqDomain
<1>5. (Len(s) + Len(t)) % 2 = 0
  BY <1>1, <1>2
<1>6. ASSUME NEW i \in 1 .. Len(s) + Len(t)
      PROVE  IF i % 2 = 1 THEN (s \o t)[i][1] = "key" ELSE Tok((s \o t)[i])
  <2>1. CASE i <= Len(s)
    BY <1>2, <1>3, <2>1 DEF Pairs
  <2>2. CASE i > Len(s)
    <3>1. i - Len(s) \in DOMAIN t /\ (s \o t)[i] = t[i - Len(s)]
      BY <1>2, <1>3, <2>2
    <3>2. (i - Len(s)) % 2 = i % 2
      BY <1>1, <1>2, <2>2
    <3> QED
      BY <3>1, <3>2 DEF Pairs
  <2> QED
    BY <1>2, <2>1, <2>2
<1> QED
  BY <1>3, <1>4, <1>5, <1>6 DEF Pairs

\* A sequence between two of one entry.
IsFramed(t, m, b, e) ==
  /\ IsSeq(t) /\ Len(t) = Len(m) + 2 /\ DOMAIN t = 1 .. Len(m) + 2
  /\ t[1] = b /\ t[Len(m) + 2] = e
  /\ \A i \in 2 .. Len(m) + 1 : t[i] = m[i - 1]

LEMMA Between ==
  ASSUME NEW p, IsSeq(p), Len(p) = 1, NEW m, IsSeq(m), NEW q, IsSeq(q), Len(q) = 1
  PROVE  IsFramed((p \o m) \o q, m, p[1], q[1])
<1> DEFINE t == (p \o m) \o q
           a == p \o m
           l == Len(m)
<1>1. l \in Nat
  BY SeqDomain
<1>2. /\ IsSeq(a) /\ Len(a) = 1 + l
      /\ \A i \in 1 .. 1 : a[i] = p[i]
      /\ \A i \in 1 + 1 .. 1 + l : a[i] = m[i - 1]
  <2>1. /\ IsSeq(p \o m) /\ Len(p \o m) = Len(p) + Len(m)
        /\ \A i \in 1 .. Len(p) : (p \o m)[i] = p[i]
        /\ \A i \in Len(p) + 1 .. Len(p) + Len(m) : (p \o m)[i] = m[i - Len(p)]
    BY SeqConcat
  <2> QED
    BY ONLY <2>1, Len(p) = 1 DEF a, l
<1> HIDE DEF a
<1>3. /\ IsSeq(a \o q) /\ Len(a \o q) = Len(a) + Len(q)
      /\ \A i \in 1 .. Len(a) : (a \o q)[i] = a[i]
      /\ \A i \in Len(a) + 1 .. Len(a) + Len(q) : (a \o q)[i] = q[i - Len(a)]
  BY <1>2, SeqConcat
<1>4. t = a \o q
  BY DEF a
<1> HIDE DEF t
<1>5. IsSeq(t) /\ Len(t) = (1 + l) + 1
  BY <1>2, <1>3, <1>4
<1>6. DOMAIN t = 1 .. Len(t)
  BY <1>5, SeqDomain
<1>7. \A i \in 1 .. 1 + l : t[i] = a[i]
  BY <1>2, <1>3, <1>4
<1>8. \A i \in (1 + l) + 1 .. (1 + l) + 1 : t[i] = q[i - (1 + l)]
  BY <1>2, <1>3, <1>4
<1>9. 2 + l \in (1 + l) + 1 .. (1 + l) + 1 /\ (2 + l) - (1 + l) = 1 /\ l + 2 = 2 + l /\ l + 2 = (1 + l) + 1
  BY <1>1
<1>10. t[l + 2] = q[1]
  BY ONLY <1>8, <1>9
<1>11. t[1] = p[1] /\ \A i \in 2 .. l + 1 : t[i] = m[i - 1]
  BY ONLY <1>1, <1>2, <1>7
<1>12. Len(t) = l + 2 /\ DOMAIN t = 1 .. l + 2
  BY ONLY <1>5, <1>6, <1>9
<1>13. IsFramed(t, m, p[1], q[1])
  BY ONLY <1>5, <1>10, <1>11, <1>12 DEF l, IsFramed
<1> QED
  BY <1>13 DEF t

\* A text between brackets.
LEMMA Framed ==
  ASSUME NEW b, NEW m, IsSeq(m), NEW e, NEW t, t = <<b>> \o m \o <<e>>
  PROVE  /\ IsSeq(t) /\ Len(t) = Len(m) + 2 /\ DOMAIN t = 1 .. Len(m) + 2
         /\ t[1] = b /\ t[Len(m) + 2] = e
         /\ \A i \in 2 .. Len(m) + 1 : t[i] = m[i - 1]
<1> DEFINE p == <<b>>
           q == <<e>>
<1>1. IsSeq(p) /\ IsSeq(q) /\ Len(p) = 1 /\ Len(q) = 1 /\ p[1] = b /\ q[1] = e
  BY SeqTuple
<1>2. t = (p \o m) \o q
  OBVIOUS
<1> HIDE DEF p, q
<1>3. IsFramed((p \o m) \o q, m, p[1], q[1])
  BY ONLY <1>1, IsSeq(m), Between
<1>4. IsFramed(t, m, b, e)
  BY ONLY <1>1, <1>2, <1>3
<1> QED
  BY ONLY <1>4 DEF IsFramed

LEMMA ObjectDoc ==
  ASSUME NEW m, Pairs(m)
  PROVE  Doc(Object(m))
<1> DEFINE t == Object(m)
           n == Len(m) + 2
<1>1. IsSeq(m) /\ Len(m) \in Nat /\ DOMAIN m = 1 .. Len(m) /\ Len(m) % 2 = 0
  BY SeqDomain DEF Pairs
<1>2. /\ Len(t) = n /\ DOMAIN t = 1 .. n /\ t[1] = begin_object /\ t[n] = end_object
      /\ \A i \in 2 .. n - 1 : t[i] = m[i - 1]
  <2>1. t = <<begin_object>> \o m \o <<end_object>>
    BY DEF Object
  <2>2. /\ Len(t) = n /\ DOMAIN t = 1 .. n /\ t[1] = begin_object /\ t[n] = end_object
        /\ \A i \in 2 .. Len(m) + 1 : t[i] = m[i - 1]
    <3> HIDE DEF t
    <3> QED
      BY <1>1, <2>1, Framed
  <2> QED
    BY <1>1, <2>2
<1> HIDE DEF t
<1>3. \A i \in 2 .. n - 1 : i - 1 \in DOMAIN m /\ ((i - 1) % 2 = 1 <=> i % 2 = 0)
  BY <1>1
<1>4. \A i \in 2 .. n - 1 : IF i % 2 = 0 THEN t[i][1] = "key" ELSE Tok(t[i])
  BY <1>2, <1>3 DEF Pairs
<1>5. n \in Nat /\ n > 1 /\ n % 2 = 0
  BY <1>1
<1>6. \A i \in 2 .. n - 1 : t[i][1] \notin Brackets /\ (t[i][1] = "key" <=> i % 2 = 0)
  BY <1>4 DEF Tok, Brackets
<1>7. Shaped(t)
  <2>1. {i \in 2 .. n - 1 : t[i][1] = "key"} = {i \in 2 .. n - 1 : i % 2 = 0}
    BY <1>6
  <2> QED
    BY <1>2, <1>5, <1>6, <2>1 DEF Shaped
<1>8. \A i \in DOMAIN t : t[i][1] = "text" => Doc(t[i][2])
  <2> SUFFICES ASSUME NEW i \in DOMAIN t, t[i][1] = "text" PROVE Doc(t[i][2])
    OBVIOUS
  <2>1. begin_object[1] # "text" /\ end_object[1] # "text"
    BY DEF begin_object, end_object
  <2>2. i \in 2 .. n - 1
    BY <1>2, <1>5, <2>1
  <2> QED
    BY <1>4, <2>2 DEF Tok
<1> QED
  BY <1>7, <1>8, DocIntro DEF t

LEMMA ArrayDoc ==
  ASSUME NEW m, Items(m)
  PROVE  Doc(Array(m))
<1> DEFINE t == Array(m)
           n == Len(m) + 2
<1>1. IsSeq(m) /\ Len(m) \in Nat /\ DOMAIN m = 1 .. Len(m)
  BY SeqDomain DEF Items
<1>2. /\ Len(t) = n /\ DOMAIN t = 1 .. n /\ t[1] = begin_array /\ t[n] = end_array
      /\ \A i \in 2 .. n - 1 : t[i] = m[i - 1]
  <2>1. t = <<begin_array>> \o m \o <<end_array>>
    BY DEF Array
  <2>2. /\ Len(t) = n /\ DOMAIN t = 1 .. n /\ t[1] = begin_array /\ t[n] = end_array
        /\ \A i \in 2 .. Len(m) + 1 : t[i] = m[i - 1]
    <3> HIDE DEF t
    <3> QED
      BY <1>1, <2>1, Framed
  <2> QED
    BY <1>1, <2>2
<1> HIDE DEF t
<1>3. \A i \in 2 .. n - 1 : Tok(t[i])
  BY <1>1, <1>2 DEF Items
<1>4. n \in Nat /\ n > 1
  BY <1>1
<1>5. Shaped(t)
  <2>1. {i \in 2 .. n - 1 : t[i][1] = "key"} = {}
    BY <1>3 DEF Tok
  <2>2. \A i \in 2 .. n - 1 : t[i][1] \notin Brackets
    BY <1>3 DEF Tok
  <2> QED
    BY <1>2, <1>4, <2>1, <2>2 DEF Shaped
<1>6. \A i \in DOMAIN t : t[i][1] = "text" => Doc(t[i][2])
  <2> SUFFICES ASSUME NEW i \in DOMAIN t, t[i][1] = "text" PROVE Doc(t[i][2])
    OBVIOUS
  <2>1. begin_array[1] # "text" /\ end_array[1] # "text"
    BY DEF begin_array, end_array
  <2>2. i \in 2 .. n - 1
    BY <1>2, <1>4, <2>1
  <2> QED
    BY <1>3, <2>2 DEF Tok
<1> QED
  BY <1>5, <1>6, DocIntro DEF t

\* Members are pasted behind an object whose last bracket was cut off.
LEMMA Pasted ==
  ASSUME NEW m, Pairs(m), NEW k, Pairs(k)
  PROVE  Doc(Front(Object(m)) \o k \o <<end_object>>)
<1>1. IsSeq(m) /\ IsSeq(k) /\ Len(m) \in Nat
  BY SeqDomain DEF Pairs
<1> DEFINE a == <<begin_object>> \o m
<1>2. IsSeq(a) /\ Len(a) = 1 + Len(m) /\ IsSeq(<<begin_object>>)
  BY <1>1, SeqTuple, SeqConcat
<1>3. Object(m) = a \o <<end_object>>
  BY DEF Object
<1> HIDE DEF a
<1>4. Front(a \o <<end_object>>) = a
  <2>1. PICK S : a \in Seq(S)
    BY <1>2 DEF IsSeq
  <2>2. a \in Seq(S \cup {end_object}) /\ <<end_object>> \in Seq(S \cup {end_object})
    BY <2>1
  <2>3. a \o <<end_object>> = Append(a, end_object)
    BY <2>2
  <2>4. SubSeq(Append(a, end_object), 1, Len(Append(a, end_object)) - 1) = a
    BY <2>2, AppendProperties
  <2> QED
    BY <2>3, <2>4 DEF Front
<1>5. a \o k = <<begin_object>> \o (m \o k)
  <2>1. PICK S : m \in Seq(S)
    BY <1>1 DEF IsSeq
  <2>2. PICK K : k \in Seq(K)
    BY <1>1 DEF IsSeq
  <2> DEFINE Z == S \cup K \cup {begin_object}
  <2>3. m \in Seq(Z) /\ k \in Seq(Z) /\ <<begin_object>> \in Seq(Z)
    BY <2>1, <2>2
  <2> HIDE DEF Z
  <2> QED
    BY <2>3, ConcatAssociative DEF a
<1>6. Front(Object(m)) \o k \o <<end_object>> = Object(m \o k)
  BY <1>3, <1>4, <1>5 DEF Object
<1> QED
  BY <1>6, ObjectDoc, PairsConcat

LEMMA EachItems ==
  ASSUME NEW s, IsSeq(s), NEW t, t = [i \in DOMAIN s |-> t[i]], \A i \in DOMAIN s : Tok(t[i])
  PROVE  Items(t)
<1>1. Len(s) \in Nat /\ DOMAIN s = 1 .. Len(s)
  BY SeqDomain
<1>2. IsSeq(t)
  BY <1>1, SeqIntro
<1> QED
  BY <1>2 DEF Items

LEMMA LongTuples ==
  /\ \A a, b, c, d, e : IsSeq(<<a, b, c, d, e>>)
  /\ \A a, b, c, d, e, f : IsSeq(<<a, b, c, d, e, f>>)
  /\ \A a, b, c, d, e, f, g, h, i, j, k : IsSeq(<<a, b, c, d, e, f, g, h, i, j, k>>)
<1>1. ASSUME NEW a, NEW b, NEW c, NEW d, NEW e PROVE IsSeq(<<a, b, c, d, e>>)
  <2>1. <<a, b, c, d, e>> \in Seq({a, b, c, d, e})
    OBVIOUS
  <2> QED
    BY <2>1 DEF IsSeq
<1>2. ASSUME NEW a, NEW b, NEW c, NEW d, NEW e, NEW f PROVE IsSeq(<<a, b, c, d, e, f>>)
  <2>1. <<a, b, c, d, e, f>> \in Seq({a, b, c, d, e, f})
    OBVIOUS
  <2> QED
    BY <2>1 DEF IsSeq
<1>3. ASSUME NEW a, NEW b, NEW c, NEW d, NEW e, NEW f, NEW g, NEW h, NEW i, NEW j, NEW k
      PROVE  IsSeq(<<a, b, c, d, e, f, g, h, i, j, k>>)
  <2>1. <<a, b, c, d, e, f, g, h, i, j, k>> \in Seq({a, b, c, d, e, f, g, h, i, j, k})
    OBVIOUS
  <2> QED
    BY <2>1 DEF IsSeq
<1> QED
  BY <1>1, <1>2, <1>3

LEMMA PropsSeq ==
  ASSUME NEW kind
  PROVE  IsSeq(Props(kind))
<1>1. IsSeq(session_class) /\ IsSeq(list_class) /\ IsSeq(bus_class) /\ IsSeq(<<object_class>>)
  BY SeqTuple DEF session_class, list_class, bus_class
<1>2. IsSeq(signal_class) /\ IsSeq(debug_class) /\ IsSeq(element_class) /\ IsSeq(pipeline_class)
  BY LongTuples DEF signal_class, debug_class, element_class, pipeline_class
<1> QED
  BY <1>1, <1>2 DEF Props

LEMMA ParamPairs ==
  ASSUME NEW type
  PROVE  Pairs(Param(type))
<1> DEFINE a == String("description", <<"blurb">>)
           b == String("type", <<type>>)
           c == String("access", <<"flags">>)
<1>1. Pairs(a) /\ Pairs(b) /\ Pairs(c)
  BY StringPairs
<1>2. Param(type) = Member("param", Nested(Object(a \o b \o c)))
  BY DEF Param
<1> HIDE DEF a, b, c
<1>3. Pairs(a \o b \o c)
  BY <1>1, PairsConcat
<1> QED
  BY <1>2, <1>3, ObjectDoc, Tokens1, MemberPairs

\* A name, a value and what describes it.
LEMMA Described ==
  ASSUME NEW name, NEW k, Tok(k), NEW type
  PROVE  Doc(Object(String("name", name) \o Member("value", k) \o Param(type)))
<1> DEFINE a == String("name", name)
           b == Member("value", k)
           c == Param(type)
<1>1. Pairs(a) /\ Pairs(b) /\ Pairs(c)
  BY StringPairs, MemberPairs, ParamPairs
<1> HIDE DEF a, b, c
<1>2. Doc(Object(a \o b \o c))
  BY <1>1, PairsConcat, ObjectDoc
<1> QED
  BY <1>2 DEF a, b, c

LEMMA ArrayMember ==
  ASSUME NEW name, NEW s, Items(s)
  PROVE  Pairs(Member(name, Nested(Array(s))))
BY ArrayDoc, Tokens1, MemberPairs

\* gstd_object_to_string_default writes an object.
LEMMA ObjectText ==
  ASSUME NEW w, NEW n
  PROVE  \E m : Pairs(m) /\ object_to_string(w, n) = Object(m)
<1> DEFINE props == Props(n.kind)
           Item(p) == Object(String("name", <<p.name>>) \o Value("value", p.type, get_property(w, n, p.name).text)
                             \o Param(p.type))
           s == [i \in DOMAIN props |-> Nested(Item(props[i]))]
           m == Member("properties", Nested(Array(s)))
<1>1. object_to_string(w, n) = Object(m)
  BY DEF object_to_string, Each
<1>2. ASSUME NEW p PROVE Doc(Item(p))
  <2> DEFINE k == set_value(p.type, get_property(w, n, p.name).text)
             name == <<p.name>>
             type == p.type
  <2>1. Tok(k)
    BY Tokens1
  <2>2. Item(p) = Object(String("name", name) \o Member("value", k) \o Param(type))
    BY DEF Value
  <2> HIDE DEF k, name, type
  <2> QED
    BY <2>1, <2>2, Described
<1> HIDE DEF Item
<1>3. \A i \in DOMAIN props : Tok(s[i])
  BY <1>2, Tokens1
<1>4. s = [i \in DOMAIN props |-> s[i]] /\ IsSeq(props)
  BY PropsSeq
<1> HIDE DEF s, props
<1>5. Pairs(m)
  BY <1>3, <1>4, EachItems, ArrayMember
<1> QED
  BY <1>1, <1>5

LEMMA ListDoc ==
  ASSUME NEW w, NEW n, IsSeq(List(w, n))
  PROVE  Doc(list_to_string(w, n))
<1> DEFINE names == List(w, n)
           Item(name) == Object(Member("name", print_name(name)))
           s == [i \in DOMAIN names |-> Nested(Item(names[i]))]
           k == Member("nodes", Nested(Array(s)))
<1>1. PICK m : Pairs(m) /\ object_to_string(w, n) = Object(m)
  BY ObjectText
<1>2. list_to_string(w, n) = Front(Object(m)) \o k \o <<end_object>>
  BY <1>1 DEF list_to_string, Each
<1>3. ASSUME NEW name PROVE Doc(Item(name))
  BY Tokens1, MemberPairs, ObjectDoc
<1> HIDE DEF Item
<1>4. \A i \in DOMAIN names : Tok(s[i])
  BY <1>3, Tokens1
<1>5. s = [i \in DOMAIN names |-> s[i]]
  OBVIOUS
<1> HIDE DEF s, names
<1>6. Pairs(k)
  BY <1>4, <1>5, EachItems, ArrayMember DEF names
<1> HIDE DEF k
<1> QED
  BY <1>1, <1>2, <1>6, Pasted

LEMMA PropertyDoc ==
  ASSUME NEW pspec, NEW k, Tok(k)
  PROVE  Doc(property_to_string(pspec, k))
<1> DEFINE v == IF pspec.read THEN k ELSE set_null_value
           name == <<pspec.name>>
           type == pspec.type
<1>1. Tok(v)
  BY Tokens1
<1>2. property_to_string(pspec, k) = Object(String("name", name) \o Member("value", v) \o Param(type))
  BY DEF property_to_string
<1> HIDE DEF v, name, type
<1> QED
  BY <1>1, <1>2, Described

LEMMA StateDoc ==
  ASSUME NEW w, NEW n
  PROVE  Doc(state_to_string(w, n))
<1> DEFINE k == set_string_value(<<Inst(w, n).cur>>)
           name == <<"state">>
           type == "GstdStateEnum"
<1>1. Tok(k)
  BY Tokens1
<1>2. state_to_string(w, n) = Object(String("name", name) \o Member("value", k) \o Param(type))
  BY DEF state_to_string, String
<1> HIDE DEF k, name, type
<1> QED
  BY <1>1, <1>2, Described

LEMMA ArrayValue ==
  ASSUME NEW text, IsSeq(text)
  PROVE  Tok(property_array_add_value(text))
<1> DEFINE s == [i \in DOMAIN text |-> set_value("float", <<text[i]>>)]
<1>1. property_array_add_value(text) = Nested(Array(s))
  BY DEF property_array_add_value, Each
<1>2. s = [i \in DOMAIN text |-> s[i]] /\ \A i \in DOMAIN text : Tok(s[i])
  BY Tokens1
<1> HIDE DEF s
<1> QED
  BY <1>1, <1>2, EachItems, ArrayDoc, Tokens1

LEMMA ActionDoc ==
  ASSUME NEW signal, IsSeq(signal.params)
  PROVE  Doc(action_to_string(signal))
<1> DEFINE params == signal.params
           s == [i \in DOMAIN params |-> set_string_value(<<params[i]>>)]
           a == String("name", <<signal.name>>)
           b == Member("arguments", Nested(Array(s)))
           c == String("return", <<"void">>)
<1>1. action_to_string(signal) = Object(a \o b \o c)
  BY DEF action_to_string, Each
<1>2. s = [i \in DOMAIN params |-> s[i]] /\ \A i \in DOMAIN params : Tok(s[i])
  BY Tokens1
<1>3. Pairs(a) /\ Pairs(c)
  BY StringPairs
<1> HIDE DEF s
<1>4. Pairs(b)
  BY <1>2, EachItems, ArrayMember
<1> HIDE DEF a, b, c
<1> QED
  BY <1>1, <1>3, <1>4, PairsConcat, ObjectDoc

LEMMA CallbackDoc ==
  ASSUME NEW signal, IsSeq(signal.params)
  PROVE  Doc(callback_to_string(signal))
<1> DEFINE types == <<"object">> \o signal.params
           Item(type) == Object(String("type", <<type>>) \o Value("value", type, <<"arg">>))
           s == [i \in DOMAIN types |-> Nested(Item(types[i]))]
           a == String("name", <<signal.name>>)
           b == Member("arguments", Nested(Array(s)))
<1>1. callback_to_string(signal) = Object(a \o b)
  BY DEF callback_to_string, Each
<1>2. IsSeq(types)
  BY SeqTuple, SeqConcat
<1>3. ASSUME NEW type PROVE Doc(Item(type))
  BY StringPairs, PairsConcat, ObjectDoc
<1> HIDE DEF Item, types
<1>4. s = [i \in DOMAIN types |-> s[i]] /\ \A i \in DOMAIN types : Tok(s[i])
  BY <1>3, Tokens1
<1>5. Pairs(a)
  BY StringPairs
<1> HIDE DEF s
<1>6. Pairs(b)
  BY <1>2, <1>4, EachItems, ArrayMember
<1> HIDE DEF a, b
<1> QED
  BY <1>1, <1>5, <1>6, PairsConcat, ObjectDoc

LEMMA NumbersPairs ==
  ASSUME NEW type, NEW names, IsSeq(names)
  PROVE  Pairs(Numbers(type, names))
<1> DEFINE s == [i \in DOMAIN names |-> Value(names[i], type, <<"0">>)]
           R == UNION {{s[i][j] : j \in DOMAIN s[i]} : i \in DOMAIN names}
           Z == {t \in Seq(R) : Pairs(t)}
<1>1. Numbers(type, names) = FlattenSeq(s)
  BY DEF Numbers, Joined, Each
<1>2. Len(names) \in Nat /\ DOMAIN names = 1 .. Len(names)
  BY SeqDomain
<1>3. IsSeq(s) /\ DOMAIN s = DOMAIN names
  <2>1. s = [i \in 1 .. Len(names) |-> s[i]] /\ DOMAIN s = DOMAIN names
    BY <1>2
  <2> HIDE DEF s
  <2> QED
    BY <1>2, <2>1, SeqIntro
<1>4. \A i \in DOMAIN names : Pairs(s[i])
  BY StringPairs
<1> HIDE DEF s
<1>5. ASSUME NEW i \in DOMAIN names PROVE s[i] \in Z
  <2>1. Pairs(s[i]) /\ IsSeq(s[i])
    BY <1>4 DEF Pairs
  <2>2. PICK S : s[i] \in Seq(S)
    BY <2>1 DEF IsSeq
  <2>3. Len(s[i]) \in Nat /\ s[i] \in [1 .. Len(s[i]) -> S] /\ DOMAIN s[i] = 1 .. Len(s[i])
    BY <2>2
  <2>4. \A j \in 1 .. Len(s[i]) : s[i][j] \in R
    BY <2>3
  <2>5. s[i] \in Seq(R)
    <3> HIDE DEF R
    <3> QED
      BY <2>3, <2>4, SeqDef
  <2> QED
    BY <2>1, <2>5
<1>6. <<>> \in Z
  BY PairsEmpty
<1>7. \A a, b \in Z : a \o b \in Z
  <2> HIDE DEF R
  <2> QED
    BY PairsConcat
<1>8. FlattenSeq(s) \in Z
  <2> HIDE DEF Z
  <2> QED
    BY <1>3, <1>5, <1>6, <1>7, Flattened
<1> QED
  BY <1>1, <1>8

LEMMA MessagePairs ==
  ASSUME NEW type
  PROVE  Pairs(bus_msg_factory_make(type))
<1>1. Pairs(simple_to_string)
  BY StringPairs, PairsConcat DEF simple_to_string
<1>2. Pairs(qos_to_string)
  <2> DEFINE times == <<"running_time", "stream_time", "timestamp", "duration">>
             jitter == <<"jitter">>
             proportion == <<"proportion">>
             quality == <<"quality">>
             format == <<"format">>
             counts == <<"processed", "dropped">>
             live == Value("live", "boolean", <<"true">>)
             a == live \o Numbers("uint64", times)
             b == Numbers("int64", jitter) \o Numbers("double", proportion) \o Numbers("int", quality)
             c == Numbers("int", format) \o Numbers("uint64", counts)
  <2>1. /\ IsSeq(times) /\ IsSeq(jitter) /\ IsSeq(proportion) /\ IsSeq(quality)
        /\ IsSeq(format) /\ IsSeq(counts)
    BY SeqTuple
  <2>2. Pairs(live)
    BY StringPairs
  <2>3. qos_to_string = Member("buffer", Nested(Object(a))) \o Member("values", Nested(Object(b)))
                        \o Member("stats", Nested(Object(c)))
    BY DEF qos_to_string
  <2> HIDE DEF times, jitter, proportion, quality, format, counts, live
  <2>4. Pairs(a) /\ Pairs(b) /\ Pairs(c)
    BY <2>1, <2>2, NumbersPairs, PairsConcat
  <2> HIDE DEF a, b, c
  <2>5. /\ Pairs(Member("buffer", Nested(Object(a)))) /\ Pairs(Member("values", Nested(Object(b))))
        /\ Pairs(Member("stats", Nested(Object(c))))
    BY <2>4, ObjectDoc, Tokens1, MemberPairs
  <2> QED
    BY <2>3, <2>5, PairsConcat
<1>3. Pairs(stream_status_to_string)
  <2> DEFINE names == <<"type">>
             a == Numbers("int", names) \o String("type_name", <<"name">>)
                  \o String("owner", <<"name">>) \o String("owner_factory", <<"name">>)
  <2>1. Pairs(Numbers("int", names))
    BY SeqTuple, NumbersPairs
  <2>2. Pairs(a)
    <3> HIDE DEF names
    <3> QED
      BY <2>1, StringPairs, PairsConcat
  <2>3. stream_status_to_string = Member("stream_status", Nested(Object(a)))
    BY DEF stream_status_to_string
  <2> HIDE DEF a
  <2> QED
    BY <2>2, <2>3, ObjectDoc, Tokens1, MemberPairs
<1>4. Pairs(bus_msg_element_to_string)
  BY SeqTuple, NumbersPairs, ObjectDoc, Tokens1, MemberPairs DEF bus_msg_element_to_string
<1>5. Pairs(state_changed_to_string) /\ Pairs(notify_to_string)
  BY StringPairs, PairsConcat DEF state_changed_to_string, notify_to_string
<1> QED
  BY <1>1, <1>2, <1>3, <1>4, <1>5, PairsEmpty DEF bus_msg_factory_make

LEMMA MessageDoc ==
  ASSUME NEW type
  PROVE  Doc(bus_msg_to_string(type))
<1> DEFINE names == <<"seqnum">>
           a == String("type", <<type>>)
           b == String("source", <<"name">>)
           c == String("timestamp", <<"0">>)
           d == Numbers("int", names)
           e == bus_msg_factory_make(type)
<1>1. Pairs(a) /\ Pairs(b) /\ Pairs(c)
  BY StringPairs
<1>2. Pairs(d) /\ Pairs(e)
  BY SeqTuple, NumbersPairs, MessagePairs
<1>3. bus_msg_to_string(type) = Object(a \o b \o c \o d \o e)
  BY DEF bus_msg_to_string
<1> HIDE DEF a, b, c, d, e
<1>4. Pairs(a \o b \o c \o d \o e)
  BY <1>1, <1>2, PairsConcat
<1> QED
  BY <1>3, <1>4, ObjectDoc

\* The answer around a response.
LEMMA ReplyDoc ==
  ASSUME NEW code, NEW resp, resp = <<>> \/ Doc(resp)
  PROVE  Doc(Reply(code, resp))
<1> DEFINE k == IF resp = <<>> THEN set_null_value ELSE Nested(resp)
           a == Value("code", "int", <<code>>)
           b == String("description", <<"text">>)
           c == Member("response", k)
<1>1. Tok(k)
  BY Tokens1
<1>2. Reply(code, resp) = Object(a \o b \o c)
  BY DEF Reply
<1>3. Pairs(a) /\ Pairs(b)
  BY StringPairs
<1> HIDE DEF k
<1>4. Pairs(c)
  BY <1>1, MemberPairs
<1> HIDE DEF a, b, c
<1> QED
  BY <1>2, <1>3, <1>4, PairsConcat, ObjectDoc

-----------------------------------------------------------------------------
(* The URI *)

\* One segment of the URI.
Step(w, env, parent, name) ==
  LET read == object_read(w, parent.node, name, env)
  IN IF parent.code # "EOK" \/ name = "" THEN parent
     ELSE IF read.code = "EOK" THEN read
     ELSE Found("BAD_COMMAND", NullNode)

\* The nodes on the way are a sequence of such steps.
LEMMA UriSteps ==
  ASSUME NEW w, NEW uri, IsSeq(uri), NEW env
  PROVE  \E at : /\ at[0] = Found("EOK", Session)
                 /\ \A i \in 1 .. Len(uri) : at[i] = Step(w, env, at[i - 1], uri[i])
                 /\ get_by_uri(w, uri, env) = at[Len(uri)]
<1> DEFINE N == Len(uri)
           at == CHOOSE at : at = [i \in 0 .. N |-> IF i = 0 THEN Found("EOK", Session)
                                                    ELSE Step(w, env, at[i - 1], uri[i])]
<1>1. N \in Nat
  BY SeqDomain
<1>2. get_by_uri(w, uri, env) = at[N]
  BY DEF get_by_uri, Step
<1> HIDE DEF at
<1>3. at = [i \in 0 .. N |-> IF i = 0 THEN Found("EOK", Session) ELSE Step(w, env, at[i - 1], uri[i])]
  <2> DEFINE S == {n \in Nat : \E f : f = [i \in 0 .. n |-> IF i = 0 THEN Found("EOK", Session)
                                                            ELSE Step(w, env, f[i - 1], uri[i])]}
  <2>1. 0 \in S
    <3> DEFINE f == [i \in 0 .. 0 |-> Found("EOK", Session)]
    <3>1. f = [i \in 0 .. 0 |-> IF i = 0 THEN Found("EOK", Session) ELSE Step(w, env, f[i - 1], uri[i])]
      OBVIOUS
    <3> QED
      BY <3>1
  <2>2. \A n \in Nat : n \in S => n + 1 \in S
    <3> SUFFICES ASSUME NEW n \in Nat, n \in S PROVE n + 1 \in S
      OBVIOUS
    <3>1. PICK f : f = [i \in 0 .. n |-> IF i = 0 THEN Found("EOK", Session) ELSE Step(w, env, f[i - 1], uri[i])]
      OBVIOUS
    <3> DEFINE g == [i \in 0 .. n + 1 |-> IF i = n + 1 THEN Step(w, env, f[n], uri[n + 1]) ELSE f[i]]
    <3>2. g = [i \in 0 .. n + 1 |-> IF i = 0 THEN Found("EOK", Session) ELSE Step(w, env, g[i - 1], uri[i])]
      <4>1. \A i \in 0 .. n + 1 : g[i] = IF i = 0 THEN Found("EOK", Session) ELSE Step(w, env, g[i - 1], uri[i])
        <5> TAKE i \in 0 .. n + 1
        <5>1. CASE i = n + 1
          BY <5>1
        <5>2. CASE i # n + 1 /\ i # 0
          <6>1. i \in 0 .. n /\ i - 1 \in 0 .. n /\ i - 1 # n + 1
            BY <5>2
          <6>2. g[i] = f[i] /\ g[i - 1] = f[i - 1]
            BY <5>2, <6>1
          <6>3. f[i] = Step(w, env, f[i - 1], uri[i])
            BY <3>1, <5>2, <6>1
          <6> QED
            BY <5>2, <6>2, <6>3
        <5>3. CASE i = 0
          BY <3>1, <5>3
        <5> QED
          BY <5>1, <5>2, <5>3
      <4> QED
        BY <4>1
    <3> HIDE DEF g
    <3> QED
      BY <3>2
  <2>3. N \in S
    <3> HIDE DEF S
    <3> QED
      BY <1>1, <2>1, <2>2, Induct
  <2>4. \E f : f = [i \in 0 .. N |-> IF i = 0 THEN Found("EOK", Session) ELSE Step(w, env, f[i - 1], uri[i])]
    BY <2>3
  <2> QED
    BY ONLY <2>4, Zenon DEF at
<1>4. at[0] = Found("EOK", Session) /\ \A i \in 1 .. N : at[i] = Step(w, env, at[i - 1], uri[i])
  BY <1>1, <1>3
<1> QED
  BY <1>2, <1>4

LEMMA UriCode ==
  ASSUME NEW w, NEW uri, IsSeq(uri), NEW env
  PROVE  get_by_uri(w, uri, env).code \in {"EOK", "BAD_COMMAND"}
<1> DEFINE N == Len(uri)
           Good == {"EOK", "BAD_COMMAND"}
<1>1. PICK at : /\ at[0] = Found("EOK", Session)
                /\ \A i \in 1 .. N : at[i] = Step(w, env, at[i - 1], uri[i])
                /\ get_by_uri(w, uri, env) = at[N]
  BY UriSteps
<1>2. N \in Nat
  BY SeqDomain
<1> DEFINE V == {n \in Nat : n <= N => at[n].code \in Good}
<1>4. 0 \in V
  BY <1>1, <1>2 DEF Found
<1>5. \A n \in Nat : n \in V => n + 1 \in V
  <2> SUFFICES ASSUME NEW n \in Nat, n \in V, n + 1 <= N PROVE at[n + 1].code \in Good
    OBVIOUS
  <2>1. at[n + 1] = Step(w, env, at[n], uri[n + 1]) /\ at[n].code \in Good
    BY <1>1, <1>2
  <2> DEFINE read == object_read(w, at[n].node, uri[n + 1], env)
  <2>2. at[n + 1] = IF at[n].code # "EOK" \/ uri[n + 1] = "" THEN at[n]
                    ELSE IF read.code = "EOK" THEN read
                    ELSE Found("BAD_COMMAND", NullNode)
    BY <2>1 DEF Step
  <2>3. Found("BAD_COMMAND", NullNode).code = "BAD_COMMAND"
    BY DEF Found
  <2> HIDE DEF V, read
  <2> QED
    BY <2>1, <2>2, <2>3
<1>6. N \in V
  <2> HIDE DEF V
  <2> QED
    BY <1>2, <1>4, <1>5, Induct
<1> QED
  BY <1>1, <1>2, <1>6

-----------------------------------------------------------------------------
(* Nodes *)

\* What a node stands for is there: a list that exists, an entry that the element has.
Placed(w, n) ==
  /\ n.kind \in {"pipeline", "element", "property"} => n.id \in DOMAIN w.inst
  /\ n.kind \in {"element", "property"} => n.elem \in DOMAIN w.inst[n.id].lists
  /\ n.kind = "property" => Has(fill_properties(n.elem), n.name)
  /\ n.kind \in {"signal", "callback"} => n.elem \in DOMAIN Class /\ Has(Class[n.elem].signals, n.name)
  /\ n.kind = "action" => n.elem \in DOMAIN Class /\ Has(Class[n.elem].actions, n.name)
  /\ n.kind = "list" =>
       \/ n.name = "pipelines"
       \/ /\ n.id \in DOMAIN w.inst
          /\ \/ n.name = "elements"
             \/ n.elem \in DOMAIN w.inst[n.id].lists /\ n.name \in Three

\* Kinds of which nothing is said.
Bare == {"null", "session", "debug", "bus", "state", "event", "value", "count", "message"}

LEMMA ResFields ==
  ASSUME NEW kind, NEW id, NEW elem, NEW name
  PROVE  /\ Res(kind, id, elem, name).kind = kind /\ Res(kind, id, elem, name).id = id
         /\ Res(kind, id, elem, name).elem = elem /\ Res(kind, id, elem, name).name = name
BY DEF Res

LEMMA BarePlaced ==
  ASSUME NEW w, NEW n, n.kind \in Bare
  PROVE  Placed(w, n)
BY DEF Placed, Bare

LEMMA ListedPlaced ==
  ASSUME NEW w, NEW n
  PROVE  /\ n.kind = "list" /\ n.name = "pipelines" => Placed(w, n)
         /\ n.kind = "list" /\ n.name = "elements" /\ n.id \in DOMAIN w.inst => Placed(w, n)
         /\ n.kind = "pipeline" /\ n.id \in DOMAIN w.inst => Placed(w, n)
BY DEF Placed

LEMMA BareRes ==
  ASSUME NEW w
  PROVE  /\ \A kind \in Bare : \A id, elem, name : Placed(w, Res(kind, id, elem, name))
         /\ Placed(w, NullNode) /\ NullNode.kind = "null" /\ Placed(w, Session)
         /\ \A n, name : Placed(w, mask_type(n, name))
         /\ \A n : Placed(w, list_reader_read_count(n).node)
<1>1. \A kind \in Bare : \A id, elem, name : Placed(w, Res(kind, id, elem, name))
  BY ResFields, BarePlaced
<1>2. {"null", "session", "value", "count"} \subseteq Bare
  BY DEF Bare
<1>3. Placed(w, NullNode) /\ NullNode.kind = "null" /\ Placed(w, Session)
  <2>1. NullNode.kind = "null" /\ Session.kind = "session"
    BY DEF NullNode, Session, Res
  <2> QED
    BY <1>2, <2>1, BarePlaced
<1>4. ASSUME NEW n, NEW name PROVE Placed(w, mask_type(n, name))
  <2>1. mask_type(n, name).kind = "value"
    BY DEF mask_type
  <2> QED
    BY <1>2, <2>1, BarePlaced
<1>5. ASSUME NEW n PROVE Placed(w, list_reader_read_count(n).node)
  <2>1. list_reader_read_count(n).node.kind = "count"
    BY DEF list_reader_read_count, Found
  <2> QED
    BY <1>2, <2>1, BarePlaced
<1> QED
  BY <1>1, <1>3, <1>4, <1>5

LEMMA PlacedLater ==
  ASSUME NEW w, NEW v, Later(w, v), NEW n, Placed(w, n)
  PROVE  Placed(v, n)
BY DEF Placed, Later

LEMMA ListOfPipelines ==
  ASSUME NEW w, Sound(w), NEW n, n.name = "pipelines"
  PROVE  IsSeq(List(w, n)) /\ DOMAIN List(w, n) = DOMAIN w.pipes
<1>1. Len(w.pipes) \in Nat /\ DOMAIN w.pipes = 1 .. Len(w.pipes)
  BY SeqDomain DEF Sound
<1>2. List(w, n) = [k \in 1 .. Len(w.pipes) |-> List(w, n)[k]] /\ DOMAIN List(w, n) = DOMAIN w.pipes
  BY <1>1 DEF List
<1> QED
  BY <1>1, <1>2, SeqIntro

LEMMA PlacedList ==
  ASSUME NEW w, Sound(w), NEW n, n.kind = "list", Placed(w, n), n.name # "pipelines"
  PROVE  /\ n.id \in DOMAIN w.inst /\ IsPipe(w.inst[n.id])
         /\ \/ n.name = "elements" /\ List(w, n) = w.inst[n.id].elements
            \/ /\ n.elem \in DOMAIN w.inst[n.id].lists /\ n.name \in Three
               /\ n.name # "elements" /\ List(w, n) = w.inst[n.id].lists[n.elem][n.name]
         /\ IsSeq(List(w, n))
<1>1. /\ n.id \in DOMAIN w.inst
      /\ n.name = "elements" \/ (n.elem \in DOMAIN w.inst[n.id].lists /\ n.name \in Three)
  BY DEF Placed
<1>2. IsPipe(w.inst[n.id])
  BY <1>1, InstPipe
<1>3. CASE n.name = "elements"
  <2>1. List(w, n) = w.inst[n.id].elements
    BY <1>3 DEF List, Inst
  <2>2. ElementsSound(w.inst[n.id].elements, DOMAIN w.inst[n.id].lists)
    BY ONLY <1>2, PipeParts, Zenon
  <2> QED
    BY ONLY <1>1, <1>2, <1>3, <2>1, <2>2 DEF ElementsSound
<1>4. CASE n.name # "elements"
  <2>1. List(w, n) = w.inst[n.id].lists[n.elem][n.name]
    BY <1>4 DEF List, Inst
  <2>2. IsSeq(w.inst[n.id].lists[n.elem][n.name])
    BY ONLY <1>1, <1>2, <1>4, PipeParts DEF ListsSound
  <2> QED
    BY <1>1, <1>2, <1>4, <2>1, <2>2
<1> QED
  BY <1>3, <1>4

LEMMA ChildPlaced ==
  ASSUME NEW w, Sound(w), NEW n, n.kind = "list", Placed(w, n), NEW name, find_child(w, n, name) # NullNode
  PROVE  /\ Placed(w, find_child(w, n, name))
         /\ n.name = "pipelines" => find_child(w, n, name).kind = "pipeline"
<1> DEFINE i == find_node(w, n, name)
<1>1. i # 0
  BY DEF find_child
<1>2. CASE n.name = "pipelines"
  <2>1. i \in DOMAIN w.pipes
    BY <1>1, <1>2, ListOfPipelines, FoundAt
  <2>2. find_child(w, n, name) = Res("pipeline", w.pipes[i], "", name)
    BY <1>1, <1>2 DEF find_child
  <2>3. PICK k : k \in DOMAIN w.inst /\ find_child(w, n, name) = Res("pipeline", k, "", name)
    BY <2>1, <2>2 DEF Sound
  <2>4. Res("pipeline", k, "", name).kind = "pipeline" /\ Res("pipeline", k, "", name).id = k
    BY ONLY DEF Res
  <2> DEFINE m == find_child(w, n, name)
  <2>5. m.kind = "pipeline" /\ m.id \in DOMAIN w.inst
    BY <2>3, <2>4
  <2> HIDE DEF m
  <2>6. Placed(w, m)
    BY <2>5, ListedPlaced
  <2> QED
    BY <2>5, <2>6 DEF m
<1>3. CASE n.name # "pipelines"
  <2>1. /\ n.id \in DOMAIN w.inst /\ IsPipe(w.inst[n.id])
        /\ \/ n.name = "elements" /\ List(w, n) = w.inst[n.id].elements
           \/ /\ n.elem \in DOMAIN w.inst[n.id].lists /\ n.name \in Three
              /\ n.name # "elements" /\ List(w, n) = w.inst[n.id].lists[n.elem][n.name]
        /\ IsSeq(List(w, n))
    BY <1>3, PlacedList
  <2>2. i \in DOMAIN List(w, n) /\ List(w, n)[i] = name
    BY <1>1, <2>1, FoundAt
  <2> HIDE DEF i
  <2>3. CASE n.name = "elements"
    <3>1. find_child(w, n, name) = Res("element", n.id, name, name)
      BY <1>1, <2>3 DEF find_child, i
    <3>2. name \in DOMAIN w.inst[n.id].lists
      BY <2>1, <2>2, <2>3 DEF IsPipe, ElementsSound
    <3> QED
      BY <1>3, <2>1, <3>1, <3>2, ResFields DEF Placed
  <2>4. CASE n.name # "elements"
    <3>1. n.elem \in DOMAIN w.inst[n.id].lists /\ n.name \in Three
          /\ List(w, n) = w.inst[n.id].lists[n.elem][n.name]
      BY ONLY <2>1, <2>4, Zenon
    <3>2. ListsSound(w.inst[n.id].lists)
      <4>1. IsPipe(w.inst[n.id])
        BY ONLY <2>1, Zenon
      <4> QED
        BY ONLY <4>1, PipeParts
    <3>3. Has(Source(n.elem, n.name), name) /\ n.elem \in DOMAIN Class
      BY <2>2, <3>1, <3>2 DEF ListsSound
    <3>4. CASE n.name = "properties"
      <4>1. find_child(w, n, name) = Res("property", n.id, n.elem, name)
        BY <1>1, <3>4 DEF find_child, i
      <4>2. Has(fill_properties(n.elem), name)
        BY <3>3, <3>4 DEF Source
      <4> QED
        BY <1>3, <2>1, <3>1, <4>1, <4>2, ResFields DEF Placed
    <3>5. CASE n.name = "signals"
      <4>1. find_child(w, n, name) = Res("signal", n.id, n.elem, name)
        BY <1>1, <3>5 DEF find_child, i
      <4>2. Has(Class[n.elem].signals, name)
        BY <3>3, <3>5 DEF Source
      <4> QED
        BY <1>3, <3>3, <4>1, <4>2, ResFields DEF Placed
    <3>6. CASE n.name = "actions"
      <4>1. find_child(w, n, name) = Res("action", n.id, n.elem, name)
        BY <1>1, <3>6 DEF find_child, i
      <4>2. Has(Class[n.elem].actions, name)
        BY <3>3, <3>6 DEF Source
      <4> QED
        BY <1>3, <3>3, <4>1, <4>2, ResFields DEF Placed
    <3> QED
      BY <3>1, <3>4, <3>5, <3>6 DEF Three
  <2> QED
    BY <2>3, <2>4
<1> QED
  BY <1>2, <1>3

\* What the properties of gstd's objects lead to.
LEMMA ElementChildren ==
  ASSUME NEW name, Has(element_class, name)
  PROVE  name \in Three \cup {"gstelement", "event", "name"}
BY DEF Has, element_class, object_class, Pspec, Three
LEMMA PipelineChildren ==
  ASSUME NEW name, Has(pipeline_class, name)
  PROVE  name \in {"description", "elements", "bus", "state", "event", "graph", "position", "duration",
                   "verbose", "refcount", "name"}
BY DEF Has, pipeline_class, object_class, Pspec

LEMMA ObjectPlaced ==
  ASSUME NEW w, NEW n, n.kind \in {"session", "pipeline", "element", "debug", "bus", "signal"}, Placed(w, n),
         NEW name, Has(Props(n.kind), name)
  PROVE  Placed(w, get_property(w, n, name).node)
<1> DEFINE m == get_property(w, n, name).node
<1>1. Txt(<<n.name>>).node = NullNode /\ NullNode.kind = "null" /\ \A t : Txt(t).node = NullNode
      /\ \A b : Flag(b).node = NullNode /\ \A k : Obj(k).node = k
  BY DEF Txt, NullNode, Res, Flag, Obj
<1>2. CASE m = NullNode
  BY <1>2, BareRes
<1>3. CASE name = "name"
  BY <1>1, <1>3, BareRes DEF get_property
<1>4. CASE n.kind = "session" /\ name # "name"
  <2>1. m = NullNode \/ m = Res("list", 0, "", "pipelines") \/ m = Res("debug", 0, "", "Debug")
    BY <1>1, <1>4 DEF get_property, session_get_property
  <2>2. Placed(w, Res("list", 0, "", "pipelines")) /\ Placed(w, Res("debug", 0, "", "Debug"))
    <3>1. /\ Res("list", 0, "", "pipelines").kind = "list" /\ Res("list", 0, "", "pipelines").name = "pipelines"
          /\ Res("debug", 0, "", "Debug").kind = "debug"
      BY DEF Res
    <3>2. "debug" \in Bare
      BY DEF Bare
    <3> QED
      BY <3>1, <3>2, ListedPlaced, BarePlaced
  <2> QED
    BY <2>1, <2>2, BareRes
<1>5. CASE n.kind = "pipeline" /\ name # "name"
  <2>1. Props(n.kind) = pipeline_class
    BY <1>5 DEF Props
  <2>2. name \in {"description", "elements", "bus", "state", "event", "graph", "position", "duration",
                  "verbose", "refcount", "name"}
    BY <2>1, PipelineChildren
  <2>3. get_property(w, n, name) = pipeline_get_property(w, n, name)
    BY <1>5 DEF get_property
  <2>4. CASE name = "elements"
    <3>1. m = Res("list", n.id, "", "elements")
      BY <1>1, <2>3, <2>4 DEF pipeline_get_property
    <3>2. Placed(w, Res("list", n.id, "", "elements"))
      <4> DEFINE l == Res("list", n.id, "", "elements")
      <4>1. l.kind = "list" /\ l.name = "elements" /\ l.id \in DOMAIN w.inst
        BY <1>5 DEF Res, Placed
      <4> HIDE DEF l
      <4>2. Placed(w, l)
        BY <4>1, ListedPlaced
      <4> QED
        BY <4>2 DEF l
    <3> QED
      BY <3>1, <3>2
  <2>5. CASE name \in {"bus", "state", "event"}
    <3>1. m = Res(name, n.id, "", name)
      BY <1>1, <2>3, <2>5 DEF pipeline_get_property
    <3>2. name \in Bare
      BY <2>5 DEF Bare
    <3> QED
      BY <3>1, <3>2, BareRes
  <2>6. CASE name \in {"description", "graph", "position", "duration", "verbose", "refcount"}
    <3>1. m = NullNode
      BY <1>1, <2>3, <2>6 DEF pipeline_get_property, Queried
    <3> QED
      BY <1>2, <3>1
  <2> QED
    BY <1>5, <2>2, <2>4, <2>5, <2>6
<1>6. CASE n.kind = "element" /\ name # "name"
  <2>1. name \in Three \cup {"gstelement", "event", "name"}
    BY <1>6, ElementChildren DEF Props
  <2>2. get_property(w, n, name) = element_get_property(n, name)
    BY <1>6 DEF get_property
  <2>3. CASE name = "gstelement"
    BY <1>1, <2>2, <2>3, BareRes DEF element_get_property
  <2>4. CASE name = "event"
    <3>1. m = Res("event", n.id, n.elem, name)
      BY <1>1, <2>2, <2>4 DEF element_get_property
    <3>2. "event" \in Bare
      BY DEF Bare
    <3> QED
      BY <3>1, <3>2, BareRes
  <2>5. CASE name \in Three
    <3>1. m = Res("list", n.id, n.elem, name)
      BY <1>1, <2>2, <2>5 DEF element_get_property, Three
    <3>2. Placed(w, Res("list", n.id, n.elem, name))
      BY <1>6, <2>5, ResFields DEF Placed
    <3> QED
      BY <3>1, <3>2
  <2> QED
    BY <1>6, <2>1, <2>3, <2>4, <2>5
<1>7. CASE n.kind = "debug" /\ name # "name"
  <2>1. m = NullNode
    BY <1>1, <1>7 DEF get_property, debug_get_property
  <2> QED
    BY <1>2, <2>1
<1>8. CASE n.kind \in {"bus", "signal"} /\ name # "name"
  <2>1. m = NullNode
    <3>1. CASE n.kind = "bus"
      BY <1>1, <1>8, <3>1 DEF get_property, bus_get_property
    <3>2. CASE n.kind = "signal"
      BY <1>1, <1>8, <3>2 DEF get_property, signal_get_property
    <3> QED
      BY <1>8, <3>1, <3>2
  <2> QED
    BY <1>2, <2>1
<1> QED
  BY <1>3, <1>4, <1>5, <1>6, <1>7, <1>8

LEMMA PropertyReadPlaced ==
  ASSUME NEW w, NEW n, n.kind \in {"session", "pipeline", "element", "debug", "bus", "signal"}, Placed(w, n),
         NEW name, property_reader_read(w, n, name).code = "EOK"
  PROVE  Placed(w, property_reader_read(w, n, name).node)
<1> DEFINE r == property_reader_read(w, n, name)
<1>1. Has(Props(n.kind), name) /\ (r.node = get_property(w, n, name).node \/ r.node = mask_type(n, name))
  BY DEF property_reader_read, Found
<1>2. Placed(w, mask_type(n, name))
  BY BareRes
<1>3. Placed(w, get_property(w, n, name).node)
  BY <1>1, ObjectPlaced
<1> HIDE DEF r
<1> QED
  BY <1>1, <1>2, <1>3 DEF r

\* A reader leads from a node that is there to another one.
LEMMA ReadPlaced ==
  ASSUME NEW w, Sound(w), NEW n, Placed(w, n), NEW name, NEW env, object_read(w, n, name, env).code = "EOK"
  PROVE  Placed(w, object_read(w, n, name, env).node)
<1> DEFINE r == object_read(w, n, name, env)
<1>1. \A code, m : Found(code, m).code = code /\ Found(code, m).node = m
  BY DEF Found
<1>2. Placed(w, NullNode)
  BY BareRes
<1>3. CASE n.kind = "null"
  BY <1>1, <1>3 DEF object_read
<1>4. CASE n.kind = "list"
  <2>1. r = list_reader_read(w, n, name)
    BY <1>4 DEF object_read
  <2>2. CASE name = "count"
    <3>1. r.node = list_reader_read_count(n).node
      BY <2>1, <2>2 DEF list_reader_read
    <3> QED
      BY <3>1, BareRes
  <2>3. CASE name # "count"
    <3>1. r.node = find_child(w, n, name) /\ find_child(w, n, name) # NullNode
      BY <1>1, <2>1, <2>3 DEF list_reader_read, list_reader_read_child
    <3> QED
      BY <1>4, <3>1, ChildPlaced
  <2> QED
    BY <2>2, <2>3
<1>5. CASE n.kind = "signal"
  <2>1. r = signal_reader_read(w, n, name, env)
    BY <1>5 DEF object_read
  <2>2. CASE name = "callback"
    <3>1. r = Found("EOK", IF env.msg = "none" THEN NullNode ELSE Res("callback", n.id, n.elem, n.name))
      BY <2>1, <2>2 DEF signal_reader_read
    <3>2. Placed(w, Res("callback", n.id, n.elem, n.name))
      BY <1>5 DEF Placed, Res
    <3> QED
      BY <1>1, <1>2, <3>1, <3>2
  <2>3. CASE name = "disconnect"
    BY <1>1, <1>2, <2>1, <2>3 DEF signal_reader_read
  <2>4. CASE name \notin {"callback", "disconnect"}
    <3>1. r = property_reader_read(w, n, name)
      BY <2>1, <2>4 DEF signal_reader_read
    <3> QED
      BY <1>5, <3>1, PropertyReadPlaced
  <2> QED
    BY <2>2, <2>3, <2>4
<1>6. CASE n.kind = "bus"
  <2>1. r = msg_reader_read(w, n, name, env)
    BY <1>6 DEF object_read
  <2>2. CASE name = "message"
    <3> DEFINE k == IF env.msg = "none" THEN NullNode ELSE Res("message", n.id, "", env.msg)
    <3>1. r = Found("EOK", k)
      BY <2>1, <2>2 DEF msg_reader_read
    <3>2. "message" \in Bare
      BY DEF Bare
    <3>3. Placed(w, Res("message", n.id, "", env.msg))
      BY <3>2, BareRes
    <3>4. Placed(w, k)
      BY <1>2, <3>3
    <3> HIDE DEF k
    <3> QED
      BY <1>1, <3>1, <3>4
  <2>3. CASE name # "message"
    <3>1. r = property_reader_read(w, n, name)
      BY <2>1, <2>3 DEF msg_reader_read
    <3> QED
      BY <1>6, <3>1, PropertyReadPlaced
  <2> QED
    BY <2>2, <2>3
<1>7. CASE n.kind \in {"session", "pipeline", "element", "debug"}
  <2>1. r = property_reader_read(w, n, name)
    BY <1>7 DEF object_read
  <2> QED
    BY <1>7, <2>1, PropertyReadPlaced
<1>8. CASE n.kind \notin {"null", "list", "signal", "bus", "session", "pipeline", "element", "debug"}
  BY <1>1, <1>8 DEF object_read, no_reader_read
<1> QED
  BY <1>3, <1>4, <1>5, <1>6, <1>7, <1>8

\* So the node at the end of a URI is there.
LEMMA UriPlaced ==
  ASSUME NEW w, Sound(w), NEW uri, IsSeq(uri), NEW env
  PROVE  Placed(w, get_by_uri(w, uri, env).node)
<1> DEFINE N == Len(uri)
<1>1. PICK at : /\ at[0] = Found("EOK", Session)
                /\ \A i \in 1 .. N : at[i] = Step(w, env, at[i - 1], uri[i])
                /\ get_by_uri(w, uri, env) = at[N]
  BY UriSteps
<1>2. N \in Nat
  BY SeqDomain
<1> DEFINE V == {n \in Nat : n <= N => Placed(w, at[n].node)}
<1>3. 0 \in V
  <2>1. at[0].node = Session
    BY <1>1 DEF Found
  <2>2. Placed(w, Session)
    BY BareRes
  <2> QED
    BY <2>1, <2>2
<1>4. \A n \in Nat : n \in V => n + 1 \in V
  <2> SUFFICES ASSUME NEW n \in Nat, n \in V, n + 1 <= N PROVE Placed(w, at[n + 1].node)
    OBVIOUS
  <2>1. at[n + 1] = Step(w, env, at[n], uri[n + 1]) /\ Placed(w, at[n].node)
    BY <1>1, <1>2
  <2> DEFINE read == object_read(w, at[n].node, uri[n + 1], env)
  <2>2. at[n + 1] = IF at[n].code # "EOK" \/ uri[n + 1] = "" THEN at[n]
                    ELSE IF read.code = "EOK" THEN read
                    ELSE Found("BAD_COMMAND", NullNode)
    BY <2>1 DEF Step
  <2>3. Placed(w, Found("BAD_COMMAND", NullNode).node)
    BY BareRes DEF Found
  <2>4. read.code = "EOK" => Placed(w, read.node)
    BY <2>1, ReadPlaced
  <2> HIDE DEF V, read
  <2> QED
    BY <2>1, <2>2, <2>3, <2>4
<1>5. N \in V
  <2> HIDE DEF V
  <2> QED
    BY <1>2, <1>3, <1>4, Induct
<1> QED
  BY <1>1, <1>2, <1>5

\* What is written of a node that is there, an element apart, is a document.
LEMMA TextDoc ==
  ASSUME NEW w, Sound(w), NEW n, Placed(w, n), n.kind # "element"
  PROVE  Doc(to_string(w, n))
<1>1. CASE n.kind = "list"
  <2>1. IsSeq(List(w, n))
    BY <1>1, ListOfPipelines, PlacedList
  <2> QED
    BY <1>1, <2>1, ListDoc DEF to_string
<1>2. CASE n.kind = "state"
  BY <1>2, StateDoc DEF to_string
<1>3. CASE n.kind = "property"
  <2>1. /\ n.id \in DOMAIN w.inst /\ n.elem \in DOMAIN w.inst[n.id].lists
        /\ Has(fill_properties(n.elem), n.name)
    BY <1>3 DEF Placed
  <2>2. ValsSound(w.inst[n.id].vals, DOMAIN w.inst[n.id].lists)
    BY <2>1, InstPipe, PipeParts
  <2>3. PICK i \in DOMAIN fill_properties(n.elem) : Entry(n) = fill_properties(n.elem)[i]
    <3> DEFINE s == fill_properties(n.elem)
    <3>1. Has(s, n.name) /\ Entry(n) = Get(s, n.name)
      BY ONLY <2>1 DEF Entry
    <3> HIDE DEF s
    <3>2. \E i \in DOMAIN s : Entry(n) = s[i]
      BY ONLY <3>1, FirstHas
    <3> QED
      BY ONLY <3>2 DEF s
  <2>4. IsSeq(TargetText(w, n))
    BY <2>1, <2>2, <2>3 DEF ValsSound, TargetText, Inst
  <2>5. Tok(PropertyValue(w, n))
    BY <2>4, ArrayValue, Tokens1 DEF PropertyValue, property_add_value
  <2>6. to_string(w, n) = property_to_string(Entry(n).pspec, PropertyValue(w, n))
    BY <1>3 DEF to_string
  <2> QED
    BY <2>5, <2>6, PropertyDoc
<1>4. CASE n.kind = "value"
  <2> DEFINE pspec == Get(Props(n.of.kind), n.name)
             k == property_add_value(pspec.type, get_property(w, n.of, n.name).text)
  <2>1. Tok(k)
    BY Tokens1 DEF property_add_value
  <2>2. to_string(w, n) = property_to_string(pspec, k)
    BY <1>4 DEF to_string
  <2> HIDE DEF pspec, k
  <2> QED
    BY <2>1, <2>2, PropertyDoc
<1>5. CASE n.kind \in {"action", "callback"}
  <2> DEFINE s == IF n.kind = "action" THEN Class[n.elem].actions ELSE Class[n.elem].signals
             g == Get(s, n.name)
  <2>1. s \in Seq(Signals) /\ Has(s, n.name)
    BY <1>5, ResourcesAssumption DEF Placed
  <2>2. to_string(w, n) = action_to_string(g) \/ to_string(w, n) = callback_to_string(g)
    BY <1>5 DEF to_string
  <2> HIDE DEF s
  <2>3. PICK i \in DOMAIN s : g = s[i]
    BY <2>1, FirstHas
  <2>4. g \in Signals
    <3> HIDE DEF Signals
    <3> QED
      BY <2>1, <2>3
  <2>5. IsSeq(g.params)
    BY <2>4 DEF Signals, IsSeq
  <2> HIDE DEF g
  <2> QED
    BY <2>2, <2>5, ActionDoc, CallbackDoc
<1>6. CASE n.kind = "message"
  BY <1>6, MessageDoc DEF to_string
<1>7. CASE n.kind = "count"
  <2> DEFINE pspec == Get(list_class, "count")
             k == property_int_add_value(pspec.type, get_property(w, n.of, "count").text)
  <2>1. Tok(k)
    BY Tokens1 DEF property_int_add_value
  <2>2. to_string(w, n) = property_to_string(pspec, k)
    BY <1>7 DEF to_string
  <2> HIDE DEF pspec, k
  <2> QED
    BY <2>1, <2>2, PropertyDoc
<1>8. CASE n.kind \notin {"list", "element", "state", "property", "value", "count", "action", "callback",
                         "message"}
  <2>1. to_string(w, n) = object_to_string(w, n)
    BY <1>8 DEF to_string
  <2>2. PICK m : Pairs(m) /\ object_to_string(w, n) = Object(m)
    BY ObjectText
  <2> QED
    BY <2>1, <2>2, ObjectDoc
<1> QED
  BY <1>1, <1>2, <1>3, <1>4, <1>5, <1>6, <1>7, <1>8

-----------------------------------------------------------------------------
(* The clients *)

Phases == {"idle", "sent", "found", "acted", "done", "end"}
Keys == {"phase", "lines", "decode", "ops", "at", "node", "code", "resp", "got"}

\* The nodes that a create or an update can succeed on.
Worked(verb, n) ==
  /\ verb = "create" => n.kind \in {"null", "event", "action"} \/ (n.kind = "list" /\ n.name = "pipelines")
  /\ verb = "update" => n.kind # "element"

\* Nothing or a document is written, unless an element is read.
Told(verb, n, resp) == (verb = "read" /\ n.kind = "element") \/ resp = <<>> \/ Doc(resp)

\* A client that waits for an answer has a line of words to be served, the line that the daemon
\* acts on was accepted, and the node it acts on is there.
Known(w, s) ==
  /\ s = [x \in Keys |-> s[x]]
  /\ s.phase \in Phases /\ s.code \in Codes
  /\ s.phase \in {"sent", "found", "acted", "done"} =>
       /\ IsSeq(s.lines) /\ s.at \in DOMAIN s.lines
       /\ \A i \in DOMAIN s.lines : IsSeq(s.lines[i].uri) /\ IsSeq(s.lines[i].args)
  /\ s.phase \in {"found", "acted"} => parse_cmd(s.lines[s.at]).code = "EOK" /\ Placed(w, s.node)
  /\ s.phase = "acted" => Worked(parse_cmd(s.lines[s.at]).verb, s.node)
  /\ s.phase \in {"acted", "done"} => Told(parse_cmd(s.lines[s.at]).verb, s.node, s.resp)

Inv ==
  /\ Sound(world)
  /\ left = [c \in Clients |-> left[c]] /\ \A c \in Clients : left[c] \in 0 .. Calls[c]
  /\ cl = [c \in Clients |-> cl[c]] /\ \A c \in Clients : Known(world, cl[c])

LEMMA FreeKnown ==
  ASSUME NEW w
  PROVE  Known(w, Free)
BY DEF Known, Free, Keys, Phases, Codes

\* What the other clients hold stays where it is.
LEMMA KnownLater ==
  ASSUME NEW w, NEW v, Later(w, v), NEW s, Known(w, s)
  PROVE  Known(v, s)
BY PlacedLater DEF Known

\* What a step of the daemon's thread writes of its client.
LEMMA Gone ==
  ASSUME NEW c \in Clients, cl = [k \in Clients |-> cl[k]], Known(world, cl[c]),
         NEW phase, NEW code, NEW node, NEW resp, Goto(c, phase, code, node, resp)
  PROVE  /\ cl' = [k \in Clients |-> cl'[k]] /\ \A k \in Clients \ {c} : cl'[k] = cl[k]
         /\ cl'[c] = [x \in Keys |-> cl'[c][x]]
         /\ cl'[c].phase = phase /\ cl'[c].code = code /\ cl'[c].node = node /\ cl'[c].resp = resp
         /\ cl'[c].lines = cl[c].lines /\ cl'[c].at = cl[c].at
<1> DEFINE s == cl[c]
           g == IF phase = "found" THEN s.got ELSE Received(s.decode, code, Reply(code, resp))
           q == [s EXCEPT !.phase = phase, !.code = code, !.node = node, !.resp = resp, !.got = g]
<1>1. cl' = [cl EXCEPT ![c] = q]
  BY DEF Goto
<1>2. s = [x \in Keys |-> s[x]]
  BY DEF Known
<1>3. /\ q = [x \in Keys |-> q[x]] /\ q.phase = phase /\ q.code = code /\ q.node = node /\ q.resp = resp
      /\ q.lines = s.lines /\ q.at = s.at
  <2> HIDE DEF g, s
  <2> QED
    BY <1>2 DEF Keys
<1> HIDE DEF q
<1> QED
  BY <1>1, <1>3

LEMMA GotoKnown ==
  ASSUME Inv, Later(world, world'), NEW c \in Clients, cl[c].phase \in {"sent", "found", "acted"},
         NEW phase \in {"found", "acted", "done"}, NEW code \in Codes, NEW node, NEW resp,
         Goto(c, phase, code, node, resp),
         phase # "done" => Parsed(c).code = "EOK" /\ Placed(world', node),
         phase = "acted" => Worked(Parsed(c).verb, node),
         phase # "found" => Told(Parsed(c).verb, node, resp)
  PROVE  cl' = [k \in Clients |-> cl'[k]] /\ \A k \in Clients : Known(world', cl'[k])
<1>1. Known(world, cl[c]) /\ cl = [k \in Clients |-> cl[k]]
  BY DEF Inv
<1> DEFINE q == cl'[c]
           raw == Parsed(c)
<1>2. /\ cl' = [k \in Clients |-> cl'[k]] /\ \A k \in Clients \ {c} : cl'[k] = cl[k]
      /\ q = [x \in Keys |-> q[x]] /\ q.phase = phase /\ q.code = code /\ q.node = node /\ q.resp = resp
      /\ q.lines = cl[c].lines /\ q.at = cl[c].at
  BY <1>1, Gone
<1>3. raw = parse_cmd(cl[c].lines[cl[c].at])
  BY DEF Parsed, Line1
<1> HIDE DEF q, raw
<1>4. Known(world', q)
  <2>1. /\ IsSeq(q.lines) /\ q.at \in DOMAIN q.lines
        /\ \A i \in DOMAIN q.lines : IsSeq(q.lines[i].uri) /\ IsSeq(q.lines[i].args)
    BY <1>1, <1>2 DEF Known
  <2>2. parse_cmd(q.lines[q.at]) = raw
    BY <1>2, <1>3
  <2>3. phase # "done" => raw.code = "EOK" /\ Placed(world', q.node)
    BY <1>2 DEF raw
  <2>4. (phase = "acted" => Worked(raw.verb, q.node)) /\ (phase # "found" => Told(raw.verb, q.node, q.resp))
    BY <1>2 DEF raw
  <2> QED
    BY <1>2, <2>1, <2>2, <2>3, <2>4 DEF Known, Phases
<1>5. \A k \in Clients \ {c} : Known(world', cl'[k])
  BY <1>2, KnownLater DEF Inv
<1> QED
  BY <1>2, <1>4, <1>5 DEF q

LEMMA InitInv == Init => Inv
<1> SUFFICES ASSUME Init PROVE Inv
  OBVIOUS
<1> DEFINE P(i) == pipeline_init(First[i].name, First[i].desc, Launch[First[i].desc])
<1>1. /\ world.pipes = [i \in DOMAIN First |-> i]
      /\ world.inst = [i \in DOMAIN First |-> P(i)]
      /\ world = [pipes |-> world.pipes, inst |-> world.inst, debug |-> world.debug]
  BY DEF Init
<1>2. Len(First) \in Nat /\ DOMAIN First = 1 .. Len(First)
  BY ControlAssumption
<1>3. ASSUME NEW i \in DOMAIN First PROVE IsPipe(P(i)) /\ P(i).name = First[i].name
  <2> DEFINE desc == First[i].desc
             R == [name : STRING, desc : DOMAIN Launch]
  <2>1. First \in Seq(R) /\ i \in 1 .. Len(First)
    BY <1>2, ControlAssumption
  <2>2. First[i] \in R
    <3> HIDE DEF R
    <3> QED
      BY <2>1, ElementOfSeq
  <2>3. desc \in DOMAIN Launch
    BY <2>2
  <2> HIDE DEF desc
  <2>4. IsSeq(Launch[desc])
    BY <2>3, ResourcesAssumption DEF IsSeq
  <2>5. ElementsSound(Launch[desc], {Launch[desc][k] : k \in DOMAIN Launch[desc]})
    BY <2>4 DEF ElementsSound
  <2> QED
    BY <2>3, <2>5, PipelineSound DEF desc
<1> HIDE DEF P
<1>4. IsSeq(world.pipes) /\ IsSeq(world.inst)
  <2>1. /\ world.pipes = [i \in 1 .. Len(First) |-> world.pipes[i]]
        /\ world.inst = [i \in 1 .. Len(First) |-> world.inst[i]]
    BY <1>1, <1>2
  <2> QED
    BY <1>2, <2>1, SeqIntro
<1>5. \A i, j \in DOMAIN First : First[i].name = First[j].name => i = j
  BY ControlAssumption
<1>6. Sound(world)
  BY <1>1, <1>3, <1>4, <1>5 DEF Sound
<1>7. left = Calls /\ Calls \in [Clients -> Nat]
  BY ControlAssumption DEF Init
<1>8. cl = [c \in Clients |-> Free]
  BY DEF Init
<1> QED
  BY <1>6, <1>7, <1>8, FreeKnown DEF Inv

LEMMA CallInv ==
  ASSUME Inv, NEW c \in Clients, call(c)
  PROVE  Inv'
<1>1. PICK o \in Offers[c] :
        cl' = [cl EXCEPT ![c] =
                 IF o.call.lines = <<>> THEN [Free EXCEPT !.phase = "end", !.got = Read("NULL_ARGUMENT", <<>>)]
                 ELSE [Free EXCEPT !.phase = "sent", !.lines = o.call.lines, !.at = 1,
                                   !.decode = o.call.decode, !.ops = o.ops]]
  BY DEF call
<1> DEFINE lines == o.call.lines
           a == [Free EXCEPT !.phase = "end", !.got = Read("NULL_ARGUMENT", <<>>)]
           b == [Free EXCEPT !.phase = "sent", !.lines = lines, !.at = 1,
                             !.decode = o.call.decode, !.ops = o.ops]
<1>2. lines \in Seq([cmd : STRING, uri : Seq(STRING), args : Seq(STRING)])
  BY ControlAssumption
<1>3. Known(world', a)
  BY DEF Known, Free, Keys, Phases, Codes
<1>4. ASSUME lines # <<>> PROVE Known(world', b)
  <2>1. IsSeq(lines) /\ 1 \in DOMAIN lines
    BY <1>2, <1>4 DEF IsSeq
  <2>2. \A i \in DOMAIN lines : IsSeq(lines[i].uri) /\ IsSeq(lines[i].args)
    <3> TAKE i \in DOMAIN lines
    <3> DEFINE L == [cmd : STRING, uri : Seq(STRING), args : Seq(STRING)]
    <3>1. lines \in Seq(L) /\ i \in 1 .. Len(lines)
      BY <1>2
    <3>2. lines[i] \in L
      <4> HIDE DEF L, lines
      <4> QED
        BY <3>1, ElementOfSeq
    <3> QED
      BY <3>2 DEF IsSeq
  <2>3. /\ b = [x \in Keys |-> b[x]] /\ b.phase = "sent" /\ b.code = "EOK" /\ b.lines = lines /\ b.at = 1
    BY DEF Free, Keys
  <2> HIDE DEF lines, b
  <2> QED
    BY <2>1, <2>2, <2>3 DEF Known, Phases, Codes
<1>5. cl' = [cl EXCEPT ![c] = IF lines = <<>> THEN a ELSE b]
  BY <1>1
<1> HIDE DEF lines, a, b
<1>7. left' = [left EXCEPT ![c] = @ - 1] /\ left[c] > 0 /\ world' = world
  BY DEF call
<1>6. cl' = [k \in Clients |-> cl'[k]] /\ \A k \in Clients : Known(world', cl'[k])
  BY <1>3, <1>4, <1>5, <1>7 DEF Inv
<1>8. left' = [k \in Clients |-> left'[k]] /\ \A k \in Clients : left'[k] \in 0 .. Calls[k]
  <2>1. \A k \in Clients : left[k] \in 0 .. Calls[k] /\ Calls[k] \in Nat
    BY ControlAssumption DEF Inv
  <2>2. left' = [k \in Clients |-> left'[k]]
    BY <1>7 DEF Inv
  <2>3. left'[c] = left[c] - 1 /\ \A k \in Clients \ {c} : left'[k] = left[k]
    BY <1>7 DEF Inv
  <2> QED
    BY <1>7, <2>1, <2>2, <2>3
<1> QED
  BY <1>6, <1>7, <1>8 DEF Inv

LEMMA ResolveInv ==
  ASSUME Inv, NEW c \in Clients, resolve(c)
  PROVE  Inv'
<1> DEFINE raw == Parsed(c)
<1>1. cl[c].phase = "sent" /\ world' = world /\ left' = left
  BY DEF resolve
<1>2. Accepted(raw)
  <2>1. IsSeq(Line1(c).uri) /\ IsSeq(Line1(c).args)
    BY <1>1 DEF Inv, Known, Line1
  <2> QED
    BY <2>1, ParseAccepted DEF Parsed
<1>3. Later(world, world') /\ Sound(world)
  BY <1>1, Same DEF Inv, Becomes
<1>4. \E phase \in {"found", "done"}, code \in Codes : \E node :
        /\ Goto(c, phase, code, node, <<>>)
        /\ phase # "done" => raw.code = "EOK" /\ Placed(world', node)
  <2>1. CASE raw.code # "EOK"
    <3>1. Goto(c, "done", raw.code, NullNode, <<>>)
      BY <2>1 DEF resolve
    <3> QED
      BY <1>2, <3>1 DEF Accepted
  <2>2. CASE raw.code = "EOK"
    <3>1. PICK env \in Envs :
            LET got == get_by_uri(world, raw.uri, env)
            IN Goto(c, IF got.code = "EOK" THEN "found" ELSE "done", got.code, got.node, <<>>)
      BY <2>2 DEF resolve
    <3> DEFINE got == get_by_uri(world, raw.uri, env)
               phase == IF got.code = "EOK" THEN "found" ELSE "done"
    <3>2. got.code \in {"EOK", "BAD_COMMAND"} /\ Placed(world, got.node)
      BY <1>2, <1>3, <2>2, UriCode, UriPlaced DEF Accepted
    <3>3. got.code \in Codes
      BY <3>2 DEF Codes
    <3>4. Goto(c, phase, got.code, got.node, <<>>)
      BY <3>1
    <3>5. phase \in {"found", "done"}
      OBVIOUS
    <3>6. Placed(world', got.node)
      BY <1>1, <3>2
    <3> HIDE DEF got, phase
    <3> QED
      BY <2>2, <3>3, <3>4, <3>5, <3>6
  <2> QED
    BY <2>1, <2>2
<1>5. PICK phase \in {"found", "done"}, code \in Codes :
        \E node : /\ Goto(c, phase, code, node, <<>>)
                  /\ phase # "done" => raw.code = "EOK" /\ Placed(world', node)
  BY <1>4
<1>6. PICK node : /\ Goto(c, phase, code, node, <<>>)
                  /\ phase # "done" => raw.code = "EOK" /\ Placed(world', node)
  BY <1>5
<1>7. Told(raw.verb, node, <<>>) /\ phase \in {"found", "acted", "done"} /\ phase # "acted"
  BY DEF Told
<1>8. cl' = [k \in Clients |-> cl'[k]] /\ \A k \in Clients : Known(world', cl'[k])
  BY <1>1, <1>3, <1>6, <1>7, GotoKnown
<1> QED
  BY <1>1, <1>8 DEF Inv

LEMMA OperatedFair ==
  ASSUME Sound(world), NEW c, NEW raw, raw.verb \in Verbs, IsSeq(raw.rest), NEW env \in Envs
  PROVE  Fair(world, Operated(c, raw, env))
<1>1. env.part \in States \cup {"same"} /\ IsSeq(env.scan)
  BY ControlAssumption DEF IsSeq
<1> DEFINE n == cl[c].node
<1>2. Fair(world, Done("EOK", world))
  BY FairSame DEF Codes
<1>3. Fair(world, parser_create(n, raw.rest, env))
  BY <1>1, CreateFair DEF parser_create
<1>4. Fair(world, parser_update(n, raw.rest, env))
  BY <1>1, UpdateFair, FairSame DEF parser_update, Codes
<1>5. Fair(world, parser_delete(n, raw.rest, env))
  BY <1>1, ObjectDeleteFair, FairSame DEF parser_delete, Codes
<1> QED
  BY <1>2, <1>3, <1>4, <1>5 DEF Operated, Verbs

\* Where a create or an update succeeds.
LEMMA OperatedWorked ==
  ASSUME NEW c, NEW raw, NEW env, Operated(c, raw, env).code = "EOK"
  PROVE  Worked(raw.verb, cl[c].node)
<1> DEFINE n == cl[c].node
<1>1. \A code, w : Done(code, w).code = code
  BY DEF Done
<1>2. CASE n = NullNode
  BY <1>2, BareRes DEF Worked
<1>3. CASE n # NullNode /\ raw.verb = "create"
  <2>1. Operated(c, raw, env) = object_create(world, n, NameOf(raw.rest), DescOf(raw.rest), env)
    BY <1>3 DEF Operated, parser_create
  <2>2. CASE n.kind = "list"
    <3>1. n.name = "pipelines"
      BY <1>1, <2>1, <2>2 DEF object_create, list_create
    <3> QED
      BY <1>3, <2>2, <3>1 DEF Worked
  <2>3. CASE n.kind \in {"event", "action"}
    BY <1>3, <2>3 DEF Worked
  <2>4. CASE n.kind \notin {"list", "event", "action"}
    BY <1>1, <2>1, <2>4 DEF object_create
  <2> QED
    BY <2>2, <2>3, <2>4
<1>4. CASE n # NullNode /\ raw.verb = "update"
  <2>1. Operated(c, raw, env) = parser_update(n, raw.rest, env)
    BY <1>4 DEF Operated
  <2>2. CASE n.kind = "element"
    BY <1>1, <2>1, <2>2 DEF parser_update, object_update
  <2> QED
    BY <1>4, <2>2 DEF Worked
<1> QED
  BY <1>2, <1>3, <1>4 DEF Worked

LEMMA OperateInv ==
  ASSUME Inv, NEW c \in Clients, operate(c)
  PROVE  Inv'
<1> DEFINE raw == Parsed(c)
           n == cl[c].node
           text == IF raw.verb = "read" /\ n # NullNode THEN to_string(world, n) ELSE <<>>
<1>1. cl[c].phase = "found" /\ left' = left
  BY DEF operate
<1>2. Accepted(raw) /\ raw.code = "EOK"
  <2>1. IsSeq(Line1(c).uri) /\ IsSeq(Line1(c).args) /\ raw.code = "EOK"
    BY <1>1 DEF Inv, Known, Line1, Parsed
  <2> QED
    BY <2>1, ParseAccepted DEF Parsed
<1>3. PICK env \in Envs :
        LET done == Operated(c, raw, env)
        IN /\ world' = done.w
           /\ Goto(c, IF done.code = "EOK" THEN "acted" ELSE "done", done.code, n, text)
  BY DEF operate
<1>4. Placed(world, n) /\ Sound(world)
  BY <1>1 DEF Inv, Known
<1>5. Told(raw.verb, n, text)
  <2> HIDE DEF raw, n
  <2> QED
    BY <1>4, TextDoc DEF Told
<1> DEFINE done == Operated(c, raw, env)
           phase == IF done.code = "EOK" THEN "acted" ELSE "done"
<1>6. Fair(world, done) /\ (done.code = "EOK" => Worked(raw.verb, n))
  BY <1>2, OperatedFair, OperatedWorked DEF Inv, Accepted
<1>7. world' = done.w /\ Goto(c, phase, done.code, n, text)
  BY <1>3
<1> HIDE DEF done, raw, text, n
<1>8. phase \in {"found", "acted", "done"} /\ phase # "found" /\ done.code \in Codes
      /\ (phase = "acted" => Worked(raw.verb, n))
  BY <1>6 DEF Fair
<1> HIDE DEF phase
<1>9. Sound(world') /\ Later(world, world')
  BY <1>6, <1>7 DEF Fair, Becomes
<1>10. Placed(world', n)
  BY <1>4, <1>9, PlacedLater
<1>11. cl' = [k \in Clients |-> cl'[k]] /\ \A k \in Clients : Known(world', cl'[k])
  BY <1>1, <1>2, <1>5, <1>7, <1>8, <1>9, <1>10, GotoKnown DEF raw
<1> QED
  BY <1>1, <1>9, <1>11 DEF Inv

\* What is read of the node that a create succeeded on: nothing, a number or a pipeline.
LEMMA CreatedText ==
  ASSUME NEW w, Sound(w), NEW n, Placed(w, n), Worked("create", n), NEW name, NEW env
  PROVE  LET m == object_read(w, n, name, env).node IN m = NullNode \/ Doc(to_string(w, m))
<1> DEFINE m == object_read(w, n, name, env).node
<1>1. \A code, k : Found(code, k).node = k
  BY DEF Found
<1>2. CASE n.kind = "null"
  BY <1>1, <1>2 DEF object_read
<1>3. CASE n.kind \in {"event", "action"}
  BY <1>1, <1>3 DEF object_read, no_reader_read
<1>4. CASE n.kind = "list" /\ n.name = "pipelines"
  <2>1. object_read(w, n, name, env) = list_reader_read(w, n, name)
    BY <1>4 DEF object_read
  <2>2. CASE name = "count"
    <3>1. m = list_reader_read_count(n).node
      BY <2>1, <2>2 DEF list_reader_read
    <3>2. list_reader_read_count(n).node.kind = "count"
      BY DEF list_reader_read_count, Found
    <3> HIDE DEF m
    <3>3. Placed(w, m) /\ m.kind # "element"
      BY <3>1, <3>2, BareRes
    <3>4. Doc(to_string(w, m))
      BY <3>3, TextDoc
    <3> QED
      BY <3>4 DEF m
  <2>3. CASE name # "count"
    <3>1. m = find_child(w, n, name)
      BY <1>1, <2>1, <2>3 DEF list_reader_read, list_reader_read_child
    <3> HIDE DEF m
    <3>2. m # NullNode => Placed(w, m) /\ m.kind # "element"
      BY <1>4, <3>1, ChildPlaced
    <3>3. m # NullNode => Doc(to_string(w, m))
      BY <3>2, TextDoc
    <3> QED
      BY <3>3 DEF m
  <2> QED
    BY <2>2, <2>3
<1> QED
  BY <1>2, <1>3, <1>4 DEF Worked

LEMMA AnswerInv ==
  ASSUME Inv, NEW c \in Clients, answer(c)
  PROVE  Inv'
<1> DEFINE raw == Parsed(c)
           n == cl[c].node
           resp == IF n = NullNode THEN <<>> ELSE Answer(c, raw)
<1>1. cl[c].phase = "acted" /\ left' = left /\ world' = world
  BY DEF answer
<1>2. Goto(c, "done", "EOK", n, resp)
  BY DEF answer
<1>3. /\ Sound(world) /\ Placed(world, n) /\ Worked(raw.verb, n) /\ Told(raw.verb, n, cl[c].resp)
  BY <1>1 DEF Inv, Known, Parsed, Line1
<1>4. Told(raw.verb, n, resp)
  <2>1. CASE n = NullNode
    BY <2>1 DEF Told
  <2>2. CASE n # NullNode /\ raw.verb = "create"
    <3> DEFINE m == object_read(world, n, NameOf(raw.rest)[1], Calm).node
    <3>1. resp = IF m = NullNode THEN <<>> ELSE to_string(world, m)
      BY <2>2 DEF Answer
    <3>2. m = NullNode \/ Doc(to_string(world, m))
      BY <1>3, <2>2, CreatedText
    <3> HIDE DEF m, resp
    <3> QED
      BY <3>1, <3>2 DEF Told
  <2>3. CASE n # NullNode /\ raw.verb = "update"
    <3>1. resp = to_string(world, n)
      BY <2>3 DEF Answer
    <3>2. n.kind # "element"
      BY <1>3, <2>3 DEF Worked
    <3> HIDE DEF n, resp
    <3> QED
      BY <1>3, <3>1, <3>2, TextDoc DEF Told
  <2>4. CASE n # NullNode /\ raw.verb \notin {"create", "update"}
    <3>1. resp = cl[c].resp
      BY <2>4 DEF Answer
    <3> QED
      BY <1>3, <3>1
  <2> QED
    BY <2>1, <2>2, <2>3, <2>4
<1>5. Later(world, world') /\ "EOK" \in Codes
  BY <1>1, <1>3, Same DEF Becomes, Codes
<1> HIDE DEF resp, n
<1>6. cl' = [k \in Clients |-> cl'[k]] /\ \A k \in Clients : Known(world', cl'[k])
  BY <1>1, <1>2, <1>4, <1>5, GotoKnown
<1> QED
  BY <1>1, <1>6 DEF Inv

LEMMA ReceiveInv ==
  ASSUME Inv, NEW c \in Clients, receive(c)
  PROVE  Inv'
<1> DEFINE s == cl[c]
           a == [s EXCEPT !.phase = "sent", !.at = @ + 1, !.node = NullNode, !.code = "EOK",
                          !.resp = <<>>, !.got = Free.got]
           b == [Free EXCEPT !.phase = "end", !.got = s.got]
<1>1. s.phase = "done" /\ left' = left /\ world' = world
  BY DEF receive
<1>2. \/ cl' = [cl EXCEPT ![c] = a] /\ s.at < Len(s.lines)
      \/ cl' = [cl EXCEPT ![c] = b]
  BY DEF receive
<1>3. Known(world', b)
  BY DEF Known, Free, Keys, Phases, Codes
<1>4. ASSUME s.at < Len(s.lines) PROVE Known(world', a)
  <2>1. /\ s = [x \in Keys |-> s[x]] /\ IsSeq(s.lines) /\ s.at \in DOMAIN s.lines
        /\ \A i \in DOMAIN s.lines : IsSeq(s.lines[i].uri) /\ IsSeq(s.lines[i].args)
    BY <1>1 DEF Inv, Known
  <2> HIDE DEF s
  <2>2. /\ a = [x \in Keys |-> a[x]] /\ a.phase = "sent" /\ a.code = "EOK" /\ a.lines = s.lines
        /\ a.at = s.at + 1
    BY <2>1 DEF Keys
  <2>3. s.at + 1 \in DOMAIN s.lines
    BY <1>4, <2>1, SeqDomain
  <2> HIDE DEF a
  <2> QED
    BY <2>1, <2>2, <2>3 DEF Known, Phases, Codes
<1> HIDE DEF a, b
<1>5. cl' = [k \in Clients |-> cl'[k]] /\ \A k \in Clients : Known(world', cl'[k])
  BY <1>1, <1>2, <1>3, <1>4 DEF Inv
<1> QED
  BY <1>1, <1>5 DEF Inv

LEMMA SettleInv ==
  ASSUME Inv, NEW id \in DOMAIN world.inst, settle(id)
  PROVE  Inv'
<1> DEFINE a == [world.inst[id] EXCEPT !.cur = world.inst[id].goal]
           b == [world.inst[id] EXCEPT !.goal = world.inst[id].cur]
<1>1. IsPipe(world.inst[id])
  BY InstPipe DEF Inv
<1> DEFINE r == world.inst[id]
<1>2. /\ a = [x \in Fields |-> a[x]] /\ b = [x \in Fields |-> b[x]]
      /\ {a.goal, a.cur, b.goal, b.cur} \subseteq States
      /\ \A x \in Fields \ {"goal", "cur"} : a[x] = r[x] /\ b[x] = r[x]
  BY ONLY <1>1, PipeParts DEF Fields
<1>3. world' = [world EXCEPT !.inst[id] = a] \/ world' = [world EXCEPT !.inst[id] = b]
  BY DEF settle
<1> HIDE DEF a, b, r
<1>4. /\ a.name = r.name /\ a.lists = r.lists /\ a.elements = r.elements /\ a.vals = r.vals
      /\ b.name = r.name /\ b.lists = r.lists /\ b.elements = r.elements /\ b.vals = r.vals
  BY ONLY <1>2 DEF Fields
<1>5. IsPipe(a) /\ Kept(r, a) /\ IsPipe(b) /\ Kept(r, b)
  BY <1>1, <1>2, <1>4 DEF IsPipe, Kept, r
<1>6. Becomes(world, world')
  BY <1>3, <1>5, Changed DEF Inv, r
<1>7. Sound(world') /\ Later(world, world') /\ cl' = cl /\ left' = left
  BY <1>6 DEF Becomes, settle
<1>8. \A c \in Clients : Known(world', cl'[c])
  BY <1>7, KnownLater DEF Inv
<1> QED
  BY <1>7, <1>8 DEF Inv

\* The invariant holds in every state: no step of a request, whatever the other clients did since
\* its last one, leaves a node that is not there or a text that is no document.
LEMMA Invariant == Spec => []Inv
<1>1. Init => Inv
  BY InitInv
<1>2. Inv /\ [Next]_vars => Inv'
  <2> SUFFICES ASSUME Inv, [Next]_vars PROVE Inv'
    OBVIOUS
  <2>1. CASE UNCHANGED vars
    BY <2>1 DEF vars, Inv
  <2>2. CASE Next
    BY <2>2, CallInv, ResolveInv, OperateInv, AnswerInv, ReceiveInv, SettleInv DEF Next
  <2> QED
    BY <2>1, <2>2
<1> QED
  BY <1>1, <1>2, PTL DEF Spec

\* The control plane is well typed: gstd_parser_parse_cmd ends every call with a code of
\* GstdReturnCode, the session lists each pipeline that gstd_pipeline_new built once at most, and
\* a client that waits for an answer has a line of its call being served.
THEOREM ControlTypeCorrect == Spec => []TypeOK
<1>1. Inv => TypeOK
  BY DEF Inv, TypeOK, Sound, IsPipe, Known, Phases
<1> QED
  BY <1>1, Invariant, PTL

\* Every text that gstd_object_to_string, gstd_list_to_string, gstd_property_to_string and the rest
\* put together, and gstd_parser_parse_cmd writes to a client, is one JSON document, although it is
\* made of pieces read while other requests change what they describe; only an element's text, and
\* that of a list which gstd_list_to_string prints a name into that would have to be escaped, are
\* not shown to be.
THEOREM RepliesAreDocuments == Spec => []RepliesWellFormed
<1>1. Inv => RepliesWellFormed
  <2> SUFFICES ASSUME Inv, NEW c \in Clients, cl[c].phase = "done", ~ReadsElement(c),
                      ~PrintsRaw(Reply(cl[c].code, cl[c].resp))
               PROVE  IsDocument(Reply(cl[c].code, cl[c].resp))
    BY DEF RepliesWellFormed
  <2>1. Told(Parsed(c).verb, cl[c].node, cl[c].resp)
    BY DEF Inv, Known, Parsed, Line1
  <2>2. cl[c].resp = <<>> \/ Doc(cl[c].resp)
    BY <2>1 DEF Told, ReadsElement
  <2>3. \A t \in Texts(Reply(cl[c].code, cl[c].resp)) : Shaped(t)
    BY <2>2, ReplyDoc, DocShaped
  <2> QED
    BY <2>3 DEF PrintsRaw, IsDocument, WellFormed
<1> QED
  BY <1>1, Invariant, PTL
=============================================================================
