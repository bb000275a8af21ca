------------------------------ MODULE WireProofs ------------------------------
(***************************************************************************)
(* Proofs about WireCodec: the way of the arguments from the hook's encoder  *)
(* to the log, for any arguments and texts, wherever the event cut them;     *)
(* of the arguments that a hook frames by hand, for those that need neither  *)
(* a clip nor an escape.                                                     *)
(***************************************************************************)
EXTENDS WireCodec, HookPathProofs, SequenceTheorems

-----------------------------------------------------------------------------
\* A step repeated over a sequence.
IsRun(r, S, advance, z, s) ==
  r \in [0 .. Len(s) -> S] /\ r[0] = z /\ \A i \in 1 .. Len(s) : r[i] = advance[<<r[i - 1], s[i]>>]

LEMMA RunsExist ==
  ASSUME NEW S, NEW B, NEW advance \in [S \X B -> S], NEW z \in S, NEW s \in Seq(B)
  PROVE  \E r : IsRun(r, S, advance, z, s)
<1> DEFINE N == Len(s)
           Good(n) == \E r \in [0 .. n -> S] :
                        r[0] = z /\ \A i \in 1 .. n : r[i] = advance[<<r[i - 1], s[i]>>]
           P == {n \in Nat : n <= N => Good(n)}
<1>1. N \in Nat /\ \A i \in 1 .. N : s[i] \in B
  OBVIOUS
<1>2. 0 \in P
  <2> DEFINE r == [i \in 0 .. 0 |-> z]
  <2>1. r \in [0 .. 0 -> S] /\ r[0] = z /\ \A i \in 1 .. 0 : r[i] = advance[<<r[i - 1], s[i]>>]
    OBVIOUS
  <2> HIDE DEF r
  <2> QED
    BY <2>1
<1>3. ASSUME NEW n \in Nat, n \in P
      PROVE  n + 1 \in P
  <2> SUFFICES ASSUME n + 1 <= N PROVE Good(n + 1)
    OBVIOUS
  <2>1. PICK r \in [0 .. n -> S] : r[0] = z /\ \A i \in 1 .. n : r[i] = advance[<<r[i - 1], s[i]>>]
    BY <1>1, <1>3
  <2> DEFINE q == [i \in 0 .. n + 1 |-> IF i = n + 1 THEN advance[<<r[n], s[n + 1]>>] ELSE r[i]]
  <2>2. r[n] \in S /\ s[n + 1] \in B
    BY <1>1, <2>1
  <2>3. advance[<<r[n], s[n + 1]>>] \in S
    BY <2>2
  <2>4. q \in [0 .. n + 1 -> S]
    <3>1. \A i \in 0 .. n + 1 : i = n + 1 \/ i \in 0 .. n
      OBVIOUS
    <3> QED
      BY <2>1, <2>3, <3>1
  <2>5. \A i \in 0 .. n : q[i] = r[i]
    OBVIOUS
  <2>6. q[n + 1] = advance[<<q[n], s[n + 1]>>]
    <3>1. n \in 0 .. n /\ n + 1 \in 0 .. n + 1
      OBVIOUS
    <3>2. q[n + 1] = advance[<<r[n], s[n + 1]>>] /\ q[n] = r[n]
      BY <2>5, <3>1
    <3> HIDE DEF q
    <3> QED
      BY <3>2
  <2> HIDE DEF q
  <2>7. q[0] = z
    BY <2>1, <2>5
  <2>8. ASSUME NEW i \in 1 .. n + 1
        PROVE  q[i] = advance[<<q[i - 1], s[i]>>]
    <3>1. CASE i = n + 1
      <4>1. i - 1 = n
        BY <3>1
      <4> QED
        BY <2>6, <3>1, <4>1
    <3>2. CASE i # n + 1
      <4>1. i \in 1 .. n /\ i \in 0 .. n /\ i - 1 \in 0 .. n
        BY <3>2
      <4> QED
        BY <2>1, <2>5, <4>1
    <3> QED
      BY <3>1, <3>2
  <2> QED
    BY <2>4, <2>7, <2>8
<1> HIDE DEF P
<1>4. N \in P
  BY <1>1, <1>2, <1>3, SetInduction
<1>5. N <= N
  BY <1>1
<1> HIDE DEF Good
<1>6. Good(N)
  BY <1>4, <1>5 DEF P
<1> QED
  BY <1>6 DEF Good, IsRun

-----------------------------------------------------------------------------
(* Sequences grow at the end.                                              *)

\* Induction over sequences, for a set instead of a predicate.
LEMMA SnocInduction ==
  ASSUME NEW S, NEW P, <<>> \in P,
         \A s \in Seq(S) : \A x \in S : s \in P => Append(s, x) \in P
  PROVE  \A s \in Seq(S) : s \in P
<1> DEFINE Q == {n \in Nat : \A s \in Seq(S) : Len(s) = n => s \in P}
<1>1. 0 \in Q
  OBVIOUS
<1>2. ASSUME NEW n \in Nat, n \in Q
      PROVE  n + 1 \in Q
  <2> SUFFICES ASSUME NEW s \in Seq(S), Len(s) = n + 1 PROVE s \in P
    OBVIOUS
  <2>1. s # <<>>
    OBVIOUS
  <2>2. PICK u \in Seq(S), x \in S : s = Append(u, x)
    BY <2>1, SequenceEmptyOrAppend
  <2>3. Len(u) = n
    BY <2>2
  <2>4. u \in P
    BY <1>2, <2>3
  <2> QED
    BY <2>2, <2>4
<1> HIDE DEF Q
<1>3. \A n \in Nat : n \in Q
  BY <1>1, <1>2, SetInduction
<1>4. \A s \in Seq(S) : Len(s) \in Nat
  OBVIOUS
<1> QED
  BY <1>3, <1>4 DEF Q

\* Two functions that take the same steps are the same.
InStep(n, f, g) == f[0] = g[0] /\ \A i \in 1 .. n : f[i - 1] = g[i - 1] => f[i] = g[i]

LEMMA StepsAgree ==
  ASSUME NEW n \in Nat, NEW f, NEW g, InStep(n, f, g)
  PROVE  \A i \in 0 .. n : f[i] = g[i]
<1> DEFINE P == {m \in Nat : m <= n => f[m] = g[m]}
<1>0. f[0] = g[0] /\ \A i \in 1 .. n : f[i - 1] = g[i - 1] => f[i] = g[i]
  BY DEF InStep
<1>1. 0 \in P
  BY <1>0
<1>2. ASSUME NEW m \in Nat, m \in P
      PROVE  m + 1 \in P
  <2> SUFFICES ASSUME m + 1 <= n PROVE f[m + 1] = g[m + 1]
    OBVIOUS
  <2>1. PICK i \in 1 .. n : i = m + 1
    OBVIOUS
  <2>2. i - 1 = m
    BY <2>1
  <2>3. f[i - 1] = g[i - 1]
    BY <1>2, <2>2
  <2> QED
    BY <1>0, <2>1, <2>3
<1> HIDE DEF P
<1>3. \A m \in Nat : m \in P
  BY <1>1, <1>2, SetInduction
<1> QED
  BY <1>3 DEF P

\* A sequence cut in two.
Cut(s, p, v) == s = p \o v

\* Two cuts of one sequence: one of the first halves begins with the other.
LEMMA LongerHalf ==
  ASSUME NEW S, NEW s \in Seq(S), NEW p \in Seq(S), NEW v \in Seq(S), NEW x \in Seq(S), NEW y \in Seq(S),
         Cut(s, p, v), Cut(s, x, y), Len(p) <= Len(x)
  PROVE  \E w \in Seq(S) : Cut(x, p, w) /\ Cut(v, w, y)
<1>0. p \o v = x \o y
  BY DEF Cut
<1> DEFINE w == SubSeq(x, Len(p) + 1, Len(x))
<1>1. Len(p) \in Nat /\ Len(x) \in Nat
  OBVIOUS
<1>2. w \in Seq(S) /\ Len(w) = Len(x) - Len(p) /\ \A i \in 1 .. Len(w) : w[i] = x[Len(p) + i]
  BY <1>1
<1> HIDE DEF w
<1>3. /\ p \o w \in Seq(S) /\ Len(p \o w) = Len(x)
      /\ \A i \in 1 .. Len(x) : (p \o w)[i] = IF i <= Len(p) THEN p[i] ELSE w[i - Len(p)]
  BY <1>1, <1>2, ConcatProperties
<1>4. \A i \in 1 .. Len(p) : p[i] = x[i]
  <2> TAKE i \in 1 .. Len(p)
  <2>1. (p \o v)[i] = p[i] /\ (x \o y)[i] = x[i]
    OBVIOUS
  <2> QED
    BY <1>0, <2>1
<1>5. \A i \in 1 .. Len(x) : (p \o w)[i] = x[i]
  <2> TAKE i \in 1 .. Len(x)
  <2>1. CASE i <= Len(p)
    BY <1>1, <1>3, <1>4, <2>1
  <2>2. CASE ~(i <= Len(p))
    <3>1. i - Len(p) \in 1 .. Len(w) /\ Len(p) + (i - Len(p)) = i
      BY <1>1, <1>2, <2>2
    <3> QED
      BY <1>2, <1>3, <2>2, <3>1
  <2> QED
    BY <2>1, <2>2
<1>6. x = p \o w
  BY <1>3, <1>5, SeqEqual
<1>7. p \o v = p \o (w \o y)
  <2>0. w \in Seq(S)
    BY <1>2
  <2>1. (p \o w) \o y = p \o (w \o y)
    BY <2>0
  <2> QED
    BY <1>0, <1>6, <2>1
<1>8. w \o y \in Seq(S)
  BY <1>2
<1>9. v = w \o y
  BY <1>7, <1>8, ConcatSimplifications
<1>10. Cut(x, p, w) /\ Cut(v, w, y)
  BY <1>6, <1>9 DEF Cut
<1> QED
  BY <1>2, <1>10

LEMMA TwoCuts ==
  ASSUME NEW S, NEW s \in Seq(S), NEW p \in Seq(S), NEW v \in Seq(S), NEW x \in Seq(S), NEW y \in Seq(S),
         Cut(s, p, v), Cut(s, x, y)
  PROVE  \/ \E w \in Seq(S) : Cut(x, p, w) /\ Cut(v, w, y)
         \/ \E w \in Seq(S) : Cut(p, x, w) /\ Cut(y, w, v)
<1>1. Len(p) <= Len(x) \/ Len(x) <= Len(p)
  OBVIOUS
<1> QED
  BY <1>1, LongerHalf

\* FlattenSeq adds what is appended at the end.
LEMMA FlattenSnoc ==
  ASSUME NEW S, NEW s \in Seq(Seq(S)), NEW x \in Seq(S)
  PROVE  /\ FlattenSeq(s) \in Seq(S)
         /\ FlattenSeq(Append(s, x)) = FlattenSeq(s) \o x
<1> DEFINE N == Len(s)
           t == Append(s, x)
           F(u, n) == CHOOSE f : f = [i \in 1 .. n |-> IF i = 1 THEN u[i] ELSE f[i - 1] \o u[i]]
           f == F(s, N)
           g == F(t, N + 1)
<1>1. N \in Nat /\ t \in Seq(Seq(S)) /\ Len(t) = N + 1 /\ t[N + 1] = x /\ \A i \in 1 .. N : t[i] = s[i]
  OBVIOUS
<1> HIDE DEF t
<1>2. \A i \in 1 .. N : f[i] = IF i = 1 THEN s[i] ELSE f[i - 1] \o s[i]
  <2>1. f = [i \in 1 .. N |-> IF i = 1 THEN s[i] ELSE f[i - 1] \o s[i]]
    BY <1>1, FlattensExist
  <2> HIDE DEF F
  <2> QED
    BY <2>1
<1>3. \A i \in 1 .. N + 1 : g[i] = IF i = 1 THEN t[i] ELSE g[i - 1] \o t[i]
  <2>0. N + 1 \in Nat
    BY <1>1
  <2>1. g = [i \in 1 .. N + 1 |-> IF i = 1 THEN t[i] ELSE g[i - 1] \o t[i]]
    BY <2>0, FlattensExist
  <2> HIDE DEF F
  <2> QED
    BY <2>1
<1>4. FlattenSeq(t) = g[N + 1]
  <2>1. Len(t) # 0
    BY <1>1
  <2> QED
    BY <1>1, <2>1 DEF FlattenSeq
<1>5. FlattenSeq(s) \in Seq(S)
  BY FlattenLayout
<1>6. CASE N = 0
  <2>1. FlattenSeq(s) = <<>>
    BY <1>6 DEF FlattenSeq
  <2>2. <<>> \o x = x
    BY ConcatEmptySeq
  <2>3. 1 \in 1 .. N + 1 /\ N + 1 = 1
    BY <1>6
  <2> HIDE DEF F
  <2>4. g[N + 1] = x
    BY <1>1, <1>3, <2>3
  <2> QED
    BY <1>4, <1>5, <2>1, <2>2, <2>4 DEF t
<1>7. CASE N # 0
  <2>1. FlattenSeq(s) = f[N]
    BY <1>7 DEF FlattenSeq
  <2> HIDE DEF F
  <2> DEFINE a == [i \in 0 .. N |-> IF i = 0 THEN <<>> ELSE f[i]]
             b == [i \in 0 .. N |-> IF i = 0 THEN <<>> ELSE g[i]]
  <2>2. a[0] = b[0]
    BY <1>1
  <2>3. ASSUME NEW i \in 1 .. N, a[i - 1] = b[i - 1]
        PROVE  a[i] = b[i]
    <3>1. i \in 0 .. N /\ i # 0 /\ i \in 1 .. N + 1 /\ i - 1 \in 0 .. N
      BY <1>1
    <3>2. a[i] = f[i] /\ b[i] = g[i] /\ t[i] = s[i]
      BY <1>1, <3>1
    <3>3. CASE i = 1
      BY <1>2, <1>3, <3>1, <3>2, <3>3
    <3>4. CASE i # 1
      <4>1. i - 1 # 0
        BY <3>4
      <4>2. a[i - 1] = f[i - 1] /\ b[i - 1] = g[i - 1]
        BY <3>1, <4>1
      <4>3. f[i] = f[i - 1] \o s[i]
        BY <1>2, <3>4
      <4>4. g[i] = g[i - 1] \o t[i]
        BY <1>3, <3>1, <3>4
      <4> HIDE DEF a, b
      <4> QED
        BY <2>3, <3>2, <4>2, <4>3, <4>4
    <3> QED
      BY <3>3, <3>4
  <2>4. \A i \in 0 .. N : a[i] = b[i]
    <3> HIDE DEF a, b, N
    <3>1. InStep(N, a, b)
      BY <2>2, <2>3 DEF InStep
    <3> QED
      BY <1>1, <3>1, StepsAgree
  <2>5. N \in 0 .. N
    BY <1>1
  <2>6. f[N] = g[N]
    BY <1>7, <2>4, <2>5
  <2>7. g[N + 1] = g[N] \o x
    <3>1. PICK i \in 1 .. N + 1 : i = N + 1
      BY <1>1
    <3>2. i # 1 /\ i - 1 = N
      BY <1>1, <1>7, <3>1
    <3>3. g[i] = g[i - 1] \o t[i]
      BY <1>3, <3>2
    <3>4. g[i - 1] = g[N] /\ t[i] = x /\ g[i] = g[N + 1]
      BY <1>1, <3>1, <3>2
    <3> QED
      BY <3>3, <3>4
  <2> QED
    BY <1>4, <1>5, <2>1, <2>6, <2>7 DEF t
<1> QED
  BY <1>6, <1>7

LEMMA FlattenEmpty == FlattenSeq(<<>>) = <<>>
  BY DEF FlattenSeq

LEMMA FirstOfAppend ==
  ASSUME NEW S, NEW s \in Seq(S), NEW x \in S
  PROVE  /\ SubSeq(Append(s, x), 1, Len(s)) = s
         /\ \A m \in 0 .. Len(s) : SubSeq(Append(s, x), 1, m) = SubSeq(s, 1, m)
<1> DEFINE t == Append(s, x)
<1>1. Len(s) \in Nat /\ t \in Seq(S) /\ Len(t) = Len(s) + 1 /\ \A i \in 1 .. Len(s) : t[i] = s[i]
  OBVIOUS
<1> HIDE DEF t
<1>2. ASSUME NEW m \in 0 .. Len(s)
      PROVE  SubSeq(t, 1, m) = SubSeq(s, 1, m)
  <2>1. SubSeq(t, 1, m) \in Seq(S) /\ Len(SubSeq(t, 1, m)) = m /\ \A i \in 1 .. m : SubSeq(t, 1, m)[i] = t[i]
    BY <1>1
  <2>2. SubSeq(s, 1, m) \in Seq(S) /\ Len(SubSeq(s, 1, m)) = m /\ \A i \in 1 .. m : SubSeq(s, 1, m)[i] = s[i]
    BY <1>1
  <2>3. \A i \in 1 .. m : t[i] = s[i]
    BY <1>1
  <2> QED
    BY <2>1, <2>2, <2>3, SeqEqual
<1>3. SubSeq(s, 1, Len(s)) = s
  BY SubSeqFull
<1> QED
  BY <1>1, <1>2, <1>3 DEF t

LEMMA CutEnds ==
  ASSUME NEW S, NEW s \in Seq(S)
  PROVE  Cut(s, s, <<>>) /\ Cut(s, <<>>, s)
BY ConcatEmptySeq DEF Cut

LEMMA CutFacts ==
  ASSUME NEW S, NEW s \in Seq(S), NEW p \in Seq(S), NEW v \in Seq(S), Cut(s, p, v)
  PROVE  /\ v = <<>> => p = s
         /\ p = <<>> => v = s
         /\ s = <<>> => p = <<>> /\ v = <<>>
         /\ Len(s) = Len(p) + Len(v)
         /\ \A i \in 1 .. Len(p) : s[i] = p[i]
         /\ \A i \in 1 .. Len(v) : s[Len(p) + i] = v[i]
<1>1. s \o <<>> = s /\ <<>> \o s = s /\ p \o <<>> = p /\ <<>> \o v = v
  BY ConcatEmptySeq
<1>2. /\ Len(p \o v) = Len(p) + Len(v)
      /\ \A i \in 1 .. Len(p) : (p \o v)[i] = p[i]
      /\ \A i \in 1 .. Len(v) : (p \o v)[Len(p) + i] = v[i]
  OBVIOUS
<1>3. s = p \o v
  BY DEF Cut
<1>4. s = <<>> => p = <<>> /\ v = <<>>
  BY <1>2, <1>3
<1> QED
  BY <1>1, <1>2, <1>3, <1>4 DEF Cut

LEMMA CutOfCut ==
  ASSUME NEW S, NEW v \in Seq(S), NEW w \in Seq(S), NEW x \in Seq(S), NEW y \in Seq(S), NEW z \in Seq(S),
         Cut(v, w, x), Cut(w, y, z)
  PROVE  z \o x \in Seq(S) /\ Cut(v, y, z \o x)
<1>1. (y \o z) \o x = y \o (z \o x)
  OBVIOUS
<1>2. z \o x \in Seq(S)
  OBVIOUS
<1> QED
  BY <1>1, <1>2 DEF Cut

\* A first half of a flattened sequence: some of the pieces, and a part of the next.
CutAt(qs, p, v, m, w, y, z) ==
  Cut(p, FlattenSeq(SubSeq(qs, 1, m)), w) /\ Cut(qs[m + 1], w, y) /\ Cut(v, y, z) /\ y # <<>>

LEMMA FlattenCut ==
  ASSUME NEW S, NEW qs0 \in Seq(Seq(S)), NEW p0 \in Seq(S), NEW v0 \in Seq(S),
         Cut(FlattenSeq(qs0), p0, v0), v0 # <<>>
  PROVE  \E m \in 0 .. Len(qs0) - 1 : \E w, y, z \in Seq(S) : CutAt(qs0, p0, v0, m, w, y, z)
<1> DEFINE Q == Seq(S)
           CutFound(qs, p, v) == \E m \in 0 .. Len(qs) - 1 : \E w, y, z \in Q : CutAt(qs, p, v, m, w, y, z)
           P == {qs \in Seq(Q) : \A p, v \in Q : Cut(FlattenSeq(qs), p, v) => v = <<>> \/ CutFound(qs, p, v)}
<1>1. <<>> \in P
  <2>1. \A p, v \in Q : Cut(<<>>, p, v) => v = <<>>
    <3>1. <<>> \in Q
      OBVIOUS
    <3> QED
      BY <3>1, CutFacts
  <2>2. <<>> \in Seq(Q)
    OBVIOUS
  <2> HIDE DEF CutFound
  <2> QED
    BY <2>1, <2>2, FlattenEmpty
<1>2. ASSUME NEW qs \in Seq(Q), NEW x \in Q, qs \in P
      PROVE  Append(qs, x) \in P
  <2> DEFINE t == Append(qs, x)
             F == FlattenSeq(qs)
             n == Len(qs)
  <2>1. t \in Seq(Q) /\ Len(t) = n + 1 /\ n \in Nat /\ t[n + 1] = x /\ \A i \in 1 .. n : t[i] = qs[i]
    OBVIOUS
  <2>2. F \in Q /\ FlattenSeq(t) = F \o x /\ F \o x \in Q /\ Cut(F \o x, F, x)
    BY FlattenSnoc DEF Cut
  <2>3. SubSeq(t, 1, n) = qs /\ \A m \in 0 .. n : SubSeq(t, 1, m) = SubSeq(qs, 1, m)
    BY FirstOfAppend
  <2> HIDE DEF t, n
  <2> SUFFICES ASSUME NEW p \in Q, NEW v \in Q, Cut(F \o x, p, v), v # <<>>
               PROVE  CutFound(t, p, v)
    <3> HIDE DEF F, Q, CutFound
    <3> QED
      BY <2>1, <2>2 DEF t
  <2> HIDE DEF F
  <2>4. <<>> \in Q
    OBVIOUS
  <2>5. ASSUME NEW w \in Q, NEW y \in Q, NEW z \in Q, Cut(p, F, w), Cut(x, w, y), Cut(v, y, z), y # <<>>
        PROVE  CutFound(t, p, v)
    <3>1. CutAt(t, p, v, n, w, y, z)
      BY <2>1, <2>3, <2>5 DEF CutAt, F
    <3>2. n \in 0 .. Len(t) - 1
      BY <2>1
    <3> HIDE DEF Q
    <3> QED
      BY <3>1, <3>2
  <2>6. ASSUME NEW w \in Q, Cut(F, p, w), Cut(v, w, x)
        PROVE  CutFound(t, p, v)
    <3>1. CASE w = <<>>
      <4>1. p = F /\ v = x
        BY <2>2, <2>6, <3>1, CutFacts
      <4>2. Cut(p, F, <<>>) /\ Cut(x, <<>>, x) /\ Cut(v, x, <<>>)
        BY <2>2, <4>1, CutEnds
      <4> HIDE DEF Q, CutFound
      <4> QED
        BY <2>4, <2>5, <4>1, <4>2
    <3>2. CASE w # <<>>
      <4>1. CutFound(qs, p, w)
        <5> HIDE DEF Q, CutFound
        <5> QED
          BY <1>2, <2>6, <3>2 DEF F
      <4>2. PICK m \in 0 .. n - 1, a \in Q, y \in Q, z \in Q : CutAt(qs, p, w, m, a, y, z)
        <5> HIDE DEF Q
        <5> QED
          BY <4>1 DEF n
      <4>3. z \o x \in Q /\ Cut(v, y, z \o x)
        <5>1. Cut(w, y, z)
          BY <4>2 DEF CutAt
        <5> QED
          BY <2>6, <5>1, CutOfCut
      <4>4. CutAt(t, p, v, m, a, y, z \o x)
        <5>1. m \in 0 .. n /\ m + 1 \in 1 .. n
          BY <2>1
        <5> QED
          BY <2>1, <2>3, <4>2, <4>3, <5>1 DEF CutAt
      <4>5. m \in 0 .. Len(t) - 1
        BY <2>1
      <4> HIDE DEF Q
      <4> QED
        BY <4>3, <4>4, <4>5
    <3> QED
      BY <3>1, <3>2
  <2>7. ASSUME NEW w \in Q, Cut(p, F, w), Cut(x, w, v)
        PROVE  CutFound(t, p, v)
    <3>1. Cut(v, v, <<>>)
      BY CutEnds
    <3> HIDE DEF Q, CutFound
    <3> QED
      BY <2>4, <2>5, <2>7, <3>1
  <2>8. \/ \E w \in Q : Cut(F, p, w) /\ Cut(v, w, x)
        \/ \E w \in Q : Cut(p, F, w) /\ Cut(x, w, v)
    BY <2>2, TwoCuts
  <2> HIDE DEF Q, CutFound
  <2> QED
    BY <2>6, <2>7, <2>8
<1> HIDE DEF P
<1>3. \A qs \in Seq(Q) : qs \in P
  <2> HIDE DEF Q
  <2> QED
    BY <1>1, <1>2, SnocInduction
<1>4. CutFound(qs0, p0, v0)
  <2>1. qs0 \in P
    BY <1>3
  <2> HIDE DEF CutFound
  <2> QED
    BY <2>1 DEF P
<1> QED
  BY <1>4

-----------------------------------------------------------------------------
(* Bytes: escaping, and what the reader's parsers do with one more byte.   *)

\* None of the bytes of s is one of B.
Without(s, B) == \A i \in 1 .. Len(s) : s[i] \notin B

LEMMA FreeParts ==
  ASSUME NEW S, NEW s \in Seq(S), NEW p \in Seq(S), NEW v \in Seq(S), Cut(s, p, v), NEW B
  PROVE  Without(s, B) <=> Without(p, B) /\ Without(v, B)
<1>1. /\ Len(s) \in Nat /\ Len(p) \in Nat /\ Len(v) \in Nat
      /\ Len(s) = Len(p) + Len(v)
      /\ \A i \in 1 .. Len(p) : s[i] = p[i]
      /\ \A i \in 1 .. Len(v) : s[Len(p) + i] = v[i]
  <2>1. Len(s) \in Nat /\ Len(p) \in Nat /\ Len(v) \in Nat
    OBVIOUS
  <2> QED
    BY <2>1, CutFacts
<1> DEFINE a == Len(p)
           b == Len(v)
<1>2. a \in Nat /\ b \in Nat /\ Len(s) = a + b
  BY <1>1
<1> HIDE DEF a, b
<1>3. ASSUME Without(s, B)
      PROVE  Without(p, B) /\ Without(v, B)
  <2>1. ASSUME NEW i \in 1 .. a PROVE p[i] \notin B
    <3>1. i \in 1 .. Len(s)
      BY <1>2
    <3> QED
      BY <1>1, <1>3, <3>1 DEF Without, a
  <2>2. ASSUME NEW i \in 1 .. b PROVE v[i] \notin B
    <3>1. a + i \in 1 .. Len(s)
      BY <1>2
    <3> QED
      BY <1>1, <1>3, <3>1 DEF Without, a, b
  <2> QED
    BY <2>1, <2>2 DEF Without, a, b
<1>4. ASSUME Without(p, B), Without(v, B)
      PROVE  Without(s, B)
  <2> SUFFICES ASSUME NEW i \in 1 .. Len(s) PROVE s[i] \notin B
    BY DEF Without
  <2>1. CASE i <= a
    <3>1. i \in 1 .. a
      BY <2>1, <1>2
    <3> QED
      BY <1>1, <1>4, <3>1 DEF Without, a
  <2>2. CASE ~(i <= a)
    <3>1. PICK j \in 1 .. b : i = a + j
      <4>1. i - a \in 1 .. b /\ i = a + (i - a)
        BY <1>2, <2>2
      <4> QED
        BY <4>1
    <3> QED
      BY <1>1, <1>4, <3>1 DEF Without, a, b
  <2> QED
    BY <2>1, <2>2
<1> QED
  BY <1>3, <1>4

Piece(b) == IF b \in Framing THEN <<Esc, Flip(b)>> ELSE <<b>>

LEMMA FlipFacts ==
  /\ \A b \in Nat : Flip(b) \in Nat
  /\ \A b \in Framing : Flip(b) > 64 /\ Flip(b) < 128 /\ Flip(Flip(b)) = b
  BY DEF Framing, Flip

LEMMA PieceFacts ==
  ASSUME NEW b \in Nat
  PROVE  Piece(b) \in Seq(Nat) /\ Piece(b) # <<>> /\ Without(Piece(b), {1, 2, 3, 4, 26})
<1>1. CASE b \in Framing
  <2>1. Flip(b) \in Nat /\ Flip(b) > 64
    BY <1>1, FlipFacts
  <2>2. Piece(b) = <<5, Flip(b)>>
    BY <1>1 DEF Piece, Esc
  <2> QED
    BY <2>1, <2>2 DEF Without
<1>2. CASE b \notin Framing
  <2>1. Piece(b) = <<b>>
    BY <1>2 DEF Piece
  <2> QED
    BY <1>2, <2>1 DEF Without, Framing
<1> QED
  BY <1>1, <1>2

LEMMA EscapeSnoc ==
  ASSUME NEW s \in Seq(Nat), NEW b \in Nat
  PROVE  Escape(s) \in Seq(Nat) /\ Escape(Append(s, b)) = Escape(s) \o Piece(b)
<1> DEFINE t == Append(s, b)
           qs == [i \in DOMAIN s |-> Piece(s[i])]
           qt == [i \in DOMAIN t |-> Piece(t[i])]
<1>1. Len(s) \in Nat /\ DOMAIN s = 1 .. Len(s) /\ \A i \in 1 .. Len(s) : s[i] \in Nat
  OBVIOUS
<1>2. t \in Seq(Nat) /\ DOMAIN t = 1 .. Len(s) + 1 /\ Len(t) = Len(s) + 1 /\ t[Len(s) + 1] = b
      /\ \A i \in 1 .. Len(s) : t[i] = s[i]
  OBVIOUS
<1>3. Escape(s) = FlattenSeq(qs) /\ Escape(t) = FlattenSeq(qt)
  BY DEF Escape, Piece
<1> HIDE DEF t
<1>4. \A i \in 1 .. Len(s) : Piece(s[i]) \in Seq(Nat)
  BY <1>1, PieceFacts
<1>5. qs \in Seq(Seq(Nat)) /\ Len(qs) = Len(s) /\ \A i \in 1 .. Len(s) : qs[i] = Piece(s[i])
  BY <1>1, <1>4
<1>6. Piece(b) \in Seq(Nat)
  BY PieceFacts
<1>7. qt = Append(qs, Piece(b))
  <2>1. qt = [i \in 1 .. Len(s) + 1 |-> Piece(t[i])]
    BY <1>2
  <2>2. Append(qs, Piece(b)) \in Seq(Seq(Nat)) /\ Len(Append(qs, Piece(b))) = Len(s) + 1
    BY <1>5, <1>6
  <2>3. \A i \in 1 .. Len(s) + 1 : Append(qs, Piece(b))[i] = Piece(t[i])
    <3> TAKE i \in 1 .. Len(s) + 1
    <3>1. CASE i = Len(s) + 1
      BY <1>2, <1>5, <1>6, <3>1
    <3>2. CASE i # Len(s) + 1
      <4>1. i \in 1 .. Len(s)
        BY <1>1, <3>2
      <4>2. Append(qs, Piece(b))[i] = qs[i]
        BY <1>5, <1>6, <4>1
      <4> QED
        BY <1>2, <1>5, <4>1, <4>2
    <3> QED
      BY <3>1, <3>2
  <2>4. \A i \in 1 .. Len(s) + 1 : t[i] \in Nat
    BY <1>2
  <2>5. qt \in Seq(Seq(Nat)) /\ Len(qt) = Len(s) + 1 /\ \A i \in 1 .. Len(s) + 1 : qt[i] = Piece(t[i])
    <3> DEFINE n == Len(s) + 1
    <3>0. n \in Nat
      BY <1>1
    <3>1. \A i \in 1 .. n : Piece(t[i]) \in Seq(Nat)
      <4> HIDE DEF qs, qt
      <4> QED
        BY <2>4, PieceFacts
    <3> HIDE DEF n
    <3> QED
      BY <2>1, <3>0, <3>1 DEF n
  <2> HIDE DEF qs, qt
  <2> QED
    BY <2>2, <2>3, <2>5, SeqEqual
<1> HIDE DEF qs, qt
<1>8. FlattenSeq(qs) \in Seq(Nat) /\ FlattenSeq(Append(qs, Piece(b))) = FlattenSeq(qs) \o Piece(b)
  BY <1>5, <1>6, FlattenSnoc
<1> QED
  BY <1>3, <1>7, <1>8 DEF t

LEMMA EscapeEmpty == Escape(<<>>) = <<>>
<1>1. [i \in DOMAIN <<>> |-> IF <<>>[i] \in Framing THEN <<Esc, Flip(<<>>[i])>> ELSE <<<<>>[i]>>] = <<>>
  OBVIOUS
<1> QED
  BY <1>1, FlattenEmpty DEF Escape

LEMMA EscapeOfByte ==
  ASSUME NEW b \in Nat
  PROVE  Escape(<<b>>) = Piece(b)
<1>1. <<>> \in Seq(Nat) /\ Append(<<>>, b) = <<b>>
  OBVIOUS
<1>2. Piece(b) \in Seq(Nat)
  BY PieceFacts
<1>3. <<>> \o Piece(b) = Piece(b)
  BY <1>2, ConcatEmptySeq
<1> QED
  BY <1>1, <1>3, EscapeSnoc, EscapeEmpty

LEMMA EscapeConcat ==
  ASSUME NEW u \in Seq(Nat), NEW v0 \in Seq(Nat)
  PROVE  Escape(u \o v0) = Escape(u) \o Escape(v0)
<1> DEFINE P == {v \in Seq(Nat) : Escape(u \o v) = Escape(u) \o Escape(v)}
<1>1. <<>> \in P
  <2>1. Escape(u) \in Seq(Nat)
    BY EscapeSnoc
  <2>2. u \o <<>> = u /\ Escape(u) \o <<>> = Escape(u)
    BY <2>1, ConcatEmptySeq
  <2>3. <<>> \in Seq(Nat)
    OBVIOUS
  <2> QED
    BY <2>2, <2>3, EscapeEmpty
<1>2. ASSUME NEW v \in Seq(Nat), NEW b \in Nat, v \in P
      PROVE  Append(v, b) \in P
  <2>1. u \o Append(v, b) = Append(u \o v, b) /\ u \o v \in Seq(Nat) /\ Append(v, b) \in Seq(Nat)
    OBVIOUS
  <2>2. Escape(u) \in Seq(Nat) /\ Escape(v) \in Seq(Nat) /\ Piece(b) \in Seq(Nat)
    BY EscapeSnoc, PieceFacts
  <2>3. Escape(Append(v, b)) = Escape(v) \o Piece(b)
    BY EscapeSnoc
  <2>4. Escape(Append(u \o v, b)) = Escape(u \o v) \o Piece(b)
    BY <2>1, EscapeSnoc
  <2>5. (Escape(u) \o Escape(v)) \o Piece(b) = Escape(u) \o (Escape(v) \o Piece(b))
    <3> DEFINE x == Escape(u)
               y == Escape(v)
               z == Piece(b)
    <3>1. x \in Seq(Nat) /\ y \in Seq(Nat) /\ z \in Seq(Nat)
      BY <2>2
    <3> HIDE DEF x, y, z
    <3>2. (x \o y) \o z = x \o (y \o z)
      BY <3>1
    <3> QED
      BY <3>2 DEF x, y, z
  <2> QED
    BY <1>2, <2>1, <2>3, <2>4, <2>5
<1> HIDE DEF P
<1>3. v0 \in P
  BY <1>1, <1>2, SnocInduction
<1> QED
  BY <1>3 DEF P

LEMMA EscapeFree ==
  ASSUME NEW s0 \in Seq(Nat)
  PROVE  Without(Escape(s0), {1, 2, 3, 4, 26})
<1> DEFINE B == {1, 2, 3, 4, 26}
           P == {s \in Seq(Nat) : Without(Escape(s), B)}
<1>1. <<>> \in P
  BY EscapeEmpty DEF Without
<1>2. ASSUME NEW s \in Seq(Nat), NEW b \in Nat, s \in P
      PROVE  Append(s, b) \in P
  <2>1. Escape(s) \in Seq(Nat) /\ Piece(b) \in Seq(Nat) /\ Without(Piece(b), B)
    BY EscapeSnoc, PieceFacts
  <2>2. Append(s, b) \in Seq(Nat) /\ Escape(s) \o Piece(b) \in Seq(Nat)
    BY <2>1
  <2>3. Cut(Escape(Append(s, b)), Escape(s), Piece(b)) /\ Escape(Append(s, b)) \in Seq(Nat)
    BY <2>2, EscapeSnoc DEF Cut
  <2> HIDE DEF B
  <2> QED
    BY <1>2, <2>1, <2>2, <2>3, FreeParts
<1> HIDE DEF P
<1>3. s0 \in P
  BY <1>1, <1>2, SnocInduction
<1> QED
  BY <1>3 DEF P

\* What holds no framing byte is escaped as it is.
LEMMA EscapePlain ==
  ASSUME NEW s0 \in Seq(Nat), Without(s0, Framing)
  PROVE  Escape(s0) = s0
<1> DEFINE P == {s \in Seq(Nat) : Without(s, Framing) => Escape(s) = s}
<1>1. <<>> \in P
  BY EscapeEmpty
<1>2. ASSUME NEW s \in Seq(Nat), NEW b \in Nat, s \in P
      PROVE  Append(s, b) \in P
  <2> SUFFICES ASSUME Without(Append(s, b), Framing) PROVE Escape(Append(s, b)) = Append(s, b)
    OBVIOUS
  <2>1. Append(s, b) = s \o <<b>> /\ <<b>> \in Seq(Nat) /\ Append(s, b) \in Seq(Nat)
    OBVIOUS
  <2>2. Without(s, Framing) /\ Without(<<b>>, Framing)
    BY <2>1, FreeParts DEF Cut
  <2>3. Piece(b) = <<b>>
    BY <2>2 DEF Without, Piece
  <2>4. Escape(s) = s
    BY <1>2, <2>2
  <2> QED
    BY <2>1, <2>3, <2>4, EscapeSnoc
<1> HIDE DEF P
<1>3. s0 \in P
  BY <1>1, <1>2, SnocInduction
<1> QED
  BY <1>3 DEF P

\* Two runs, the second over one more byte.
StepsThrough(f, S, advance, z, s) ==
  f[0] = z /\ \A i \in 1 .. Len(s) : f[i - 1] \in S => f[i] = advance[<<f[i - 1], s[i]>>]

Grown(f, g, S, advance, n, b) == f[n] \in S /\ g[n + 1] = advance[<<f[n], b>>]

LEMMA RunGrows ==
  ASSUME NEW S, NEW B, NEW advance \in [S \X B -> S], NEW z \in S, NEW s \in Seq(B), NEW b \in B,
         NEW f, NEW g, StepsThrough(f, S, advance, z, s), StepsThrough(g, S, advance, z, Append(s, b))
  PROVE  Grown(f, g, S, advance, Len(s), b)
<1> DEFINE N == Len(s)
           t == Append(s, b)
<1>1. N \in Nat /\ Len(t) = N + 1 /\ t[N + 1] = b /\ \A i \in 1 .. N : t[i] = s[i]
  OBVIOUS
<1>2. PICK r \in [0 .. N -> S] : r[0] = z /\ \A i \in 1 .. N : r[i] = advance[<<r[i - 1], s[i]>>]
  <2>1. PICK r : IsRun(r, S, advance, z, s)
    BY RunsExist
  <2> QED
    BY <2>1 DEF IsRun
<1> HIDE DEF N, t
<1>3. ASSUME NEW i \in 1 .. N
      PROVE  i - 1 \in 0 .. N /\ r[i - 1] \in S /\ i \in 1 .. N + 1
  <2>1. i - 1 \in 0 .. N /\ i \in 1 .. N + 1
    BY <1>1
  <2> QED
    BY <2>1
<1>4. \A i \in 0 .. N : r[i] = f[i]
  <2>1. ASSUME NEW i \in 1 .. N, r[i - 1] = f[i - 1]
        PROVE  r[i] = f[i]
    <3>1. f[i - 1] \in S
      BY <1>3, <2>1
    <3>2. f[i] = advance[<<f[i - 1], s[i]>>]
      BY <3>1 DEF N, StepsThrough
    <3>3. r[i] = advance[<<r[i - 1], s[i]>>]
      BY <1>2
    <3> QED
      BY <2>1, <3>2, <3>3
  <2>2. r[0] = f[0]
    BY <1>2 DEF StepsThrough
  <2>3. InStep(N, r, f)
    BY <2>1, <2>2 DEF InStep
  <2>4. N \in Nat
    BY <1>1
  <2> QED
    BY <2>3, <2>4, StepsAgree
<1>5. \A i \in 0 .. N : r[i] = g[i]
  <2>1. ASSUME NEW i \in 1 .. N, r[i - 1] = g[i - 1]
        PROVE  r[i] = g[i]
    <3>1. g[i - 1] \in S
      BY <1>3, <2>1
    <3>2. g[i] = advance[<<g[i - 1], t[i]>>]
      BY <1>1, <1>3, <3>1 DEF t, StepsThrough
    <3>3. r[i] = advance[<<r[i - 1], s[i]>>]
      BY <1>2
    <3> QED
      BY <1>1, <2>1, <3>2, <3>3
  <2>2. r[0] = g[0]
    BY <1>2 DEF StepsThrough
  <2>3. InStep(N, r, g)
    BY <2>1, <2>2 DEF InStep
  <2>4. N \in Nat
    BY <1>1
  <2> QED
    BY <2>3, <2>4, StepsAgree
<1>6. N \in 0 .. N
  BY <1>1
<1>7. f[N] \in S /\ g[N] = f[N]
  BY <1>4, <1>5, <1>6
<1>8. g[N + 1] = advance[<<g[N], b>>]
  <2>1. PICK i \in 1 .. N + 1 : i = N + 1
    BY <1>1
  <2>2. i - 1 = N
    BY <1>1, <2>1
  <2>3. g[i - 1] \in S => g[i] = advance[<<g[i - 1], t[i]>>]
    BY <1>1 DEF t, StepsThrough
  <2>4. g[i - 1] = g[N] /\ t[i] = b /\ g[i] = g[N + 1]
    BY <1>1, <2>1, <2>2
  <2> QED
    BY <1>7, <2>3, <2>4
<1> QED
  BY <1>7, <1>8 DEF N, Grown

\* What the reader's parsers make of one more byte, or one more record.
UnescapeStates == [out : Seq(Nat), esc : BOOLEAN]

LEMMA UnescapedTyped ==
  /\ \A x \in UnescapeStates : \A b \in Nat : UnescapeByte(x, b) \in UnescapeStates
  /\ [out |-> <<>>, esc |-> FALSE] \in UnescapeStates
<1>1. ASSUME NEW x \in UnescapeStates, NEW b \in Nat
      PROVE  UnescapeByte(x, b) \in UnescapeStates
  <2>1. Flip(b) \in Nat
    BY FlipFacts
  <2>2. x.out \in Seq(Nat) /\ x.esc \in BOOLEAN
    BY DEF UnescapeStates
  <2>3. Append(x.out, Flip(b)) \in Seq(Nat) /\ Append(x.out, b) \in Seq(Nat)
    BY <2>1, <2>2
  <2> QED
    BY <2>2, <2>3 DEF UnescapeByte, UnescapeStates
<1> QED
  BY <1>1 DEF UnescapeStates

LEMMA UnescapedRuns ==
  ASSUME NEW s \in Seq(Nat)
  PROVE  \E f : /\ f[0] = [out |-> <<>>, esc |-> FALSE]
                /\ \A i \in 1 .. Len(s) : f[i] = UnescapeByte(f[i - 1], s[i])
                /\ Unescaped(s) = f[Len(s)]
<1> DEFINE S == UnescapeStates
           B == Nat
           advance == [x \in S \X B |-> UnescapeByte(x[1], x[2])]
           Eq(r) == r = [i \in 0 .. Len(s) |-> IF i = 0 THEN [out |-> <<>>, esc |-> FALSE] ELSE UnescapeByte(r[i - 1], s[i])]
<1>1. advance \in [S \X B -> S] /\ [out |-> <<>>, esc |-> FALSE] \in S
  <2>1. \A x \in S \X B : UnescapeByte(x[1], x[2]) \in S
    BY UnescapedTyped
  <2>2. [out |-> <<>>, esc |-> FALSE] \in S
    BY UnescapedTyped
  <2> HIDE DEF S
  <2> QED
    BY <2>1, <2>2
<1>2. \A x \in S : \A b \in B : advance[<<x, b>>] = UnescapeByte(x, b)
  OBVIOUS
<1> HIDE DEF S, advance
<1>3. PICK r \in [0 .. Len(s) -> S] : r[0] = [out |-> <<>>, esc |-> FALSE] /\ \A i \in 1 .. Len(s) : r[i] = advance[<<r[i - 1], s[i]>>]
  <2> DEFINE z == [out |-> <<>>, esc |-> FALSE]
  <2>1. z \in S /\ advance \in [S \X B -> S] /\ s \in Seq(B)
    BY <1>1
  <2> HIDE DEF z, B
  <2>2. PICK r : IsRun(r, S, advance, z, s)
    BY <2>1, RunsExist
  <2>3. r \in [0 .. Len(s) -> S] /\ r[0] = z /\ \A i \in 1 .. Len(s) : r[i] = advance[<<r[i - 1], s[i]>>]
    BY <2>2 DEF IsRun
  <2> QED
    BY <2>3 DEF z
<1>4. Eq(r)
  <2>1. ASSUME NEW i \in 0 .. Len(s)
        PROVE  r[i] = IF i = 0 THEN [out |-> <<>>, esc |-> FALSE] ELSE UnescapeByte(r[i - 1], s[i])
    <3>1. CASE i = 0
      BY <1>3, <3>1
    <3>2. CASE i # 0
      <4>1. i \in 1 .. Len(s) /\ i - 1 \in 0 .. Len(s)
        BY <3>2
      <4>2. r[i - 1] \in S
        BY <4>1
      <4>4. s[i] \in B
        BY <4>1
      <4>3. r[i] = UnescapeByte(r[i - 1], s[i])
        BY <1>2, <1>3, <4>1, <4>2, <4>4
      <4> QED
        BY <3>2, <4>3
    <3> QED
      BY <3>1, <3>2
  <2>2. r = [i \in 0 .. Len(s) |-> r[i]]
    OBVIOUS
  <2> QED
    BY <2>1, <2>2
<1> DEFINE f == CHOOSE r1 : Eq(r1)
<1>5. Eq(f)
  BY <1>4
<1>6. Unescaped(s) = f[Len(s)]
  BY DEF Unescaped
<1> HIDE DEF f
<1>7. f[0] = [out |-> <<>>, esc |-> FALSE] /\ \A i \in 1 .. Len(s) : f[i] = UnescapeByte(f[i - 1], s[i])
  <2>1. \A i \in 0 .. Len(s) : f[i] = IF i = 0 THEN [out |-> <<>>, esc |-> FALSE] ELSE UnescapeByte(f[i - 1], s[i])
    BY <1>5
  <2>2. 0 \in 0 .. Len(s) /\ \A i \in 1 .. Len(s) : i \in 0 .. Len(s) /\ i # 0
    OBVIOUS
  <2> QED
    BY <2>1, <2>2
<1> QED
  BY <1>6, <1>7

LEMMA UnescapedSnoc ==
  ASSUME NEW s \in Seq(Nat), NEW b \in Nat
  PROVE  /\ Unescaped(<<>>) = [out |-> <<>>, esc |-> FALSE]
         /\ Unescaped(s) \in UnescapeStates
         /\ Unescaped(Append(s, b)) = UnescapeByte(Unescaped(s), b)
<1> DEFINE S == UnescapeStates
           B == Nat
           t == Append(s, b)
           advance == [x \in S \X B |-> UnescapeByte(x[1], x[2])]
           z == [out |-> <<>>, esc |-> FALSE]
<1>1. advance \in [S \X B -> S] /\ z \in S
  <2>1. \A x \in S \X B : UnescapeByte(x[1], x[2]) \in S
    BY UnescapedTyped
  <2>2. z \in S
    BY UnescapedTyped
  <2> HIDE DEF S, z
  <2> QED
    BY <2>1, <2>2
<1>2. \A x \in S : \A c \in B : advance[<<x, c>>] = UnescapeByte(x, c)
  OBVIOUS
<1>3. t \in Seq(B) /\ Len(t) = Len(s) + 1 /\ Len(s) \in Nat /\ \A i \in 1 .. Len(s) : s[i] \in B
  OBVIOUS
<1>4. \A i \in 1 .. Len(s) + 1 : t[i] \in B
  BY <1>3
<1> HIDE DEF S, advance, z, t, B
<1>5. PICK f : /\ f[0] = z /\ \A i \in 1 .. Len(s) : f[i] = UnescapeByte(f[i - 1], s[i])
               /\ Unescaped(s) = f[Len(s)]
  BY UnescapedRuns DEF z
<1>6. PICK g : /\ g[0] = z /\ \A i \in 1 .. Len(t) : g[i] = UnescapeByte(g[i - 1], t[i])
               /\ Unescaped(t) = g[Len(t)]
  BY <1>3, UnescapedRuns DEF z, B
<1>7. StepsThrough(f, S, advance, z, s)
  BY <1>2, <1>3, <1>5 DEF StepsThrough
<1>8. StepsThrough(g, S, advance, z, Append(s, b))
  <2>1. StepsThrough(g, S, advance, z, t)
    BY <1>2, <1>3, <1>4, <1>6 DEF StepsThrough
  <2> QED
    BY <2>1 DEF t
<1>9. f[Len(s)] \in S /\ g[Len(s) + 1] = advance[<<f[Len(s)], b>>]
  <2>1. s \in Seq(B)
    BY DEF B
  <2>2. b \in B
    BY DEF B
  <2>3. z \in S
    BY <1>1
  <2>4. advance \in [S \X B -> S]
    BY <1>1
  <2>5. Grown(f, g, S, advance, Len(s), b)
    BY <1>7, <1>8, <2>1, <2>2, <2>3, <2>4, RunGrows
  <2> QED
    BY <2>5 DEF Grown
<1>10. Unescaped(t) = UnescapeByte(Unescaped(s), b)
  <2>1. b \in B
    BY DEF B
  <2> QED
    BY <1>2, <1>3, <1>5, <1>6, <1>9, <2>1
<1>11. Unescaped(<<>>) = z
  <2>1. <<>> \in Seq(Nat) /\ Len(<<>>) = 0
    OBVIOUS
  <2>2. PICK h : h[0] = z /\ Unescaped(<<>>) = h[Len(<<>>)]
    BY <2>1, UnescapedRuns DEF z
  <2> QED
    BY <2>1, <2>2
<1> QED
  BY <1>5, <1>9, <1>10, <1>11 DEF S, t, z

SplitStates == Seq(Seq(Nat)) \ {<<>>}

LEMMA SplitTyped ==
  /\ \A x \in SplitStates : \A b, c \in Nat : SplitByte(x, b, c) \in SplitStates
  /\ <<<<>>>> \in SplitStates
<1>1. ASSUME NEW x \in SplitStates, NEW b \in Nat, NEW c \in Nat
      PROVE  SplitByte(x, b, c) \in SplitStates
  <2> DEFINE n == Len(x)
  <2>1. x \in Seq(Seq(Nat)) /\ n \in 1 .. Len(x)
    BY DEF SplitStates
  <2> HIDE DEF n
  <2>2. x[n] \in Seq(Nat)
    BY <2>1
  <2>3. Append(x[n], b) \in Seq(Nat)
    BY <2>2
  <2>4. [x EXCEPT ![n] = Append(x[n], b)] \in Seq(Seq(Nat)) /\ Len([x EXCEPT ![n] = Append(x[n], b)]) = Len(x)
    BY <2>1, <2>3, ExceptSeq
  <2>5. [x EXCEPT ![n] = Append(x[n], b)] # <<>>
    BY <2>1, <2>4
  <2>6. Append(x, <<>>) \in Seq(Seq(Nat)) /\ Append(x, <<>>) # <<>>
    <3>1. x \in Seq(Seq(Nat)) /\ <<>> \in Seq(Nat)
      BY <2>1
    <3> QED
      BY <3>1, AppendProperties
  <2> QED
    BY <2>4, <2>5, <2>6 DEF SplitByte, SplitStates, n
<1> QED
  BY <1>1 DEF SplitStates

LEMMA SplitRuns ==
  ASSUME NEW c \in Nat, NEW s \in Seq(Nat)
  PROVE  \E f : /\ f[0] = <<<<>>>>
                /\ \A i \in 1 .. Len(s) : f[i] = SplitByte(f[i - 1], s[i], c)
                /\ Split(s, c) = f[Len(s)]
<1> DEFINE S == SplitStates
           B == Nat
           advance == [x \in S \X B |-> SplitByte(x[1], x[2], c)]
           Eq(r) == r = [i \in 0 .. Len(s) |-> IF i = 0 THEN <<<<>>>> ELSE SplitByte(r[i - 1], s[i], c)]
<1>1. advance \in [S \X B -> S] /\ <<<<>>>> \in S
  <2>1. \A x \in S \X B : SplitByte(x[1], x[2], c) \in S
    BY SplitTyped
  <2>2. <<<<>>>> \in S
    BY SplitTyped
  <2> HIDE DEF S
  <2> QED
    BY <2>1, <2>2
<1>2. \A x \in S : \A b \in B : advance[<<x, b>>] = SplitByte(x, b, c)
  OBVIOUS
<1> HIDE DEF S, advance
<1>3. PICK r \in [0 .. Len(s) -> S] : r[0] = <<<<>>>> /\ \A i \in 1 .. Len(s) : r[i] = advance[<<r[i - 1], s[i]>>]
  <2> DEFINE z == <<<<>>>>
  <2>1. z \in S /\ advance \in [S \X B -> S] /\ s \in Seq(B)
    BY <1>1
  <2> HIDE DEF z, B
  <2>2. PICK r : IsRun(r, S, advance, z, s)
    BY <2>1, RunsExist
  <2>3. r \in [0 .. Len(s) -> S] /\ r[0] = z /\ \A i \in 1 .. Len(s) : r[i] = advance[<<r[i - 1], s[i]>>]
    BY <2>2 DEF IsRun
  <2> QED
    BY <2>3 DEF z
<1>4. Eq(r)
  <2>1. ASSUME NEW i \in 0 .. Len(s)
        PROVE  r[i] = IF i = 0 THEN <<<<>>>> ELSE SplitByte(r[i - 1], s[i], c)
    <3>1. CASE i = 0
      BY <1>3, <3>1
    <3>2. CASE i # 0
      <4>1. i \in 1 .. Len(s) /\ i - 1 \in 0 .. Len(s)
        BY <3>2
      <4>2. r[i - 1] \in S
        BY <4>1
      <4>4. s[i] \in B
        BY <4>1
      <4>3. r[i] = SplitByte(r[i - 1], s[i], c)
        BY <1>2, <1>3, <4>1, <4>2, <4>4
      <4> QED
        BY <3>2, <4>3
    <3> QED
      BY <3>1, <3>2
  <2>2. r = [i \in 0 .. Len(s) |-> r[i]]
    OBVIOUS
  <2> QED
    BY <2>1, <2>2
<1> DEFINE f == CHOOSE r1 : Eq(r1)
<1>5. Eq(f)
  BY <1>4
<1>6. Split(s, c) = f[Len(s)]
  BY DEF Split
<1> HIDE DEF f
<1>7. f[0] = <<<<>>>> /\ \A i \in 1 .. Len(s) : f[i] = SplitByte(f[i - 1], s[i], c)
  <2>1. \A i \in 0 .. Len(s) : f[i] = IF i = 0 THEN <<<<>>>> ELSE SplitByte(f[i - 1], s[i], c)
    BY <1>5
  <2>2. 0 \in 0 .. Len(s) /\ \A i \in 1 .. Len(s) : i \in 0 .. Len(s) /\ i # 0
    OBVIOUS
  <2> QED
    BY <2>1, <2>2
<1> QED
  BY <1>6, <1>7

LEMMA SplitSnoc ==
  ASSUME NEW c \in Nat, NEW s \in Seq(Nat), NEW b \in Nat
  PROVE  /\ Split(<<>>, c) = <<<<>>>>
         /\ Split(s, c) \in SplitStates
         /\ Split(Append(s, b), c) = SplitByte(Split(s, c), b, c)
<1> DEFINE S == SplitStates
           B == Nat
           t == Append(s, b)
           advance == [x \in S \X B |-> SplitByte(x[1], x[2], c)]
           z == <<<<>>>>
<1>1. advance \in [S \X B -> S] /\ z \in S
  <2>1. \A x \in S \X B : SplitByte(x[1], x[2], c) \in S
    BY SplitTyped
  <2>2. z \in S
    BY SplitTyped
  <2> HIDE DEF S, z
  <2> QED
    BY <2>1, <2>2
<1>2. \A x \in S : \A d \in B : advance[<<x, d>>] = SplitByte(x, d, c)
  OBVIOUS
<1>3. t \in Seq(B) /\ Len(t) = Len(s) + 1 /\ Len(s) \in Nat /\ \A i \in 1 .. Len(s) : s[i] \in B
  OBVIOUS
<1>4. \A i \in 1 .. Len(s) + 1 : t[i] \in B
  BY <1>3
<1> HIDE DEF S, advance, z, t, B
<1>5. PICK f : /\ f[0] = z /\ \A i \in 1 .. Len(s) : f[i] = SplitByte(f[i - 1], s[i], c)
               /\ Split(s, c) = f[Len(s)]
  BY SplitRuns DEF z
<1>6. PICK g : /\ g[0] = z /\ \A i \in 1 .. Len(t) : g[i] = SplitByte(g[i - 1], t[i], c)
               /\ Split(t, c) = g[Len(t)]
  BY <1>3, SplitRuns DEF z, B
<1>7. StepsThrough(f, S, advance, z, s)
  BY <1>2, <1>3, <1>5 DEF StepsThrough
<1>8. StepsThrough(g, S, advance, z, Append(s, b))
  <2>1. StepsThrough(g, S, advance, z, t)
    BY <1>2, <1>3, <1>4, <1>6 DEF StepsThrough
  <2> QED
    BY <2>1 DEF t
<1>9. f[Len(s)] \in S /\ g[Len(s) + 1] = advance[<<f[Len(s)], b>>]
  <2>1. s \in Seq(B)
    BY DEF B
  <2>2. b \in B
    BY DEF B
  <2>3. z \in S
    BY <1>1
  <2>4. advance \in [S \X B -> S]
    BY <1>1
  <2>5. Grown(f, g, S, advance, Len(s), b)
    BY <1>7, <1>8, <2>1, <2>2, <2>3, <2>4, RunGrows
  <2> QED
    BY <2>5 DEF Grown
<1>10. Split(t, c) = SplitByte(Split(s, c), b, c)
  <2>1. b \in B
    BY DEF B
  <2> QED
    BY <1>2, <1>3, <1>5, <1>6, <1>9, <2>1
<1>11. Split(<<>>, c) = z
  <2>1. <<>> \in Seq(Nat) /\ Len(<<>>) = 0
    OBVIOUS
  <2>2. PICK h : h[0] = z /\ Split(<<>>, c) = h[Len(<<>>)]
    BY <2>1, SplitRuns DEF z
  <2> QED
    BY <2>1, <2>2
<1> QED
  BY <1>5, <1>9, <1>10, <1>11 DEF S, t, z

SubstituteStates == [out : Seq(Nat), mark : BOOLEAN]

LEMMA SubstitutedTyped ==
  /\ \A x \in SubstituteStates : \A b \in Nat : \A c \in Seq(Seq(Nat)) :
       SubstituteByte(x, b, c) \in SubstituteStates
  /\ [out |-> <<>>, mark |-> FALSE] \in SubstituteStates
<1>1. ASSUME NEW x \in SubstituteStates, NEW b \in Nat, NEW c \in Seq(Seq(Nat))
      PROVE  SubstituteByte(x, b, c) \in SubstituteStates
  <2>1. x.out \in Seq(Nat) /\ x.mark \in BOOLEAN
    BY DEF SubstituteStates
  <2>2. b - 1 \in 0 .. Len(c) - 1 => x.out \o c[b] \in Seq(Nat)
    <3> SUFFICES ASSUME b - 1 \in 0 .. Len(c) - 1 PROVE x.out \o c[b] \in Seq(Nat)
      OBVIOUS
    <3>1. b \in 1 .. Len(c)
      OBVIOUS
    <3>2. c[b] \in Seq(Nat)
      BY <3>1
    <3> QED
      BY <2>1, <3>2
  <2>3. <<Marker>> \in Seq(Nat) /\ <<Marker, b>> \in Seq(Nat) /\ Append(x.out, b) \in Seq(Nat)
    BY <2>1 DEF Marker
  <2>4. x.out \o <<Marker>> \in Seq(Nat) /\ x.out \o <<Marker, b>> \in Seq(Nat)
    BY <2>1, <2>3
  <2>5. \A o \in Seq(Nat) : \A m \in BOOLEAN : [out |-> o, mark |-> m] \in SubstituteStates
    BY DEF SubstituteStates
  <2> QED
    BY <2>1, <2>2, <2>3, <2>4, <2>5 DEF SubstituteByte
<1> QED
  BY <1>1 DEF SubstituteStates

LEMMA SubstitutedRuns ==
  ASSUME NEW c \in Seq(Seq(Nat)), NEW s \in Seq(Nat)
  PROVE  \E f : /\ f[0] = [out |-> <<>>, mark |-> FALSE]
                /\ \A i \in 1 .. Len(s) : f[i] = SubstituteByte(f[i - 1], s[i], c)
                /\ Substituted(s, c) = f[Len(s)]
<1> DEFINE S == SubstituteStates
           B == Nat
           advance == [x \in S \X B |-> SubstituteByte(x[1], x[2], c)]
           Eq(r) == r = [i \in 0 .. Len(s) |-> IF i = 0 THEN [out |-> <<>>, mark |-> FALSE] ELSE SubstituteByte(r[i - 1], s[i], c)]
<1>1. advance \in [S \X B -> S] /\ [out |-> <<>>, mark |-> FALSE] \in S
  <2>1. \A x \in S \X B : SubstituteByte(x[1], x[2], c) \in S
    BY SubstitutedTyped
  <2>2. [out |-> <<>>, mark |-> FALSE] \in S
    BY SubstitutedTyped
  <2> HIDE DEF S
  <2> QED
    BY <2>1, <2>2
<1>2. \A x \in S : \A b \in B : advance[<<x, b>>] = SubstituteByte(x, b, c)
  OBVIOUS
<1> HIDE DEF S, advance
<1>3. PICK r \in [0 .. Len(s) -> S] : r[0] = [out |-> <<>>, mark |-> FALSE] /\ \A i \in 1 .. Len(s) : r[i] = advance[<<r[i - 1], s[i]>>]
  <2> DEFINE z == [out |-> <<>>, mark |-> FALSE]
  <2>1. z \in S /\ advance \in [S \X B -> S] /\ s \in Seq(B)
    BY <1>1
  <2> HIDE DEF z, B
  <2>2. PICK r : IsRun(r, S, advance, z, s)
    BY <2>1, RunsExist
  <2>3. r \in [0 .. Len(s) -> S] /\ r[0] = z /\ \A i \in 1 .. Len(s) : r[i] = advance[<<r[i - 1], s[i]>>]
    BY <2>2 DEF IsRun
  <2> QED
    BY <2>3 DEF z
<1>4. Eq(r)
  <2>1. ASSUME NEW i \in 0 .. Len(s)
        PROVE  r[i] = IF i = 0 THEN [out |-> <<>>, mark |-> FALSE] ELSE SubstituteByte(r[i - 1], s[i], c)
    <3>1. CASE i = 0
      BY <1>3, <3>1
    <3>2. CASE i # 0
      <4>1. i \in 1 .. Len(s) /\ i - 1 \in 0 .. Len(s)
        BY <3>2
      <4>2. r[i - 1] \in S
        BY <4>1
      <4>4. s[i] \in B
        BY <4>1
      <4>3. r[i] = SubstituteByte(r[i - 1], s[i], c)
        BY <1>2, <1>3, <4>1, <4>2, <4>4
      <4> QED
        BY <3>2, <4>3
    <3> QED
      BY <3>1, <3>2
  <2>2. r = [i \in 0 .. Len(s) |-> r[i]]
    OBVIOUS
  <2> QED
    BY <2>1, <2>2
<1> DEFINE f == CHOOSE r1 : Eq(r1)
<1>5. Eq(f)
  BY <1>4
<1>6. Substituted(s, c) = f[Len(s)]
  BY DEF Substituted
<1> HIDE DEF f
<1>7. f[0] = [out |-> <<>>, mark |-> FALSE] /\ \A i \in 1 .. Len(s) : f[i] = SubstituteByte(f[i - 1], s[i], c)
  <2>1. \A i \in 0 .. Len(s) : f[i] = IF i = 0 THEN [out |-> <<>>, mark |-> FALSE] ELSE SubstituteByte(f[i - 1], s[i], c)
    BY <1>5
  <2>2. 0 \in 0 .. Len(s) /\ \A i \in 1 .. Len(s) : i \in 0 .. Len(s) /\ i # 0
    OBVIOUS
  <2> QED
    BY <2>1, <2>2
<1> QED
  BY <1>6, <1>7

LEMMA SubstitutedSnoc ==
  ASSUME NEW c \in Seq(Seq(Nat)), NEW s \in Seq(Nat), NEW b \in Nat
  PROVE  /\ Substituted(<<>>, c) = [out |-> <<>>, mark |-> FALSE]
         /\ Substituted(s, c) \in SubstituteStates
         /\ Substituted(Append(s, b), c) = SubstituteByte(Substituted(s, c), b, c)
<1> DEFINE S == SubstituteStates
           B == Nat
           t == Append(s, b)
           advance == [x \in S \X B |-> SubstituteByte(x[1], x[2], c)]
           z == [out |-> <<>>, mark |-> FALSE]
<1>1. advance \in [S \X B -> S] /\ z \in S
  <2>1. \A x \in S \X B : SubstituteByte(x[1], x[2], c) \in S
    BY SubstitutedTyped
  <2>2. z \in S
    BY SubstitutedTyped
  <2> HIDE DEF S, z
  <2> QED
    BY <2>1, <2>2
<1>2. \A x \in S : \A d \in B : advance[<<x, d>>] = SubstituteByte(x, d, c)
  OBVIOUS
<1>3. t \in Seq(B) /\ Len(t) = Len(s) + 1 /\ Len(s) \in Nat /\ \A i \in 1 .. Len(s) : s[i] \in B
  OBVIOUS
<1>4. \A i \in 1 .. Len(s) + 1 : t[i] \in B
  BY <1>3
<1> HIDE DEF S, advance, z, t, B
<1>5. PICK f : /\ f[0] = z /\ \A i \in 1 .. Len(s) : f[i] = SubstituteByte(f[i - 1], s[i], c)
               /\ Substituted(s, c) = f[Len(s)]
  BY SubstitutedRuns DEF z
<1>6. PICK g : /\ g[0] = z /\ \A i \in 1 .. Len(t) : g[i] = SubstituteByte(g[i - 1], t[i], c)
               /\ Substituted(t, c) = g[Len(t)]
  BY <1>3, SubstitutedRuns DEF z, B
<1>7. StepsThrough(f, S, advance, z, s)
  BY <1>2, <1>3, <1>5 DEF StepsThrough
<1>8. StepsThrough(g, S, advance, z, Append(s, b))
  <2>1. StepsThrough(g, S, advance, z, t)
    BY <1>2, <1>3, <1>4, <1>6 DEF StepsThrough
  <2> QED
    BY <2>1 DEF t
<1>9. f[Len(s)] \in S /\ g[Len(s) + 1] = advance[<<f[Len(s)], b>>]
  <2>1. s \in Seq(B)
    BY DEF B
  <2>2. b \in B
    BY DEF B
  <2>3. z \in S
    BY <1>1
  <2>4. advance \in [S \X B -> S]
    BY <1>1
  <2>5. Grown(f, g, S, advance, Len(s), b)
    BY <1>7, <1>8, <2>1, <2>2, <2>3, <2>4, RunGrows
  <2> QED
    BY <2>5 DEF Grown
<1>10. Substituted(t, c) = SubstituteByte(Substituted(s, c), b, c)
  <2>1. b \in B
    BY DEF B
  <2> QED
    BY <1>2, <1>3, <1>5, <1>6, <1>9, <2>1
<1>11. Substituted(<<>>, c) = z
  <2>1. <<>> \in Seq(Nat) /\ Len(<<>>) = 0
    OBVIOUS
  <2>2. PICK h : h[0] = z /\ Substituted(<<>>, c) = h[Len(<<>>)]
    BY <2>1, SubstitutedRuns DEF z
  <2> QED
    BY <2>1, <2>2
<1> QED
  BY <1>5, <1>9, <1>10, <1>11 DEF S, t, z

Values == {Build(KindOf(r[1]), After(r, 1)) : r \in Seq(Nat)}

LEMMA DecodedTyped ==
  /\ \A x \in Seq(Values) : \A r \in Seq(Nat) : DecodeRecord(x, r) \in Seq(Values)
  /\ <<>> \in Seq(Values)
<1>1. ASSUME NEW x \in Seq(Values), NEW r \in Seq(Nat)
      PROVE  DecodeRecord(x, r) \in Seq(Values)
  <2>1. Build(KindOf(r[1]), After(r, 1)) \in Values
    BY DEF Values
  <2>2. Append(x, Build(KindOf(r[1]), After(r, 1))) \in Seq(Values)
    BY <2>1
  <2> QED
    BY <2>2 DEF DecodeRecord
<1> QED
  BY <1>1

LEMMA DecodedRuns ==
  ASSUME NEW s \in Seq(Seq(Nat))
  PROVE  \E f : /\ f[0] = <<>>
                /\ \A i \in 1 .. Len(s) : f[i] = DecodeRecord(f[i - 1], s[i])
                /\ DecodeRecords(s) = f[Len(s)]
<1> DEFINE S == Seq(Values)
           B == Seq(Nat)
           advance == [x \in S \X B |-> DecodeRecord(x[1], x[2])]
           Eq(r) == r = [i \in 0 .. Len(s) |-> IF i = 0 THEN <<>> ELSE DecodeRecord(r[i - 1], s[i])]
<1>1. advance \in [S \X B -> S] /\ <<>> \in S
  <2>1. \A x \in S \X B : DecodeRecord(x[1], x[2]) \in S
    BY DecodedTyped
  <2>2. <<>> \in S
    BY DecodedTyped
  <2> HIDE DEF S
  <2> QED
    BY <2>1, <2>2
<1>2. \A x \in S : \A b \in B : advance[<<x, b>>] = DecodeRecord(x, b)
  OBVIOUS
<1> HIDE DEF S, advance
<1>3. PICK r \in [0 .. Len(s) -> S] : r[0] = <<>> /\ \A i \in 1 .. Len(s) : r[i] = advance[<<r[i - 1], s[i]>>]
  <2> DEFINE z == <<>>
  <2>1. z \in S /\ advance \in [S \X B -> S] /\ s \in Seq(B)
    BY <1>1
  <2> HIDE DEF z, B
  <2>2. PICK r : IsRun(r, S, advance, z, s)
    BY <2>1, RunsExist
  <2>3. r \in [0 .. Len(s) -> S] /\ r[0] = z /\ \A i \in 1 .. Len(s) : r[i] = advance[<<r[i - 1], s[i]>>]
    BY <2>2 DEF IsRun
  <2> QED
    BY <2>3 DEF z
<1>4. Eq(r)
  <2>1. ASSUME NEW i \in 0 .. Len(s)
        PROVE  r[i] = IF i = 0 THEN <<>> ELSE DecodeRecord(r[i - 1], s[i])
    <3>1. CASE i = 0
      BY <1>3, <3>1
    <3>2. CASE i # 0
      <4>1. i \in 1 .. Len(s) /\ i - 1 \in 0 .. Len(s)
        BY <3>2
      <4>2. r[i - 1] \in S
        BY <4>1
      <4>4. s[i] \in B
        BY <4>1
      <4>3. r[i] = DecodeRecord(r[i - 1], s[i])
        BY <1>2, <1>3, <4>1, <4>2, <4>4
      <4> QED
        BY <3>2, <4>3
    <3> QED
      BY <3>1, <3>2
  <2>2. r = [i \in 0 .. Len(s) |-> r[i]]
    OBVIOUS
  <2> QED
    BY <2>1, <2>2
<1> DEFINE f == CHOOSE r1 : Eq(r1)
<1>5. Eq(f)
  BY <1>4
<1>6. DecodeRecords(s) = f[Len(s)]
  BY DEF DecodeRecords
<1> HIDE DEF f
<1>7. f[0] = <<>> /\ \A i \in 1 .. Len(s) : f[i] = DecodeRecord(f[i - 1], s[i])
  <2>1. \A i \in 0 .. Len(s) : f[i] = IF i = 0 THEN <<>> ELSE DecodeRecord(f[i - 1], s[i])
    BY <1>5
  <2>2. 0 \in 0 .. Len(s) /\ \A i \in 1 .. Len(s) : i \in 0 .. Len(s) /\ i # 0
    OBVIOUS
  <2> QED
    BY <2>1, <2>2
<1> QED
  BY <1>6, <1>7

LEMMA DecodedSnoc ==
  ASSUME NEW s \in Seq(Seq(Nat)), NEW b \in Seq(Nat)
  PROVE  /\ DecodeRecords(<<>>) = <<>>
         /\ DecodeRecords(s) \in Seq(Values)
         /\ DecodeRecords(Append(s, b)) = DecodeRecord(DecodeRecords(s), b)
<1> DEFINE S == Seq(Values)
           B == Seq(Nat)
           t == Append(s, b)
           advance == [x \in S \X B |-> DecodeRecord(x[1], x[2])]
           z == <<>>
<1>1. advance \in [S \X B -> S] /\ z \in S
  <2>1. \A x \in S \X B : DecodeRecord(x[1], x[2]) \in S
    BY DecodedTyped
  <2>2. z \in S
    BY DecodedTyped
  <2> HIDE DEF S, z
  <2> QED
    BY <2>1, <2>2
<1>2. \A x \in S : \A c \in B : advance[<<x, c>>] = DecodeRecord(x, c)
  OBVIOUS
<1>3. t \in Seq(B) /\ Len(t) = Len(s) + 1 /\ Len(s) \in Nat /\ \A i \in 1 .. Len(s) : s[i] \in B
  OBVIOUS
<1>4. \A i \in 1 .. Len(s) + 1 : t[i] \in B
  BY <1>3
<1> HIDE DEF S, advance, z, t, B
<1>5. PICK f : /\ f[0] = z /\ \A i \in 1 .. Len(s) : f[i] = DecodeRecord(f[i - 1], s[i])
               /\ DecodeRecords(s) = f[Len(s)]
  BY DecodedRuns DEF z
<1>6. PICK g : /\ g[0] = z /\ \A i \in 1 .. Len(t) : g[i] = DecodeRecord(g[i - 1], t[i])
               /\ DecodeRecords(t) = g[Len(t)]
  BY <1>3, DecodedRuns DEF z, B
<1>7. StepsThrough(f, S, advance, z, s)
  BY <1>2, <1>3, <1>5 DEF StepsThrough
<1>8. StepsThrough(g, S, advance, z, Append(s, b))
  <2>1. StepsThrough(g, S, advance, z, t)
    BY <1>2, <1>3, <1>4, <1>6 DEF StepsThrough
  <2> QED
    BY <2>1 DEF t
<1>9. f[Len(s)] \in S /\ g[Len(s) + 1] = advance[<<f[Len(s)], b>>]
  <2>1. s \in Seq(B)
    BY DEF B
  <2>2. b \in B
    BY DEF B
  <2>3. z \in S
    BY <1>1
  <2>4. advance \in [S \X B -> S]
    BY <1>1
  <2>5. Grown(f, g, S, advance, Len(s), b)
    BY <1>7, <1>8, <2>1, <2>2, <2>3, <2>4, RunGrows
  <2> QED
    BY <2>5 DEF Grown
<1>10. DecodeRecords(t) = DecodeRecord(DecodeRecords(s), b)
  <2>1. b \in B
    BY DEF B
  <2> QED
    BY <1>2, <1>3, <1>5, <1>6, <1>9, <2>1
<1>11. DecodeRecords(<<>>) = z
  <2>1. <<>> \in Seq(Seq(Nat)) /\ Len(<<>>) = 0
    OBVIOUS
  <2>2. PICK h : h[0] = z /\ DecodeRecords(<<>>) = h[Len(<<>>)]
    BY <2>1, DecodedRuns DEF z
  <2> QED
    BY <2>1, <2>2
<1> QED
  BY <1>5, <1>9, <1>10, <1>11 DEF S, t, z

LEMMA PrefixGrows ==
  ASSUME NEW S, NEW s \in Seq(S), NEW k \in 1 .. Len(s)
  PROVE  SubSeq(s, 1, k) = Append(SubSeq(s, 1, k - 1), s[k])
<1>1. Len(s) \in Nat
  OBVIOUS
<1>2. SubSeq(s, 1, k) \in Seq(S) /\ Len(SubSeq(s, 1, k)) = k /\ \A i \in 1 .. k : SubSeq(s, 1, k)[i] = s[i]
  BY <1>1
<1>3. SubSeq(s, 1, k - 1) \in Seq(S) /\ Len(SubSeq(s, 1, k - 1)) = k - 1
      /\ \A i \in 1 .. k - 1 : SubSeq(s, 1, k - 1)[i] = s[i]
  BY <1>1
<1> DEFINE u == SubSeq(s, 1, k - 1)
           v == SubSeq(s, 1, k)
<1>4. s[k] \in S
  OBVIOUS
<1> HIDE DEF u, v
<1>5. u \in Seq(S) /\ Len(u) = k - 1 /\ v \in Seq(S) /\ Len(v) = k
  BY <1>2, <1>3 DEF u, v
<1>6. \A i \in 1 .. k : v[i] = Append(u, s[k])[i]
  <2> TAKE i \in 1 .. k
  <2>1. v[i] = s[i]
    BY <1>2 DEF v
  <2>2. CASE i = k
    BY <1>4, <1>5, <2>1, <2>2
  <2>3. CASE i # k
    <3>1. i \in 1 .. k - 1
      BY <2>3
    <3>2. u[i] = s[i]
      BY <1>3, <3>1 DEF u
    <3> QED
      BY <1>4, <1>5, <2>1, <3>1, <3>2
  <2> QED
    BY <2>2, <2>3
<1>7. Append(u, s[k]) \in Seq(S) /\ Len(Append(u, s[k])) = k
  BY <1>4, <1>5
<1>8. v = Append(u, s[k])
  BY <1>5, <1>6, <1>7
<1> QED
  BY <1>8 DEF u, v

LEMMA PrefixEnds ==
  ASSUME NEW S, NEW s \in Seq(S)
  PROVE  SubSeq(s, 1, 0) = <<>> /\ SubSeq(s, 1, Len(s)) = s
<1>1. SubSeq(s, 1, 0) = <<>>
  OBVIOUS
<1>2. SubSeq(s, 1, Len(s)) \in Seq(S) /\ Len(SubSeq(s, 1, Len(s))) = Len(s)
      /\ \A i \in 1 .. Len(s) : SubSeq(s, 1, Len(s))[i] = s[i]
  OBVIOUS
<1> QED
  BY <1>1, <1>2

LEMMA UnescapeEscape ==
  ASSUME NEW s0 \in Seq(Nat)
  PROVE  Unescape(Escape(s0)) = s0
<1> DEFINE State(s, e) == [out |-> s, esc |-> e]
           P == {s \in Seq(Nat) : Unescaped(Escape(s)) = State(s, FALSE)}
<1>1. <<>> \in P
  <2>1. <<>> \in Seq(Nat) /\ 0 \in Nat
    OBVIOUS
  <2>2. Unescaped(<<>>) = State(<<>>, FALSE)
    BY <2>1, UnescapedSnoc
  <2> QED
    BY <2>1, <2>2, EscapeEmpty
<1>2. ASSUME NEW s \in Seq(Nat), NEW b \in Nat, s \in P
      PROVE  Append(s, b) \in P
  <2> DEFINE e == Escape(s)
  <2>1. e \in Seq(Nat) /\ Escape(Append(s, b)) = e \o Piece(b) /\ Append(s, b) \in Seq(Nat)
    <3>1. Append(s, b) \in Seq(Nat)
      OBVIOUS
    <3> QED
      BY <3>1, EscapeSnoc
  <2>2. Unescaped(e) = State(s, FALSE)
    BY <1>2
  <2> HIDE DEF e
  <2>3. CASE b \in Framing
    <3> DEFINE f == Flip(b)
    <3>1. f \in Nat /\ Flip(f) = b /\ Piece(b) = <<5, f>>
      BY <2>3, FlipFacts DEF Piece, Esc
    <3> HIDE DEF f
    <3>2. e \o <<5, f>> = Append(Append(e, 5), f) /\ Append(e, 5) \in Seq(Nat) /\ 5 \in Nat
      BY <2>1, <3>1
    <3>3. Unescaped(Append(e, 5)) = UnescapeByte(State(s, FALSE), 5)
      BY <2>1, <2>2, <3>2, UnescapedSnoc
    <3>4. UnescapeByte(State(s, FALSE), 5) = State(s, TRUE)
      BY DEF UnescapeByte, Esc
    <3>5. Unescaped(Append(Append(e, 5), f)) = UnescapeByte(Unescaped(Append(e, 5)), f)
      <4>1. \A u \in Seq(Nat) : \A c \in Nat : Unescaped(Append(u, c)) = UnescapeByte(Unescaped(u), c)
        BY UnescapedSnoc
      <4> QED
        BY <3>1, <3>2, <4>1
    <3>6. UnescapeByte(State(s, TRUE), f) = State(Append(s, b), FALSE)
      BY <3>1 DEF UnescapeByte
    <3> QED
      BY <2>1, <3>1, <3>2, <3>3, <3>4, <3>5, <3>6
  <2>4. CASE b \notin Framing
    <3>1. Piece(b) = <<b>> /\ b # Esc
      BY <2>4 DEF Piece, Framing, Esc
    <3>2. e \o <<b>> = Append(e, b)
      BY <2>1
    <3>3. Unescaped(Append(e, b)) = UnescapeByte(State(s, FALSE), b)
      BY <2>1, <2>2, UnescapedSnoc
    <3>4. UnescapeByte(State(s, FALSE), b) = State(Append(s, b), FALSE)
      BY <3>1 DEF UnescapeByte
    <3> QED
      BY <2>1, <3>1, <3>2, <3>3, <3>4
  <2> QED
    BY <2>3, <2>4
<1> HIDE DEF P
<1>3. s0 \in P
  BY <1>1, <1>2, SnocInduction
<1>4. Unescaped(Escape(s0)) = State(s0, FALSE)
  BY <1>3 DEF P
<1> QED
  BY <1>4 DEF Unescape

LEMMA SplitByteAt ==
  ASSUME NEW c \in Nat, NEW u \in Seq(Nat), NEW b \in Nat
  PROVE  /\ Split(<<>>, c) = <<<<>>>>
         /\ Split(u, c) \in Seq(Seq(Nat)) /\ Split(u, c) # <<>>
         /\ Split(Append(u, b), c) = SplitByte(Split(u, c), b, c)
BY SplitSnoc DEF SplitStates

LEMMA SplitByteLast ==
  ASSUME NEW ps \in Seq(Seq(Nat)), NEW v \in Seq(Nat), NEW x \in Nat, NEW c \in Nat, x # c
  PROVE  SplitByte(Append(ps, v), x, c) = Append(ps, Append(v, x))
<1> DEFINE n == Len(ps)
           t == Append(ps, v)
           a == Append(v, x)
           t1 == [t EXCEPT ![n + 1] = a]
           t2 == Append(ps, a)
<1>1. n \in Nat /\ a \in Seq(Nat) /\ t \in Seq(Seq(Nat)) /\ Len(t) = n + 1 /\ t[n + 1] = v
      /\ \A i \in 1 .. n : t[i] = ps[i]
  OBVIOUS
<1>2. t2 \in Seq(Seq(Nat)) /\ Len(t2) = n + 1 /\ t2[n + 1] = a /\ \A i \in 1 .. n : t2[i] = ps[i]
  BY <1>1, AppendProperties
<1>3. SplitByte(t, x, c) = t1
  BY <1>1 DEF SplitByte
<1> HIDE DEF t, a, t2
<1>4. n + 1 \in 1 .. Len(t)
  BY <1>1
<1>5. t1 \in Seq(Seq(Nat)) /\ Len(t1) = n + 1 /\ \A i \in 1 .. n + 1 : t1[i] = IF i = n + 1 THEN a ELSE t[i]
  BY <1>1, <1>4, ExceptSeq
<1> HIDE DEF t1, n
<1>6. \A i \in 1 .. n + 1 : t1[i] = t2[i]
  <2> TAKE i \in 1 .. n + 1
  <2>1. CASE i = n + 1
    BY <1>2, <1>5, <2>1
  <2>2. CASE i # n + 1
    <3>1. i \in 1 .. n
      BY <1>1, <2>2
    <3> QED
      BY <1>1, <1>2, <1>5, <2>2, <3>1
  <2> QED
    BY <2>1, <2>2
<1>7. t1 = t2
  BY <1>2, <1>5, <1>6, SeqEqual
<1> QED
  BY <1>3, <1>7 DEF t, t2, a

\* Without the separator a string is one part, and what follows the last separator
\* is the last part.
LEMMA SplitLast ==
  ASSUME NEW c \in Nat, NEW u \in Seq(Nat), NEW v0 \in Seq(Nat), Without(v0, {c})
  PROVE  /\ Split(v0, c) = <<v0>>
         /\ Split((u \o <<c>>) \o v0, c) = Append(Split(u, c), v0)
<1> DEFINE uc == u \o <<c>>
           ps == Split(u, c)
           P == {v \in Seq(Nat) : Without(v, {c}) => Split(v, c) = <<v>> /\ Split(uc \o v, c) = Append(ps, v)}
<1>1. uc \in Seq(Nat) /\ uc = Append(u, c) /\ uc \o <<>> = uc
  OBVIOUS
<1>2. ps \in Seq(Seq(Nat)) /\ Split(<<>>, c) = <<<<>>>> /\ Split(uc, c) = Append(ps, <<>>)
  BY <1>1, SplitByteAt DEF SplitByte
<1> HIDE DEF uc, ps
<1>3. <<>> \in P
  BY <1>1, <1>2
<1>4. ASSUME NEW v \in Seq(Nat), NEW b \in Nat, v \in P
      PROVE  Append(v, b) \in P
  <2> DEFINE vb == Append(v, b)
  <2>1. vb \in Seq(Nat) /\ vb = v \o <<b>> /\ <<b>> \in Seq(Nat)
    OBVIOUS
  <2>2. uc \o vb = Append(uc \o v, b) /\ uc \o v \in Seq(Nat)
    BY <1>1
  <2> SUFFICES ASSUME Without(vb, {c}) PROVE Split(vb, c) = <<vb>> /\ Split(uc \o vb, c) = Append(ps, vb)
    BY <2>1
  <2>3. Without(v, {c}) /\ Without(<<b>>, {c})
    BY <2>1, FreeParts DEF Cut
  <2>4. b # c
    BY <2>3 DEF Without
  <2>5. Split(v, c) = <<v>> /\ Split(uc \o v, c) = Append(ps, v)
    BY <1>4, <2>3
  <2>6. Split(Append(uc \o v, b), c) = SplitByte(Append(ps, v), b, c)
    BY <2>2, <2>5, SplitByteAt
  <2>7. SplitByte(Append(ps, v), b, c) = Append(ps, vb)
    BY <1>2, <2>4, SplitByteLast
  <2>8. Split(vb, c) = SplitByte(<<v>>, b, c)
    BY <2>5, SplitByteAt
  <2>9. SplitByte(<<v>>, b, c) = <<vb>>
    <3>1. <<>> \in Seq(Seq(Nat)) /\ Append(<<>>, v) = <<v>> /\ Append(<<>>, vb) = <<vb>>
      BY <2>1
    <3>2. <<>> \in Seq(Seq(Nat))
      OBVIOUS
    <3>3. SplitByte(Append(<<>>, v), b, c) = Append(<<>>, Append(v, b))
      BY <2>4, <3>2, SplitByteLast
    <3> QED
      BY <3>1, <3>3
  <2> QED
    BY <2>2, <2>6, <2>7, <2>8, <2>9
<1> HIDE DEF P
<1>5. v0 \in P
  BY <1>3, <1>4, SnocInduction
<1> QED
  BY <1>5 DEF P, uc, ps

LEMMA FlattenFirst ==
  ASSUME NEW S, NEW qs \in Seq(Seq(S))
  PROVE  /\ \A k \in 0 .. Len(qs) : FlattenSeq(SubSeq(qs, 1, k)) \in Seq(S)
         /\ \A k \in 1 .. Len(qs) : FlattenSeq(SubSeq(qs, 1, k)) = FlattenSeq(SubSeq(qs, 1, k - 1)) \o qs[k]
         /\ FlattenSeq(SubSeq(qs, 1, 0)) = <<>>
         /\ FlattenSeq(SubSeq(qs, 1, Len(qs))) = FlattenSeq(qs)
<1>1. SubSeq(qs, 1, 0) = <<>> /\ SubSeq(qs, 1, Len(qs)) = qs
  BY PrefixEnds
<1>2. ASSUME NEW k \in 0 .. Len(qs)
      PROVE  SubSeq(qs, 1, k) \in Seq(Seq(S))
  OBVIOUS
<1>3. ASSUME NEW k \in 1 .. Len(qs)
      PROVE  FlattenSeq(SubSeq(qs, 1, k)) = FlattenSeq(SubSeq(qs, 1, k - 1)) \o qs[k]
  <2>1. SubSeq(qs, 1, k) = Append(SubSeq(qs, 1, k - 1), qs[k])
    BY PrefixGrows
  <2>2. k - 1 \in 0 .. Len(qs) /\ qs[k] \in Seq(S)
    OBVIOUS
  <2>3. SubSeq(qs, 1, k - 1) \in Seq(Seq(S))
    BY <1>2, <2>2
  <2> DEFINE u == SubSeq(qs, 1, k - 1)
             x == qs[k]
  <2>4. u \in Seq(Seq(S)) /\ x \in Seq(S)
    BY <2>2, <2>3
  <2> HIDE DEF u, x
  <2>5. FlattenSeq(Append(u, x)) = FlattenSeq(u) \o x
    BY <2>4, FlattenSnoc
  <2> QED
    BY <2>1, <2>5 DEF u, x
<1>4. ASSUME NEW k \in 0 .. Len(qs)
      PROVE  FlattenSeq(SubSeq(qs, 1, k)) \in Seq(S)
  BY <1>2, FlattenLayout
<1> QED
  BY <1>1, <1>3, <1>4, FlattenEmpty

\* Each piece is a part and a separator behind it.
Ended(qs, ps, c) ==
  /\ qs \in Seq(Seq(Nat)) /\ ps \in Seq(Seq(Nat)) /\ Len(qs) = Len(ps)
  /\ \A i \in 1 .. Len(ps) : qs[i] = ps[i] \o <<c>> /\ Without(ps[i], {c})

SplitIs(s, c, ps, m, w) == Split(s, c) = Append(SubSeq(ps, 1, m), w)

LEMMA SplitEnded ==
  ASSUME NEW c \in Nat, NEW qs, NEW ps, Ended(qs, ps, c), NEW m0 \in 0 .. Len(ps),
         NEW w0 \in Seq(Nat), Without(w0, {c}), NEW s0, Cut(s0, FlattenSeq(SubSeq(qs, 1, m0)), w0)
  PROVE  SplitIs(s0, c, ps, m0, w0)
<1> DEFINE N == Len(ps)
           F(m) == FlattenSeq(SubSeq(qs, 1, m))
           Good(m, w) == Split(F(m) \o w, c) = Append(SubSeq(ps, 1, m), w)
           P == {m \in Nat : m <= N => \A w \in Seq(Nat) : Without(w, {c}) => Good(m, w)}
<1>1. qs \in Seq(Seq(Nat)) /\ ps \in Seq(Seq(Nat)) /\ Len(qs) = N /\ N \in Nat
  BY DEF Ended
<1>2. \A i \in 1 .. N : qs[i] = ps[i] \o <<c>> /\ Without(ps[i], {c}) /\ ps[i] \in Seq(Nat)
  <2> TAKE i \in 1 .. N
  <2>1. ps[i] \in Seq(Nat)
    BY <1>1
  <2> QED
    BY <2>1 DEF Ended
<1>3. /\ \A m \in 0 .. N : F(m) \in Seq(Nat)
      /\ \A m \in 1 .. N : F(m) = F(m - 1) \o qs[m]
      /\ F(0) = <<>>
  BY <1>1, FlattenFirst
<1>4. SubSeq(ps, 1, 0) = <<>> /\ \A m \in 1 .. N : SubSeq(ps, 1, m) = Append(SubSeq(ps, 1, m - 1), ps[m])
  BY <1>1, PrefixEnds, PrefixGrows
<1> HIDE DEF N, F
<1>5. 0 \in P
  <2> SUFFICES ASSUME NEW w \in Seq(Nat), Without(w, {c}) PROVE Good(0, w)
    OBVIOUS
  <2>1. <<>> \o w = w /\ Append(<<>>, w) = <<w>>
    BY ConcatEmptySeq
  <2>2. <<>> \in Seq(Nat)
    OBVIOUS
  <2>3. Split(w, c) = <<w>>
    BY <2>2, SplitLast
  <2> QED
    BY <1>3, <1>4, <2>1, <2>3
<1>6. ASSUME NEW m \in Nat, m \in P
      PROVE  m + 1 \in P
  <2> SUFFICES ASSUME m + 1 <= N, NEW w \in Seq(Nat), Without(w, {c}) PROVE Good(m + 1, w)
    <3>1. m + 1 \in Nat
      OBVIOUS
    <3> HIDE DEF Good
    <3> QED
      BY <3>1
  <2>1. PICK k \in 1 .. N : k = m + 1
    BY <1>1
  <2>2. k - 1 = m /\ m \in 0 .. N /\ m <= N
    BY <1>1, <2>1
  <2> DEFINE x == ps[k]
             f == F(m)
  <2>3. x \in Seq(Nat) /\ Without(x, {c}) /\ f \in Seq(Nat) /\ F(k) = f \o (x \o <<c>>)
    BY <1>2, <1>3, <2>2
  <2>4. SubSeq(ps, 1, k) = Append(SubSeq(ps, 1, m), x)
    BY <1>4, <2>2
  <2>5. Good(m, x)
    BY <1>6, <2>2, <2>3
  <2> HIDE DEF x
  <2>6. Split(f \o x, c) = Append(SubSeq(ps, 1, m), x)
    BY <2>5
  <2> HIDE DEF f
  <2>7. f \o x \in Seq(Nat) /\ (f \o (x \o <<c>>)) \o w = ((f \o x) \o <<c>>) \o w
    <3>1. f \in Seq(Nat) /\ x \in Seq(Nat) /\ <<c>> \in Seq(Nat)
      BY <2>3
    <3>2. f \o x \in Seq(Nat) /\ f \o (x \o <<c>>) = (f \o x) \o <<c>>
      BY <3>1
    <3> QED
      BY <3>2
  <2>8. Split(((f \o x) \o <<c>>) \o w, c) = Append(Split(f \o x, c), w)
    BY <2>7, SplitLast
  <2>9. Good(k, w)
    BY <2>3, <2>4, <2>6, <2>7, <2>8
  <2> QED
    BY <2>1, <2>9
<1> HIDE DEF P
<1>7. \A m \in Nat : m \in P
  BY <1>5, <1>6, SetInduction
<1>8. m0 \in P /\ m0 <= N
  BY <1>7 DEF N
<1> HIDE DEF Good
<1>9. Good(m0, w0)
  BY <1>8 DEF P
<1> QED
  BY <1>9 DEF Good, F, Cut, SplitIs

\* Each piece is a separator and a part behind it.
Led(qs, ps, c) ==
  /\ qs \in Seq(Seq(Nat)) /\ ps \in Seq(Seq(Nat)) /\ Len(qs) = Len(ps)
  /\ \A i \in 1 .. Len(ps) : qs[i] = <<c>> \o ps[i] /\ Without(ps[i], {c})

LEMMA SplitLed ==
  ASSUME NEW c \in Nat, NEW qs, NEW ps, Led(qs, ps, c), Len(ps) # 0
  PROVE  \E r \in Seq(Nat) : Cut(FlattenSeq(qs), <<c>>, r) /\ Split(r, c) = ps
<1> DEFINE N == Len(ps)
           F(m) == FlattenSeq(SubSeq(qs, 1, m))
           Rest(m, r) == Cut(F(m), <<c>>, r) /\ Split(r, c) = SubSeq(ps, 1, m)
           Good(m) == \E r \in Seq(Nat) : Rest(m, r)
           P == {m \in Nat : m + 1 <= N => Good(m + 1)}
<1>1. qs \in Seq(Seq(Nat)) /\ ps \in Seq(Seq(Nat)) /\ Len(qs) = N /\ N \in Nat
  BY DEF Led
<1>2. \A i \in 1 .. N : qs[i] = <<c>> \o ps[i] /\ Without(ps[i], {c}) /\ ps[i] \in Seq(Nat)
  <2> TAKE i \in 1 .. N
  <2>1. ps[i] \in Seq(Nat)
    BY <1>1
  <2> QED
    BY <2>1 DEF Led
<1>3. /\ \A m \in 0 .. N : F(m) \in Seq(Nat)
      /\ \A m \in 1 .. N : F(m) = F(m - 1) \o qs[m]
      /\ F(0) = <<>> /\ F(N) = FlattenSeq(qs)
  BY <1>1, FlattenFirst
<1>4. /\ SubSeq(ps, 1, 0) = <<>> /\ SubSeq(ps, 1, N) = ps
      /\ \A m \in 1 .. N : SubSeq(ps, 1, m) = Append(SubSeq(ps, 1, m - 1), ps[m])
  BY <1>1, PrefixEnds, PrefixGrows
<1> HIDE DEF N, F
<1>5. 0 \in P
  <2> SUFFICES ASSUME 1 <= N PROVE Good(1)
    OBVIOUS
  <2>1. PICK k \in 1 .. N : k = 1
    BY <1>1
  <2>2. k - 1 = 0
    BY <2>1
  <2> DEFINE x == ps[k]
  <2>3. x \in Seq(Nat) /\ Without(x, {c}) /\ F(k) = <<>> \o (<<c>> \o x) /\ <<>> \in Seq(Nat)
    <3>1. x \in Seq(Nat) /\ Without(x, {c}) /\ qs[k] = <<c>> \o x
      BY <1>2
    <3>2. F(k) = F(0) \o qs[k]
      BY <1>3, <2>2
    <3>3. <<>> \in Seq(Nat)
      OBVIOUS
    <3> QED
      BY <1>3, <3>1, <3>2, <3>3
  <2>4. SubSeq(ps, 1, k) = Append(<<>>, x)
    BY <1>4, <2>2
  <2> HIDE DEF x
  <2>5. <<>> \o (<<c>> \o x) = <<c>> \o x /\ Append(<<>>, x) = <<x>>
    BY <2>3
  <2>6. Split(x, c) = <<x>>
    BY <2>3, SplitLast
  <2>7. Rest(1, x)
    BY <2>1, <2>3, <2>4, <2>5, <2>6 DEF Cut
  <2> HIDE DEF Rest
  <2> QED
    BY <2>3, <2>7
<1>6. ASSUME NEW m \in Nat, m \in P
      PROVE  m + 1 \in P
  <2> SUFFICES ASSUME (m + 1) + 1 <= N PROVE Good((m + 1) + 1)
    OBVIOUS
  <2>1. PICK k \in 1 .. N : k = (m + 1) + 1
    BY <1>1
  <2>2. PICK j \in 1 .. N : j = m + 1
    BY <1>1, <2>1
  <2>3. k - 1 = j /\ m + 1 <= N
    BY <1>1, <2>1, <2>2
  <2>4. Good(j)
    <3> HIDE DEF Good
    <3> QED
      BY <1>6, <2>2, <2>3
  <2>5. PICK r \in Seq(Nat) : Rest(j, r)
    <3> HIDE DEF Rest
    <3> QED
      BY <2>4
  <2> DEFINE x == ps[k]
             f == F(j)
  <2>6. x \in Seq(Nat) /\ Without(x, {c}) /\ F(k) = f \o (<<c>> \o x) /\ f = <<c>> \o r
    BY <1>2, <1>3, <2>3, <2>5 DEF Cut
  <2>7. SubSeq(ps, 1, k) = Append(SubSeq(ps, 1, j), x) /\ Split(r, c) = SubSeq(ps, 1, j)
    BY <1>4, <2>3, <2>5
  <2> HIDE DEF x, f
  <2> DEFINE q == (r \o <<c>>) \o x
  <2>8. q \in Seq(Nat) /\ (<<c>> \o r) \o (<<c>> \o x) = <<c>> \o q
    BY <2>6
  <2>9. Split(q, c) = Append(Split(r, c), x)
    BY <2>6, SplitLast
  <2> HIDE DEF q
  <2>10. Rest(k, q)
    BY <2>6, <2>7, <2>8, <2>9 DEF Cut
  <2>11. Good(k)
    <3> HIDE DEF Rest
    <3> QED
      BY <2>8, <2>10
  <2> QED
    BY <2>1, <2>11
<1> HIDE DEF P, Good
<1>7. \A m \in Nat : m \in P
  BY <1>5, <1>6, SetInduction
<1>8. PICK m \in Nat : m + 1 = N
  <2>1. N - 1 \in Nat /\ (N - 1) + 1 = N
    BY <1>1 DEF N
  <2> QED
    BY <2>1
<1>9. Good(N)
  <2>1. m \in P /\ m + 1 <= N
    BY <1>7, <1>8
  <2>2. Good(m + 1)
    BY <2>1 DEF P
  <2> QED
    BY <1>8, <2>2
<1>10. PICK r \in Seq(Nat) : Rest(N, r)
  <2> HIDE DEF Rest
  <2> QED
    BY <1>9 DEF Good
<1>11. Cut(FlattenSeq(qs), <<c>>, r) /\ Split(r, c) = ps
  BY <1>3, <1>4, <1>10
<1> QED
  BY <1>11

LEMMA NotFound ==
  ASSUME NEW s \in Seq(Nat), NEW b \in Nat, Without(s, {b})
  PROVE  IndexOf(s, b) = 0 /\ Before(s, b) = s /\ After(s, b) = <<>>
<1>1. {i \in 1 .. Len(s) : s[i] = b} = {}
  BY DEF Without
<1>2. IndexOf(s, b) = 0
  BY <1>1 DEF IndexOf, SelectInSeq
<1> QED
  BY <1>2 DEF Before, After

LEMMA FoundAt ==
  ASSUME NEW s \in Seq(Nat), NEW u \in Seq(Nat), NEW v \in Seq(Nat), NEW b \in Nat,
         Cut(s, u, <<b>> \o v), Without(u, {b})
  PROVE  IndexOf(s, b) = Len(u) + 1 /\ Before(s, b) = u /\ After(s, b) = v
<1> DEFINE n == Len(u)
           x == <<b>> \o v
           T == {i \in 1 .. Len(s) : s[i] = b}
<1>1. x \in Seq(Nat) /\ Len(x) = Len(v) + 1 /\ x[1] = b /\ n \in Nat /\ Len(v) \in Nat
      /\ \A i \in 1 .. Len(v) : x[i + 1] = v[i]
  OBVIOUS
<1> HIDE DEF x
<1>2. /\ Len(s) = n + Len(x)
      /\ \A i \in 1 .. n : s[i] = u[i]
      /\ \A i \in 1 .. Len(x) : s[n + i] = x[i]
  <2>1. x \in Seq(Nat) /\ Cut(s, u, x)
    BY <1>1 DEF x
  <2> QED
    BY <2>1, CutFacts
<1> HIDE DEF n
<1>3. n + 1 \in T
  <2>1. n + 1 \in 1 .. Len(s) /\ 1 \in 1 .. Len(x)
    BY <1>1, <1>2
  <2>2. s[n + 1] = x[1]
    BY <1>2, <2>1
  <2> QED
    BY <1>1, <2>1, <2>2
<1>4. ASSUME NEW j \in T
      PROVE  n + 1 <= j
  <2> SUFFICES ASSUME ~(n + 1 <= j) PROVE FALSE
    OBVIOUS
  <2>1. j \in 1 .. n /\ s[j] = b
    BY <1>1
  <2>2. u[j] = b
    BY <1>2, <2>1
  <2> QED
    BY <2>1, <2>2 DEF Without, n
<1>5. T \in SUBSET Int
  OBVIOUS
<1> HIDE DEF T
<1>6. Min(T) = n + 1
  BY <1>3, <1>4, <1>5, MinOf
<1>7. IndexOf(s, b) = n + 1
  <2>1. IndexOf(s, b) = IF T # {} THEN Min(T) ELSE 0
    BY DEF IndexOf, SelectInSeq, T
  <2> QED
    BY <1>3, <1>6, <2>1
<1>8. SubSeq(s, 1, n + 1 - 1) = u
  <2>1. n + 1 - 1 = n
    BY <1>1
  <2>2. SubSeq(s, 1, n) \in Seq(Nat) /\ Len(SubSeq(s, 1, n)) = n /\ \A i \in 1 .. n : SubSeq(s, 1, n)[i] = s[i]
    BY <1>1, <1>2
  <2>3. SubSeq(s, 1, n) = u
    BY <1>2, <2>2, SeqEqual DEF n
  <2> QED
    BY <2>1, <2>3
<1>9. SubSeq(s, n + 1 + 1, Len(s)) = v
  <2> DEFINE r == SubSeq(s, n + 1 + 1, Len(s))
  <2>1. r \in Seq(Nat) /\ Len(r) = Len(v) /\ \A i \in 1 .. Len(v) : r[i] = s[n + (i + 1)]
    <3>1. n + 1 + 1 \in Int /\ Len(s) \in Int /\ Len(s) - (n + 1 + 1) + 1 = Len(v)
      BY <1>1, <1>2
    <3>2. \A i \in n + 1 + 1 .. Len(s) : s[i] \in Nat
      BY <1>1
    <3>3. r \in Seq(Nat) /\ Len(r) = Len(v) /\ \A i \in 1 .. Len(v) : r[i] = s[n + 1 + 1 + i - 1]
      BY <1>1, <3>1, <3>2, SubSeqProperties
    <3>4. \A i \in 1 .. Len(v) : n + 1 + 1 + i - 1 = n + (i + 1)
      BY <1>1
    <3> QED
      BY <3>3, <3>4
  <2> HIDE DEF r
  <2>2. \A i \in 1 .. Len(v) : r[i] = v[i]
    <3> TAKE i \in 1 .. Len(v)
    <3>1. i + 1 \in 1 .. Len(x)
      BY <1>1
    <3>2. s[n + (i + 1)] = x[i + 1]
      BY <1>2, <3>1
    <3> QED
      BY <1>1, <2>1, <3>2
  <2>3. r = v
    BY <2>1, <2>2, SeqEqual
  <2> QED
    BY <2>3 DEF r
<1>10. n + 1 # 0
  BY <1>1
<1> QED
  BY <1>7, <1>8, <1>9, <1>10 DEF Before, After, n

\* A record: a sign character, the byte 1 and what follows.
LEMMA DecodeWhole ==
  ASSUME NEW k \in Nat \ {1}, NEW raw \in Seq(Nat), NEW x
  PROVE  DecodeRecord(x, <<k, 1>> \o raw) = Append(x, Build(KindOf(k), raw))
<1> DEFINE r == <<k, 1>> \o raw
<1>1. r \in Seq(Nat) /\ r = <<k>> \o (<<1>> \o raw) /\ r[1] = k /\ <<k>> \in Seq(Nat) /\ Len(<<k>>) = 1
  OBVIOUS
<1>2. Without(<<k>>, {1})
  BY DEF Without
<1> HIDE DEF r
<1>3. Cut(r, <<k>>, <<1>> \o raw)
  BY <1>1 DEF Cut
<1>4. IndexOf(r, 1) = 2 /\ After(r, 1) = raw
  <2>1. 1 \in Nat /\ Len(<<k>>) + 1 = 2
    OBVIOUS
  <2>2. r \in Seq(Nat)
    BY <1>1
  <2>3. <<k>> \in Seq(Nat)
    BY <1>1
  <2> DEFINE u == <<k>>
  <2> HIDE DEF u
  <2>4. u \in Seq(Nat) /\ Cut(r, u, <<1>> \o raw) /\ Without(u, {1}) /\ Len(u) + 1 = 2
    BY <1>2, <1>3, <2>1, <2>3 DEF u
  <2>5. IndexOf(r, 1) = Len(u) + 1 /\ After(r, 1) = raw
    BY <2>1, <2>2, <2>4, FoundAt
  <2> QED
    BY <2>4, <2>5
<1> QED
  BY <1>1, <1>4 DEF DecodeRecord, r

LEMMA DecodeBroken ==
  ASSUME NEW w \in Seq(Nat), Without(w, {1}), NEW x
  PROVE  DecodeRecord(x, w) = x
<1>1. IndexOf(w, 1) = 0
  BY NotFound
<1> QED
  BY <1>1 DEF DecodeRecord

\* Records and what is in them.
Bodies(ps, ks, raws) ==
  /\ ps \in Seq(Seq(Nat)) /\ ks \in Seq(Nat \ {1, 2}) /\ raws \in Seq(Seq(Nat))
  /\ Len(ks) = Len(ps) /\ Len(raws) = Len(ps)
  /\ \A i \in 1 .. Len(ps) : ps[i] = <<ks[i], 1>> \o raws[i] /\ Without(raws[i], {2})

Decoded(d, ks, raws, n) == Len(d) = n /\ \A i \in 1 .. n : d[i] = Build(KindOf(ks[i]), raws[i])

LEMMA DecodeBodies ==
  ASSUME NEW ps, NEW ks, NEW raws, Bodies(ps, ks, raws), NEW m0 \in 0 .. Len(ps)
  PROVE  Decoded(DecodeRecords(SubSeq(ps, 1, m0)), ks, raws, m0)
<1> DEFINE N == Len(ps)
           D(m) == DecodeRecords(SubSeq(ps, 1, m))
           P == {m \in Nat : m <= N => Decoded(D(m), ks, raws, m)}
<1>1. ps \in Seq(Seq(Nat)) /\ N \in Nat
  BY DEF Bodies
<1>2. \A i \in 1 .. N : ps[i] \in Seq(Nat) /\ ks[i] \in Nat \ {1} /\ raws[i] \in Seq(Nat)
  BY DEF Bodies
<1>3. \A i \in 1 .. N : ps[i] = <<ks[i], 1>> \o raws[i]
  BY DEF Bodies
<1>4. /\ SubSeq(ps, 1, 0) = <<>>
      /\ \A m \in 1 .. N : SubSeq(ps, 1, m) = Append(SubSeq(ps, 1, m - 1), ps[m])
      /\ \A m \in 0 .. N : SubSeq(ps, 1, m) \in Seq(Seq(Nat))
  BY <1>1, PrefixEnds, PrefixGrows
<1> HIDE DEF N
<1>5. 0 \in P
  <2>1. <<>> \in Seq(Seq(Nat)) /\ <<>> \in Seq(Nat)
    OBVIOUS
  <2>2. DecodeRecords(<<>>) = <<>>
    BY <2>1, DecodedSnoc
  <2>3. D(0) = <<>>
    BY <1>4, <2>2
  <2>4. Decoded(<<>>, ks, raws, 0)
    BY DEF Decoded
  <2> HIDE DEF D
  <2> QED
    BY <2>3, <2>4
<1>6. ASSUME NEW m \in Nat, m \in P
      PROVE  m + 1 \in P
  <2> SUFFICES ASSUME m + 1 <= N PROVE Decoded(D(m + 1), ks, raws, m + 1)
    OBVIOUS
  <2>1. PICK k \in 1 .. N : k = m + 1
    BY <1>1
  <2>2. k - 1 = m /\ m \in 0 .. N /\ m <= N
    BY <1>1, <2>1
  <2> DEFINE u == SubSeq(ps, 1, m)
             b == Build(KindOf(ks[k]), raws[k])
  <2>3. u \in Seq(Seq(Nat)) /\ SubSeq(ps, 1, k) = Append(u, ps[k])
    BY <1>4, <2>2
  <2> HIDE DEF u
  <2>4. DecodeRecords(u) \in Seq(Values) /\ D(k) = DecodeRecord(DecodeRecords(u), ps[k])
    BY <1>2, <2>3, DecodedSnoc
  <2>5. D(k) = Append(DecodeRecords(u), b)
    BY <1>2, <1>3, <2>4, DecodeWhole
  <2>6. Decoded(DecodeRecords(u), ks, raws, m)
    BY <1>6, <2>2 DEF u
  <2> DEFINE d == DecodeRecords(u)
  <2>7. d \in Seq(Values) /\ Len(d) = m /\ \A i \in 1 .. m : d[i] = Build(KindOf(ks[i]), raws[i])
    BY <2>4, <2>6 DEF Decoded
  <2>8. b \in Values
    <3>1. ps[k] \in Seq(Nat) /\ raws[k] \in Seq(Nat)
      BY <1>2
    <3>2. KindOf(ks[k]) = KindOf((<<ks[k], 1>> \o raws[k])[1]) /\ After(<<ks[k], 1>> \o raws[k], 1) = raws[k]
      <4> DEFINE x == ks[k]
                 y == raws[k]
      <4>1. x \in Nat \ {1} /\ y \in Seq(Nat)
        BY <1>2
      <4> HIDE DEF x, y
      <4>2. (<<x, 1>> \o y)[1] = x /\ <<x, 1>> \o y = <<x>> \o (<<1>> \o y) /\ <<x, 1>> \o y \in Seq(Nat) /\ <<x>> \in Seq(Nat)
        BY <4>1
      <4>3. Without(<<x>>, {1}) /\ 1 \in Nat
        BY <4>1 DEF Without
      <4>4. After(<<x, 1>> \o y, 1) = y
        BY <4>1, <4>2, <4>3, FoundAt DEF Cut
      <4> QED
        BY <4>2, <4>4 DEF x, y
    <3>3. b = Build(KindOf(ps[k][1]), After(ps[k], 1))
      BY <1>3, <3>2
    <3> HIDE DEF b
    <3> QED
      BY <3>1, <3>3 DEF Values
  <2> HIDE DEF d, b
  <2>9. Len(Append(d, b)) = m + 1 /\ \A i \in 1 .. m + 1 : Append(d, b)[i] = IF i = m + 1 THEN b ELSE d[i]
    BY <2>7, <2>8
  <2>10. \A i \in 1 .. m + 1 : Append(d, b)[i] = Build(KindOf(ks[i]), raws[i])
    <3> TAKE i \in 1 .. m + 1
    <3>1. CASE i = m + 1
      BY <2>1, <2>9, <3>1 DEF b
    <3>2. CASE i # m + 1
      <4>1. i \in 1 .. m
        BY <3>2
      <4> QED
        BY <2>7, <2>9, <3>2, <4>1
    <3> QED
      BY <3>1, <3>2
  <2> QED
    BY <2>1, <2>5, <2>9, <2>10 DEF Decoded, d
<1> HIDE DEF P
<1>7. \A m \in Nat : m \in P
  BY <1>5, <1>6, SetInduction
<1> QED
  BY <1>7 DEF P, N

LEMMA FlattenFree ==
  ASSUME NEW qs \in Seq(Seq(Nat)), NEW B, \A i \in 1 .. Len(qs) : Without(qs[i], B)
  PROVE  Without(FlattenSeq(qs), B)
<1> DEFINE N == Len(qs)
           F(m) == FlattenSeq(SubSeq(qs, 1, m))
           P == {m \in Nat : m <= N => Without(F(m), B)}
<1>1. /\ \A m \in 0 .. N : F(m) \in Seq(Nat)
      /\ \A m \in 1 .. N : F(m) = F(m - 1) \o qs[m]
      /\ F(0) = <<>> /\ F(N) = FlattenSeq(qs)
  BY FlattenFirst
<1>2. N \in Nat /\ \A i \in 1 .. N : qs[i] \in Seq(Nat) /\ Without(qs[i], B)
  OBVIOUS
<1> HIDE DEF F, N
<1>3. 0 \in P
  <2>1. Without(<<>>, B)
    BY DEF Without
  <2> QED
    BY <1>1, <2>1
<1>4. ASSUME NEW m \in Nat, m \in P
      PROVE  m + 1 \in P
  <2> SUFFICES ASSUME m + 1 <= N PROVE Without(F(m + 1), B)
    OBVIOUS
  <2>1. PICK k \in 1 .. N : k = m + 1
    BY <1>2
  <2>2. k - 1 = m /\ m \in 0 .. N /\ k \in 0 .. N /\ m <= N
    BY <1>2, <2>1
  <2>3. Cut(F(k), F(m), qs[k]) /\ F(k) \in Seq(Nat) /\ F(m) \in Seq(Nat) /\ qs[k] \in Seq(Nat)
    BY <1>1, <1>2, <2>2 DEF Cut
  <2>4. Without(F(m), B) /\ Without(qs[k], B)
    BY <1>2, <1>4, <2>2
  <2>5. Without(F(k), B)
    BY <2>3, <2>4, FreeParts
  <2> QED
    BY <2>1, <2>5
<1> HIDE DEF P
<1>5. N \in P
  BY <1>2, <1>3, <1>4, SetInduction
<1> QED
  BY <1>1, <1>2, <1>5 DEF P

\* Where a cut may fall: not behind an escape byte or a marker, not in a character.
Safe(p, v) ==
  /\ p # <<>> => p[Len(p)] \notin {5, 26}
  /\ v # <<>> => v[1] \notin Continuation

LEMMA SafeParts ==
  ASSUME NEW p \in Seq(Nat), NEW v \in Seq(Nat), Safe(p, v),
         NEW x \in Seq(Nat), NEW r \in Seq(Nat), Cut(p, x, r),
         NEW y \in Seq(Nat), NEW z \in Seq(Nat), Cut(v, y, z)
  PROVE  Safe(r, y)
<1>1. /\ Len(p) = Len(x) + Len(r) /\ \A i \in 1 .. Len(r) : p[Len(x) + i] = r[i]
  BY CutFacts
<1>2. Len(v) = Len(y) + Len(z) /\ \A i \in 1 .. Len(y) : v[i] = y[i]
  BY CutFacts
<1>3. ASSUME r # <<>>
      PROVE  r[Len(r)] \notin {5, 26}
  <2>1. Len(r) \in 1 .. Len(r) /\ Len(x) \in Nat
    BY <1>3
  <2>2. p[Len(p)] = r[Len(r)] /\ p # <<>>
    BY <1>1, <2>1
  <2> QED
    BY <2>2 DEF Safe
<1>4. ASSUME y # <<>>
      PROVE  y[1] \notin Continuation
  <2>1. 1 \in 1 .. Len(y) /\ Len(z) \in Nat
    BY <1>4
  <2>2. v[1] = y[1] /\ v # <<>>
    BY <1>2, <2>1
  <2> QED
    BY <2>2 DEF Safe
<1> QED
  BY <1>3, <1>4 DEF Safe

LEMMA CutLen ==
  ASSUME NEW S, NEW s \in Seq(S), NEW p \in Seq(S), NEW v \in Seq(S), Cut(s, p, v)
  PROVE  Len(s) = Len(p) + Len(v)
BY CutFacts

LEMMA CutEmpty ==
  ASSUME NEW S, NEW s \in Seq(S), NEW p \in Seq(S), Cut(s, p, <<>>)
  PROVE  p = s
<1>1. <<>> \in Seq(S)
  OBVIOUS
<1> QED
  BY <1>1, CutFacts

LEMMA CutFromEmpty ==
  ASSUME NEW S, NEW s \in Seq(S), NEW v \in Seq(S), Cut(s, <<>>, v)
  PROVE  v = s
<1>1. <<>> \in Seq(S)
  OBVIOUS
<1> QED
  BY <1>1, CutFacts

LEMMA OneIsSum ==
  ASSUME NEW i \in Nat, NEW j \in Nat \ {0}, 1 = i + j
  PROVE  i = 0
OBVIOUS

LEMMA TwoIsSum ==
  ASSUME NEW i \in Nat, NEW j \in Nat, 2 = i + j, i # 2
  PROVE  i \in {0, 1}
OBVIOUS

\* The first half of a first half.
LEMMA CutDeeper ==
  ASSUME NEW S, NEW p \in Seq(S), NEW f \in Seq(S), NEW w \in Seq(S), NEW g \in Seq(S), NEW r \in Seq(S),
         Cut(p, f, w), Cut(w, g, r)
  PROVE  f \o g \in Seq(S) /\ Cut(p, f \o g, r)
<1>1. p = f \o w /\ w = g \o r
  BY DEF Cut
<1>2. (f \o g) \o r = f \o (g \o r) /\ f \o g \in Seq(S)
  OBVIOUS
<1> QED
  BY <1>1, <1>2 DEF Cut

\* Cut before its end, a sequence is cut in its first half or at the last element.
LEMMA CutBeforeLast ==
  ASSUME NEW S, NEW q \in Seq(S), NEW b \in Seq(S), NEW c \in Seq(S), Len(c) = 1, Cut(q, b, c),
         NEW w \in Seq(S), NEW y \in Seq(S), Cut(q, w, y), y # <<>>
  PROVE  \E u \in Seq(S) : Cut(b, w, u) /\ Cut(y, u, c)
<1>1. CASE \E u \in Seq(S) : Cut(b, w, u) /\ Cut(y, u, c)
  BY <1>1
<1>2. CASE \E u \in Seq(S) : Cut(w, b, u) /\ Cut(c, u, y)
  <2>1. PICK u \in Seq(S) : Cut(w, b, u) /\ Cut(c, u, y)
    BY <1>2
  <2>2. Len(c) = Len(u) + Len(y)
    BY <2>1, CutFacts
  <2>3. u = <<>>
    <3>1. Len(u) \in Nat /\ Len(y) \in Nat \ {0}
      BY <2>1, EmptySeq
    <3>2. Len(u) = 0
      BY <2>2, <3>1, OneIsSum
    <3> QED
      BY <2>1, <3>2, EmptySeq
  <2>4. w = b
    BY <2>1, <2>3, CutFacts
  <2>5. y = c
    BY <2>1, <2>3, CutFacts
  <2>6. Cut(b, b, <<>>) /\ Cut(c, <<>>, c) /\ <<>> \in Seq(S)
    BY CutEnds
  <2> QED
    BY <2>4, <2>5, <2>6
<1>3. \/ \E u \in Seq(S) : Cut(b, w, u) /\ Cut(y, u, c)
      \/ \E u \in Seq(S) : Cut(w, b, u) /\ Cut(c, u, y)
  BY TwoCuts
<1> QED
  BY <1>1, <1>2, <1>3

Frame(sign, stop) == Len(sign) = 2 /\ sign[1] # 1 /\ Len(stop) = 1

\* Of what w was cut from, r is left behind the sign.
CutBehind(w, sign, raw, y, stop) ==
  \E r, a \in Seq(Nat) : Cut(w, sign, r) /\ Cut(raw, r, a) /\ Cut(y, a, stop)

\* A record cut before its end: inside its sign or inside what follows it.
LEMMA RecordCut ==
  ASSUME NEW sign \in Seq(Nat), NEW raw \in Seq(Nat), NEW b \in Seq(Nat), NEW q \in Seq(Nat),
         NEW stop \in Seq(Nat), Cut(b, sign, raw), Cut(q, b, stop), Frame(sign, stop), NEW c, Without(b, {c}),
         NEW w \in Seq(Nat), NEW y \in Seq(Nat), Cut(q, w, y), y # <<>>
  PROVE  Without(w, {c}) /\ (Without(w, {1}) \/ CutBehind(w, sign, raw, y, stop))
<1>1. Len(stop) = 1 /\ Len(sign) = 2 /\ sign[1] # 1
  BY DEF Frame
<1>3. PICK u \in Seq(Nat) : Cut(b, w, u) /\ Cut(y, u, stop)
  BY <1>1, CutBeforeLast
<1>4. Without(w, {c})
  BY <1>3, FreeParts
<1>5. CASE \E a \in Seq(Nat) : Cut(sign, w, a) /\ Cut(u, a, raw)
  <2>1. PICK a \in Seq(Nat) : Cut(sign, w, a) /\ Cut(u, a, raw)
    BY <1>5
  <2>2. 2 = Len(w) + Len(a)
    <3>1. Len(sign) = Len(w) + Len(a)
      BY <2>1, CutLen
    <3> QED
      BY <1>1, <3>1
  <2>3. \A i \in 1 .. Len(w) : sign[i] = w[i]
    BY <2>1, CutFacts
  <2>4. Len(w) \in Nat /\ Len(a) \in Nat
    BY <2>1
  <2>5. CASE Len(w) = 2
    <3>1. Len(a) = 0
      BY <2>2, <2>4, <2>5
    <3>2. a = <<>>
      BY <2>1, <3>1, EmptySeq
    <3>3. w = sign
      BY <2>1, <3>2, CutEmpty
    <3>4. u = raw
      BY <1>3, <2>1, <3>2, CutFromEmpty
    <3>5. Cut(sign, sign, <<>>) /\ Cut(raw, <<>>, raw) /\ <<>> \in Seq(Nat)
      BY CutEnds
    <3> QED
      BY <1>3, <1>4, <3>3, <3>4, <3>5 DEF CutBehind
  <2>6. CASE Len(w) # 2
    <3>1. Len(w) \in {0, 1}
      BY <2>2, <2>4, <2>6, TwoIsSum
    <3>2. Without(w, {1})
      BY <1>1, <2>3, <3>1 DEF Without
    <3> QED
      BY <1>4, <3>2
  <2> QED
    BY <2>5, <2>6
<1>6. CASE \E r \in Seq(Nat) : Cut(w, sign, r) /\ Cut(raw, r, u)
  BY <1>3, <1>4, <1>6 DEF CutBehind
<1>7. \/ \E r \in Seq(Nat) : Cut(w, sign, r) /\ Cut(raw, r, u)
      \/ \E a \in Seq(Nat) : Cut(sign, w, a) /\ Cut(u, a, raw)
  BY <1>3, TwoCuts
<1> QED
  BY <1>5, <1>6, <1>7

LEMMA DecodeAt ==
  ASSUME NEW qs, NEW ps, Ended(qs, ps, 2), NEW p \in Seq(Nat), NEW m \in 0 .. Len(ps),
         NEW w \in Seq(Nat), Without(w, {2}), Cut(p, FlattenSeq(SubSeq(qs, 1, m)), w)
  PROVE  /\ DecodeRecords(SubSeq(ps, 1, m)) \in Seq(Values)
         /\ DecodeArgs(p) = DecodeRecord(DecodeRecords(SubSeq(ps, 1, m)), w)
<1> DEFINE u == SubSeq(ps, 1, m)
<1>1. u \in Seq(Seq(Nat))
  <2>1. ps \in Seq(Seq(Nat))
    BY DEF Ended
  <2> QED
    BY <2>1
<1>2. Split(p, 2) = Append(u, w)
  <2> HIDE DEF u
  <2> DEFINE c == 2
  <2>2. c \in Nat /\ Ended(qs, ps, c) /\ Without(w, {c})
    OBVIOUS
  <2> HIDE DEF c
  <2>3. SplitIs(p, c, ps, m, w)
    BY <2>2, SplitEnded
  <2> QED
    BY <2>3 DEF u, c, SplitIs
<1> HIDE DEF u
<1>3. DecodeRecords(u) \in Seq(Values)
  <2>1. <<>> \in Seq(Nat)
    OBVIOUS
  <2> QED
    BY <1>1, <2>1, DecodedSnoc
<1>4. DecodeRecords(Append(u, w)) = DecodeRecord(DecodeRecords(u), w)
  BY <1>1, DecodedSnoc
<1>5. DecodeArgs(p) = DecodeRecord(DecodeRecords(u), w)
  BY <1>2, <1>4 DEF DecodeArgs
<1> QED
  BY <1>3, <1>5 DEF u

\* The first m records as they are, and one of which r is left.
BrokenAt(d, ks, raws, m, r) ==
  /\ Len(d) = m + 1 /\ \A i \in 1 .. m : d[i] = Build(KindOf(ks[i]), raws[i])
  /\ d[m + 1] = Build(KindOf(ks[m + 1]), r)

\* r begins raw, and a cut in front of v ends it.
BrokenFrom(p, v, raw, r) ==
  \E x, y, z \in Seq(Nat) : Cut(p, x, r) /\ Cut(raw, r, y) /\ Cut(v, y, z)

LEMMA BrokenAppend ==
  ASSUME NEW ks, NEW raws, NEW m \in Nat, NEW d \in Seq(Values), Decoded(d, ks, raws, m), NEW r
  PROVE  BrokenAt(Append(d, Build(KindOf(ks[m + 1]), r)), ks, raws, m, r)
<1> DEFINE c == Build(KindOf(ks[m + 1]), r)
<1>1. d \in Seq(Values) /\ Len(d) = m /\ m \in Nat /\ \A i \in 1 .. m : d[i] = Build(KindOf(ks[i]), raws[i])
  BY DEF Decoded
<1> HIDE DEF c
<1>2. Len(Append(d, c)) = m + 1 /\ Append(d, c)[m + 1] = c /\ \A i \in 1 .. m : Append(d, c)[i] = d[i]
  BY <1>1
<1> QED
  BY <1>1, <1>2 DEF BrokenAt, c

LEMMA RecordBroken ==
  ASSUME NEW p \in Seq(Nat), NEW v \in Seq(Nat), NEW f \in Seq(Nat), NEW w \in Seq(Nat), NEW y \in Seq(Nat),
         NEW z \in Seq(Nat), Cut(p, f, w), Cut(v, y, z), NEW sign \in Seq(Nat), NEW stop \in Seq(Nat),
         NEW raw \in Seq(Nat), NEW r \in Seq(Nat), NEW a \in Seq(Nat), Cut(w, sign, r), Cut(raw, r, a), Cut(y, a, stop)
  PROVE  BrokenFrom(p, v, raw, r)
<1>1. f \o sign \in Seq(Nat) /\ Cut(p, f \o sign, r)
  BY CutDeeper
<1>2. stop \o z \in Seq(Nat) /\ Cut(v, a, stop \o z)
  BY CutOfCut
<1> QED
  BY <1>1, <1>2 DEF BrokenFrom

\* A cut string of records decodes to the first of them, and of one more what was
\* left of it when the cut fell behind its sign.
LEMMA DecodeCut ==
  ASSUME NEW qs, NEW ps, NEW ks, NEW raws, Ended(qs, ps, 2), Bodies(ps, ks, raws),
         NEW p \in Seq(Nat), NEW v \in Seq(Nat), Cut(FlattenSeq(qs), p, v)
  PROVE  \/ v = <<>> /\ Decoded(DecodeArgs(p), ks, raws, Len(ps))
         \/ v # <<>> /\ \E m \in 0 .. Len(ps) - 1 : Decoded(DecodeArgs(p), ks, raws, m)
         \/ v # <<>> /\ \E m \in 0 .. Len(ps) - 1 : \E r \in Seq(Nat) :
              BrokenAt(DecodeArgs(p), ks, raws, m, r) /\ BrokenFrom(p, v, raws[m + 1], r)
<1>1. qs \in Seq(Seq(Nat)) /\ ps \in Seq(Seq(Nat)) /\ Len(qs) = Len(ps) /\ Len(ps) \in Nat
  BY DEF Ended
<1> DEFINE N == Len(ps)
           F(m) == FlattenSeq(SubSeq(qs, 1, m))
           R(m) == DecodeRecords(SubSeq(ps, 1, m))
<1>2. /\ \A m \in 0 .. N : F(m) \in Seq(Nat)
      /\ F(N) = FlattenSeq(qs)
  BY <1>1, FlattenFirst
<1>3. \A m \in 0 .. N : Decoded(R(m), ks, raws, m)
  BY DecodeBodies
<1>4. ASSUME NEW m \in 0 .. N, NEW w \in Seq(Nat), Without(w, {2}), Cut(p, F(m), w)
      PROVE  R(m) \in Seq(Values) /\ DecodeArgs(p) = DecodeRecord(R(m), w)
  BY <1>4, DecodeAt
<1> HIDE DEF F, R
<1>5. CASE v = <<>>
  <2>1. <<>> \in Seq(Nat) /\ Without(<<>>, {2}) /\ Without(<<>>, {1})
    BY DEF Without
  <2>2. p = F(N)
    <3>1. F(N) \in Seq(Nat)
      BY <1>1, <1>2
    <3>2. Cut(F(N), p, <<>>)
      BY <1>2, <1>5
    <3> QED
      BY <3>1, <3>2, CutEmpty
  <2>3. Cut(p, F(N), <<>>)
    BY <2>2, CutEnds
  <2>4. N \in 0 .. N
    BY <1>1
  <2>5. DecodeArgs(p) = R(N)
    BY <1>4, <2>1, <2>3, <2>4, DecodeBroken
  <2> QED
    BY <1>3, <1>5, <2>4, <2>5
<1>6. CASE v # <<>>
  <2>1. PICK m \in 0 .. N - 1, w \in Seq(Nat), y \in Seq(Nat), z \in Seq(Nat) : CutAt(qs, p, v, m, w, y, z)
    <3>1. \E m \in 0 .. Len(qs) - 1 : \E w, y, z \in Seq(Nat) : CutAt(qs, p, v, m, w, y, z)
      BY <1>1, <1>6, FlattenCut
    <3> QED
      BY <1>1, <3>1
  <2> DEFINE j == m + 1
             b == ps[j]
             k == ks[j]
             raw == raws[j]
             q == qs[j]
  <2>2. j \in 1 .. N /\ m \in 0 .. N /\ m \in Nat
    BY <1>1
  <2>3. /\ b \in Seq(Nat) /\ k \in Nat \ {1, 2} /\ raw \in Seq(Nat) /\ b = <<k, 1>> \o raw
    <3>1. b \in Seq(Nat)
      BY <1>1, <2>2
    <3>2. k \in Nat \ {1, 2}
      BY <2>2 DEF Bodies
    <3>3. raw \in Seq(Nat)
      BY <2>2 DEF Bodies
    <3>4. b = <<k, 1>> \o raw
      BY <2>2 DEF Bodies
    <3> QED
      BY <3>1, <3>2, <3>3, <3>4
  <2>4. q = b \o <<2>> /\ Without(b, {2}) /\ q \in Seq(Nat)
    BY <1>1, <2>2 DEF Ended
  <2>5. Cut(p, F(m), w) /\ Cut(q, w, y) /\ Cut(v, y, z) /\ y # <<>>
    BY <2>1 DEF CutAt, F
  <2> HIDE DEF j, b, k, raw, q, N
  <2> DEFINE stop == <<2>>
             sign == <<k, 1>>
  <2>6. stop \in Seq(Nat) /\ Len(stop) = 1 /\ Cut(q, b, stop)
    BY <2>4 DEF Cut
  <2>7. sign \in Seq(Nat) /\ Len(sign) = 2 /\ sign[1] # 1 /\ Cut(b, sign, raw)
    BY <2>3 DEF Cut
  <2> HIDE DEF stop, sign
  <2>8. w \in Seq(Nat) /\ y \in Seq(Nat) /\ z \in Seq(Nat)
    BY <2>1
  <2>9. Without(w, {2}) /\ (Without(w, {1}) \/ CutBehind(w, sign, raw, y, stop))
    <3> DEFINE c == 2
    <3>1. Without(b, {c})
      BY <2>4
    <3> HIDE DEF c
    <3>2. Without(w, {c}) /\ (Without(w, {1}) \/ CutBehind(w, sign, raw, y, stop))
      <4>1. b \in Seq(Nat) /\ raw \in Seq(Nat) /\ q \in Seq(Nat) /\ Cut(q, w, y) /\ y # <<>>
        BY <2>3, <2>4, <2>5
      <4>2. Frame(sign, stop)
        BY <2>6, <2>7 DEF Frame
      <4> QED
        BY <2>6, <2>7, <2>8, <3>1, <4>1, <4>2, RecordCut
    <3> QED
      BY <3>2 DEF c
  <2>10. R(m) \in Seq(Values) /\ DecodeArgs(p) = DecodeRecord(R(m), w)
    BY <1>4, <2>2, <2>5, <2>8, <2>9
  <2>11. m \in 0 .. Len(ps) - 1 /\ Decoded(R(m), ks, raws, m)
    BY <1>3, <2>1, <2>2 DEF N
  <2>12. CASE Without(w, {1})
    <3>1. DecodeArgs(p) = R(m)
      BY <2>8, <2>10, <2>12, DecodeBroken
    <3> QED
      BY <1>6, <2>11, <3>1
  <2>13. CASE CutBehind(w, sign, raw, y, stop)
    <3>1. PICK r \in Seq(Nat), a \in Seq(Nat) : Cut(w, sign, r) /\ Cut(raw, r, a) /\ Cut(y, a, stop)
      BY <2>13 DEF CutBehind
    <3>2. F(m) \in Seq(Nat)
      BY <1>2, <2>2
    <3>3. BrokenFrom(p, v, raw, r)
      BY <2>3, <2>5, <2>6, <2>7, <2>8, <3>1, <3>2, RecordBroken
    <3>4. DecodeArgs(p) = Append(R(m), Build(KindOf(k), r))
      <4>1. w = <<k, 1>> \o r
        BY <3>1 DEF Cut, sign
      <4>2. k \in Nat \ {1} /\ r \in Seq(Nat)
        BY <2>3, <3>1
      <4>3. DecodeRecord(R(m), <<k, 1>> \o r) = Append(R(m), Build(KindOf(k), r))
        BY <4>2, DecodeWhole
      <4> QED
        BY <2>10, <4>1, <4>3
    <3>5. BrokenAt(DecodeArgs(p), ks, raws, m, r)
      BY <2>2, <2>10, <2>11, <3>4, BrokenAppend DEF k, j
    <3>6. BrokenFrom(p, v, raws[m + 1], r)
      BY <3>3 DEF raw, j
    <3> QED
      BY <1>6, <2>11, <3>1, <3>5, <3>6
  <2> QED
    BY <2>9, <2>12, <2>13
<1> QED
  BY <1>5, <1>6

-----------------------------------------------------------------------------
(* Texts: a safe cut falls between two characters.                          *)

LEMMA CharacterFacts ==
  ASSUME NEW c, IsCharacter(c)
  PROVE  /\ c \in Seq(Nat) /\ Len(c) \in Nat \ {0} /\ c[1] \in Nat /\ c[1] \notin Continuation
         /\ \A i \in 2 .. Len(c) : c[i] \in Continuation
<1>1. c \in Seq(0 .. 255) /\ c # <<>> /\ \A i \in DOMAIN c : c[i] \in Continuation <=> i # 1
  BY DEF IsCharacter
<1>2. Len(c) \in Nat \ {0} /\ DOMAIN c = 1 .. Len(c)
  BY <1>1, EmptySeq
<1>3. c \in Seq(Nat)
  <2>1. 0 .. 255 \subseteq Nat
    OBVIOUS
  <2> QED
    BY <1>1, <2>1, SeqMonotonic
<1>4. \A i \in 2 .. Len(c) : c[i] \in Continuation
  BY <1>1, <1>2
<1>5. c[1] \in Nat /\ c[1] \notin Continuation
  BY <1>1, <1>2, <1>3
<1> QED
  BY <1>2, <1>3, <1>4, <1>5

\* The escaped character: its first byte, escaped, and the bytes that continue it.
LEMMA EscapeCharacter ==
  ASSUME NEW c, IsCharacter(c)
  PROVE  \E rest \in Seq(Nat) : Cut(Escape(c), Piece(c[1]), rest) /\ \A i \in 1 .. Len(rest) : rest[i] \in Continuation
<1> DEFINE h == <<c[1]>>
           t == SubSeq(c, 2, Len(c))
<1>1. /\ c \in Seq(Nat) /\ Len(c) \in Nat \ {0} /\ c[1] \in Nat
      /\ \A i \in 2 .. Len(c) : c[i] \in Continuation
  BY CharacterFacts
<1>2. h \in Seq(Nat) /\ t \in Seq(Nat) /\ Len(t) = Len(c) - 1 /\ \A i \in 1 .. Len(t) : t[i] = c[i + 1]
  <2>1. t \in Seq(Nat)
    BY <1>1
  <2>2. Len(t) = Len(c) - 1
    <3> DEFINE n == Len(c)
    <3>1. n \in Nat \ {0} /\ \A i \in 2 .. n : c[i] \in Nat
      BY <1>1
    <3>2. Len(SubSeq(c, 2, n)) = IF 2 <= n THEN n - 2 + 1 ELSE 0
      <4> HIDE DEF n
      <4> QED
        BY <3>1, SubSeqProperties
    <3> HIDE DEF n
    <3>3. Len(SubSeq(c, 2, n)) = n - 1
      BY <3>1, <3>2
    <3> QED
      BY <3>3 DEF n
  <2>3. \A i \in 1 .. Len(t) : t[i] = c[i + 1]
    BY <1>1, <2>2
  <2> QED
    BY <1>1, <2>1, <2>2, <2>3
<1>3. \A i \in 1 .. Len(t) : t[i] \in Continuation
  BY <1>1, <1>2
<1>4. c = h \o t
  BY <1>1, <1>2
<1>5. Without(t, Framing)
  <2>1. Continuation \cap Framing = {}
    BY DEF Framing, Continuation
  <2> QED
    BY <1>3, <2>1 DEF Without
<1>6. Escape(h) = Piece(c[1])
  BY <1>1, EscapeOfByte
<1> HIDE DEF h, t
<1>7. Escape(h \o t) = Escape(h) \o Escape(t)
  BY <1>2, EscapeConcat
<1>8. Escape(t) = t
  BY <1>2, <1>5, EscapePlain
<1>9. Cut(Escape(c), Piece(c[1]), t)
  BY <1>4, <1>6, <1>7, <1>8 DEF Cut
<1> QED
  BY <1>2, <1>3, <1>9

LEMMA CharCut ==
  ASSUME NEW c, IsCharacter(c), NEW w \in Seq(Nat), NEW y \in Seq(Nat), Cut(Escape(c), w, y), y # <<>>, Safe(w, y)
  PROVE  w = <<>>
<1> DEFINE e == Escape(c)
           pc == Piece(c[1])
<1>1. c \in Seq(Nat) /\ c[1] \in Nat
  BY CharacterFacts
<1>2. e \in Seq(Nat)
  BY <1>1, EscapeSnoc
<1>3. pc \in Seq(Nat)
  BY <1>1, PieceFacts
<1>4. PICK rest \in Seq(Nat) : Cut(e, pc, rest) /\ \A i \in 1 .. Len(rest) : rest[i] \in Continuation
  BY EscapeCharacter
<1>5. pc = <<5, Flip(c[1])>> \/ pc = <<c[1]>>
  BY DEF Piece, Esc
<1>6. Len(pc) \in {1, 2} /\ (Len(pc) = 2 => pc[1] = 5)
  <2>1. CASE pc = <<5, Flip(c[1])>>
    BY <2>1
  <2>2. CASE pc = <<c[1]>>
    BY <2>2
  <2> QED
    BY <1>5, <2>1, <2>2
<1>7. Cut(e, w, y)
  OBVIOUS
<1> HIDE DEF e, pc
<1>8. /\ Len(e) = Len(pc) + Len(rest)
      /\ \A i \in 1 .. Len(pc) : e[i] = pc[i]
      /\ \A i \in 1 .. Len(rest) : e[Len(pc) + i] = rest[i]
  BY <1>2, <1>3, <1>4, CutFacts
<1>9. /\ Len(e) = Len(w) + Len(y)
      /\ \A i \in 1 .. Len(w) : e[i] = w[i]
      /\ \A i \in 1 .. Len(y) : e[Len(w) + i] = y[i]
  BY <1>2, <1>7, CutFacts
<1>10. Len(y) \in Nat \ {0} /\ Len(w) \in Nat /\ Len(rest) \in Nat
  BY <1>4, EmptySeq
<1>11. y[1] \notin Continuation
  BY DEF Safe
<1> DEFINE k == Len(w)
           n == Len(pc)
<1>k. k = Len(w) /\ n = Len(pc)
  OBVIOUS
<1>12. Len(w) < Len(pc)
  <2> SUFFICES ASSUME Len(w) >= Len(pc) PROVE FALSE
    BY <1>6, <1>10
  <2> HIDE DEF k, n
  <2> DEFINE i == Len(w) + 1 - Len(pc)
  <2>1. i \in 1 .. Len(rest) /\ Len(pc) + i = Len(w) + 1
    BY <1>6, <1>8, <1>9, <1>10
  <2>2. e[Len(w) + 1] = rest[i]
    BY <1>8, <2>1
  <2>3. e[Len(w) + 1] = y[1]
    <3>1. 1 \in 1 .. Len(y)
      BY <1>10
    <3> QED
      BY <1>9, <3>1
  <2>4. rest[i] \in Continuation
    BY <1>4, <2>1
  <2> QED
    BY <1>11, <2>2, <2>3, <2>4
<1>13. k \in Nat /\ n \in {1, 2} /\ k < n /\ (n = 2 => pc[1] = 5)
  BY <1>6, <1>10, <1>12
<1> HIDE DEF k, n
<1>14. ASSUME k = 1
       PROVE  FALSE
  <2>1. n = 2 /\ 1 \in 1 .. k /\ 1 \in 1 .. n
    BY <1>13, <1>14
  <2>2. w[1] = 5
    BY <1>8, <1>9, <1>13, <1>k, <2>1
  <2>3. w # <<>>
    <3>1. k # 0
      BY <1>14
    <3> QED
      BY <3>1, <1>k, EmptySeq
  <2>4. w[Len(w)] \notin {5, 26}
    BY <2>3 DEF Safe
  <2>5. w[k] \notin {5, 26}
    BY <1>k, <2>4
  <2> QED
    BY <1>14, <2>2, <2>5
<1>15. k = 0
  BY <1>13, <1>14
<1> QED
  BY <1>k, <1>15, EmptySeq

LEMMA TextFacts ==
  ASSUME NEW t, IsText(t)
  PROVE  /\ t \in Seq(Seq(Nat)) /\ Bytes(t) \in Seq(Nat)
         /\ \A i \in 1 .. Len(t) : IsCharacter(t[i])
<1>1. t \in Seq(Range(t)) /\ \A c \in Range(t) : IsCharacter(c)
  BY DEF IsText
<1>2. \A i \in 1 .. Len(t) : IsCharacter(t[i])
  BY <1>1
<1>3. Range(t) \subseteq Seq(Nat)
  BY <1>1, CharacterFacts
<1>4. t \in Seq(Seq(Nat))
  BY <1>1, <1>3, SeqMonotonic
<1>5. FlattenSeq(t) \in Seq(Nat)
  BY <1>4, FlattenLayout
<1> QED
  BY <1>2, <1>4, <1>5 DEF Bytes

\* Escaping goes character by character.
EscapedFirst(t, qs, m) == Escape(FlattenSeq(SubSeq(t, 1, m))) = FlattenSeq(SubSeq(qs, 1, m))

LEMMA EscapeFirst ==
  ASSUME NEW t \in Seq(Seq(Nat)), NEW qs \in Seq(Seq(Nat)), Len(qs) = Len(t),
         \A i \in 1 .. Len(t) : qs[i] = Escape(t[i]), NEW n \in 0 .. Len(t)
  PROVE  EscapedFirst(t, qs, n)
<1> DEFINE N == Len(t)
           F(m) == FlattenSeq(SubSeq(t, 1, m))
           G(m) == FlattenSeq(SubSeq(qs, 1, m))
           P == {m \in Nat : m <= N => Escape(F(m)) = G(m)}
<1>1. /\ \A m \in 0 .. N : F(m) \in Seq(Nat)
      /\ \A m \in 1 .. N : F(m) = F(m - 1) \o t[m]
      /\ F(0) = <<>>
  BY FlattenFirst
<1>2. /\ \A m \in 1 .. N : G(m) = G(m - 1) \o qs[m]
      /\ G(0) = <<>>
  BY FlattenFirst
<1>3. N \in Nat /\ \A i \in 1 .. N : t[i] \in Seq(Nat) /\ qs[i] = Escape(t[i])
  OBVIOUS
<1> HIDE DEF F, G, N
<1>4. 0 \in P
  BY <1>1, <1>2, EscapeEmpty
<1>5. ASSUME NEW m \in Nat, m \in P
      PROVE  m + 1 \in P
  <2> SUFFICES ASSUME m + 1 <= N PROVE Escape(F(m + 1)) = G(m + 1)
    OBVIOUS
  <2>1. PICK k \in 1 .. N : k = m + 1
    BY <1>3
  <2>2. k - 1 = m /\ m \in 0 .. N /\ m <= N
    BY <1>3, <2>1
  <2> DEFINE f == F(m)
             x == t[k]
  <2>3. f \in Seq(Nat) /\ x \in Seq(Nat) /\ F(k) = f \o x /\ G(k) = G(m) \o Escape(x)
    BY <1>1, <1>2, <1>3, <2>1, <2>2
  <2>4. Escape(f) = G(m)
    BY <1>5, <2>2
  <2> HIDE DEF f, x
  <2>5. Escape(f \o x) = Escape(f) \o Escape(x)
    BY <2>3, EscapeConcat
  <2>6. Escape(F(k)) = G(k)
    BY <2>3, <2>4, <2>5
  <2> QED
    BY <2>1, <2>6
<1> HIDE DEF P
<1>6. n \in P /\ n <= N
  <2>1. \A m \in Nat : m \in P
    BY <1>4, <1>5, SetInduction
  <2> QED
    BY <2>1 DEF N
<1> QED
  BY <1>6 DEF P, EscapedFirst, F, G

\* A beginning of a text, escaped.
BeginsEscaped(w, t) == \E n \in 0 .. Len(t) : w = Escape(Bytes(SubSeq(t, 1, n)))

LEMMA EscapeCut ==
  ASSUME NEW t, IsText(t), NEW w \in Seq(Nat), NEW y \in Seq(Nat), Cut(Escape(Bytes(t)), w, y),
         y # <<>> => Safe(w, y)
  PROVE  BeginsEscaped(w, t)
<1> DEFINE N == Len(t)
           qs == [i \in 1 .. N |-> Escape(t[i])]
<1>1. t \in Seq(Seq(Nat)) /\ Bytes(t) \in Seq(Nat) /\ N \in Nat
      /\ \A i \in 1 .. N : IsCharacter(t[i]) /\ t[i] \in Seq(Nat)
  BY TextFacts
<1>2. qs \in Seq(Seq(Nat)) /\ Len(qs) = N /\ \A i \in 1 .. N : qs[i] = Escape(t[i])
  <2>1. \A i \in 1 .. N : Escape(t[i]) \in Seq(Nat)
    BY <1>1, EscapeSnoc
  <2> QED
    BY <1>1, <2>1
<1> HIDE DEF qs
<1>3. \A n \in 0 .. N : EscapedFirst(t, qs, n)
  BY <1>1, <1>2, EscapeFirst
<1>4. \A n \in 0 .. N : Escape(Bytes(SubSeq(t, 1, n))) = FlattenSeq(SubSeq(qs, 1, n))
  BY <1>3 DEF EscapedFirst, Bytes
<1>5. SubSeq(t, 1, N) = t /\ SubSeq(qs, 1, N) = qs /\ N \in 0 .. N
  BY <1>1, <1>2, PrefixEnds
<1>6. CASE y = <<>>
  <2>1. Escape(Bytes(t)) \in Seq(Nat)
    BY <1>1, EscapeSnoc
  <2>2. w = Escape(Bytes(t))
    BY <1>6, <2>1, CutEmpty
  <2> QED
    BY <1>5, <2>2 DEF BeginsEscaped
<1>7. CASE y # <<>>
  <2>1. Escape(Bytes(t)) = FlattenSeq(qs)
    BY <1>4, <1>5
  <2>2. Cut(FlattenSeq(qs), w, y)
    BY <2>1
  <2>3. PICK m \in 0 .. Len(qs) - 1, w1 \in Seq(Nat), y1 \in Seq(Nat), z \in Seq(Nat) : CutAt(qs, w, y, m, w1, y1, z)
    <3>1. \E m \in 0 .. Len(qs) - 1 : \E w1, y1, z \in Seq(Nat) : CutAt(qs, w, y, m, w1, y1, z)
      BY <1>2, <1>7, <2>2, FlattenCut
    <3> QED
      BY <3>1
  <2> DEFINE f == FlattenSeq(SubSeq(qs, 1, m))
             j == m + 1
  <2>4. m \in 0 .. N /\ j \in 1 .. N
    BY <1>1, <1>2
  <2>5. Cut(w, f, w1) /\ Cut(qs[j], w1, y1) /\ Cut(y, y1, z) /\ y1 # <<>>
    BY <2>3 DEF CutAt
  <2>6. f \in Seq(Nat)
    BY <1>2, <2>4, FlattenFirst
  <2>7. f = Escape(Bytes(SubSeq(t, 1, m)))
    BY <1>4, <2>4
  <2>8. IsCharacter(t[j]) /\ qs[j] = Escape(t[j])
    BY <1>1, <1>2, <2>4
  <2> HIDE DEF f, j
  <2>9. Safe(w1, y1)
    BY <1>7, <2>5, <2>6, SafeParts
  <2>10. Cut(Escape(t[j]), w1, y1)
    BY <2>5, <2>8
  <2>11. w1 = <<>>
    BY <2>5, <2>8, <2>9, <2>10, CharCut
  <2>12. w = f
    <3>1. Cut(w, f, <<>>)
      BY <2>5, <2>11
    <3>2. f = w
      BY <2>6, <3>1, CutEmpty
    <3> QED
      BY <3>2
  <2> QED
    BY <2>4, <2>7, <2>12 DEF BeginsEscaped
<1> QED
  BY <1>6, <1>7

-----------------------------------------------------------------------------
(* Values: what their texts make of a record.                               *)

ElementKinds == ObjectKinds \cup {"int"}

LEMMA KindOfSig ==
  /\ \A kind \in ElementKinds \cup {"array"} : Sig(kind) \in Nat \ {1, 2, 4, 26} /\ Sig(kind) \notin Continuation
                                          /\ KindOf(Sig(kind)) = kind
BY DEF ElementKinds, ObjectKinds, Sig, KindOf, Continuation

LEMMA FirstText ==
  ASSUME NEW t, IsText(t), NEW n \in 0 .. Len(t)
  PROVE  /\ Bytes(SubSeq(t, 1, n)) \in Seq(Nat)
         /\ Escape(Bytes(SubSeq(t, 1, n))) \in Seq(Nat)
         /\ Unescape(Escape(Bytes(SubSeq(t, 1, n)))) = Bytes(SubSeq(t, 1, n))
         /\ Without(Escape(Bytes(SubSeq(t, 1, n))), {1, 2, 3, 4, 26})
<1>1. t \in Seq(Seq(Nat))
  BY TextFacts
<1>2. FlattenSeq(SubSeq(t, 1, n)) \in Seq(Nat)
  BY <1>1, FlattenFirst
<1> DEFINE b == Bytes(SubSeq(t, 1, n))
<1>3. b \in Seq(Nat)
  BY <1>2 DEF Bytes
<1> HIDE DEF b
<1>4. Escape(b) \in Seq(Nat) /\ Unescape(Escape(b)) = b /\ Without(Escape(b), {1, 2, 3, 4, 26})
  BY <1>3, EscapeSnoc, UnescapeEscape, EscapeFree
<1> QED
  BY <1>3, <1>4 DEF b

LEMMA WholeText ==
  ASSUME NEW t, IsText(t)
  PROVE  /\ Len(t) \in 0 .. Len(t) /\ SubSeq(t, 1, Len(t)) = t
         /\ 0 \in 0 .. Len(t) /\ Bytes(SubSeq(t, 1, 0)) = <<>>
<1>1. t \in Seq(Seq(Nat))
  BY TextFacts
<1>2. SubSeq(t, 1, 0) = <<>> /\ SubSeq(t, 1, Len(t)) = t
  BY <1>1, PrefixEnds
<1>3. Len(t) \in 0 .. Len(t) /\ 0 \in 0 .. Len(t)
  <2>1. Len(t) \in Nat
    BY <1>1
  <2> QED
    BY <2>1
<1>4. Bytes(SubSeq(t, 1, 0)) = <<>>
  BY <1>2, FlattenEmpty DEF Bytes
<1> QED
  BY <1>2, <1>3, <1>4

\* The characters of a number need no escape.
Unescaping(t) == \A c \in Range(t) : c[1] \notin Framing

LEMMA PlainText ==
  ASSUME NEW t, IsText(t), Unescaping(t), NEW n \in 0 .. Len(t)
  PROVE  Escape(Bytes(SubSeq(t, 1, n))) = Bytes(SubSeq(t, 1, n))
<1> DEFINE u == SubSeq(t, 1, n)
<1>1. t \in Seq(Seq(Nat)) /\ Len(t) \in Nat /\ \A i \in 1 .. Len(t) : IsCharacter(t[i]) /\ t[i] \in Range(t)
  <2>1. t \in Seq(Seq(Nat)) /\ \A i \in 1 .. Len(t) : IsCharacter(t[i])
    BY TextFacts
  <2>2. \A i \in 1 .. Len(t) : t[i] \in Range(t)
    BY <2>1 DEF Range
  <2> QED
    BY <2>1, <2>2
<1>2. u \in Seq(Seq(Nat)) /\ Len(u) = n /\ \A i \in 1 .. n : u[i] = t[i]
  BY <1>1
<1>3. ASSUME NEW c, IsCharacter(c), c \in Range(t)
      PROVE  Without(c, Framing)
  <2>1. c[1] \notin Framing
    BY <1>3 DEF Unescaping
  <2>2. c \in Seq(Nat) /\ \A i \in 2 .. Len(c) : c[i] \in Continuation
    BY <1>3, CharacterFacts
  <2>3. Continuation \cap Framing = {}
    BY DEF Continuation, Framing
  <2>4. \A i \in 1 .. Len(c) : i = 1 \/ i \in 2 .. Len(c)
    BY <2>2
  <2> QED
    BY <2>1, <2>2, <2>3, <2>4 DEF Without
<1>4. ASSUME NEW i \in 1 .. Len(u)
      PROVE  Without(u[i], Framing)
  <2>1. i \in 1 .. n /\ i \in 1 .. Len(t)
    BY <1>1, <1>2
  <2>2. u[i] = t[i] /\ IsCharacter(t[i]) /\ t[i] \in Range(t)
    BY <1>1, <1>2, <2>1
  <2>3. Without(t[i], Framing)
    BY <1>3, <2>2
  <2> QED
    BY <2>2, <2>3
<1> HIDE DEF u
<1>5. Without(FlattenSeq(u), Framing)
  BY <1>2, <1>4, FlattenFree
<1>6. FlattenSeq(u) \in Seq(Nat)
  BY <1>2, FlattenLayout
<1>7. Escape(FlattenSeq(u)) = FlattenSeq(u)
  BY <1>5, <1>6, EscapePlain
<1> QED
  BY <1>7 DEF u, Bytes

LEMMA UnescapeEmpty == Unescape(<<>>) = <<>>
<1>1. <<>> \in Seq(Nat)
  OBVIOUS
<1>2. Unescape(Escape(<<>>)) = <<>>
  BY <1>1, UnescapeEscape
<1> QED
  BY <1>2, EscapeEmpty

\* A value read from a beginning of its text.
LEMMA LeafText ==
  ASSUME NEW kind \in ElementKinds, NEW t, IsText(t), kind = "int" => Unescaping(t), NEW n \in 0 .. Len(t)
  PROVE  Leaf(kind, Escape(Bytes(SubSeq(t, 1, n)))) = Plain(kind, Bytes(SubSeq(t, 1, n)), <<>>)
<1> DEFINE b == Bytes(SubSeq(t, 1, n))
           w == Escape(b)
           three == 3
<1>1. w \in Seq(Nat) /\ Unescape(w) = b /\ Without(w, {1, 2, 3, 4, 26})
  BY FirstText
<1>2. kind = "int" => w = b
  BY PlainText
<1>3. three \in Nat /\ Without(w, {three})
  BY <1>1 DEF Without
<1> HIDE DEF b, w, three
<1>4. Before(w, three) = w /\ After(w, three) = <<>>
  BY <1>1, <1>3, NotFound
<1>5. Before(w, 3) = w /\ After(w, 3) = <<>>
  BY <1>4 DEF three
<1>6. Leaf(kind, w) = Plain(kind, b, <<>>)
  <2>1. CASE kind = "object"
    BY <1>1, <1>5, <2>1, UnescapeEmpty DEF Leaf
  <2>2. CASE kind = "int"
    BY <1>2, <2>2 DEF Leaf
  <2>3. CASE kind \in {"string", "class"}
    BY <1>1, <2>3 DEF Leaf
  <2> QED
    BY <2>1, <2>2, <2>3 DEF ElementKinds, ObjectKinds
<1> QED
  BY <1>6 DEF b, w

\* An object read with a beginning of what follows its text.
LEMMA LeafExtra ==
  ASSUME NEW t, IsText(t), NEW x, IsText(x), NEW n \in 0 .. Len(x), NEW r,
         Cut(r, Escape(Bytes(t)), << 3 >> \o Escape(Bytes(SubSeq(x, 1, n))))
  PROVE  /\ Leaf("object", r) = Plain("object", Bytes(t), Bytes(SubSeq(x, 1, n)))
         /\ Unescape(Before(r, 3)) = Bytes(t) /\ Unescape(After(r, 3)) = Bytes(SubSeq(x, 1, n))
<1> DEFINE e == Escape(Bytes(t))
           b == Bytes(SubSeq(x, 1, n))
           f == Escape(b)
           three == 3
           stop == <<three>> \o f
<1>1. e \in Seq(Nat) /\ Unescape(e) = Bytes(t) /\ Without(e, {1, 2, 3, 4, 26})
  BY FirstText, WholeText
<1>2. f \in Seq(Nat) /\ Unescape(f) = b
  BY FirstText
<1>3. three \in Nat /\ Without(e, {three}) /\ Cut(r, e, <<three>> \o f)
  BY <1>1 DEF Without
<1>4. r \in Seq(Nat)
  <2>1. r = e \o (<<three>> \o f) /\ <<three>> \in Seq(Nat)
    BY <1>3 DEF Cut
  <2> HIDE DEF e, f, three
  <2> QED
    BY <1>1, <1>2, <2>1
<1> HIDE DEF e, f, three, b
<1>5. Before(r, three) = e /\ After(r, three) = f
  BY <1>1, <1>2, <1>3, <1>4, FoundAt
<1>6. Unescape(Before(r, 3)) = Bytes(t) /\ Unescape(After(r, 3)) = b
  BY <1>1, <1>2, <1>5 DEF three
<1>7. Leaf("object", r) = Plain("object", Bytes(t), b)
  BY <1>6 DEF Leaf
<1> QED
  BY <1>6, <1>7 DEF b

LEMMA ValueFacts ==
  ASSUME NEW v, NEW kind, IsValue(v, kind)
  PROVE  /\ IsText(v.text) /\ IsText(v.extra)
         /\ v.extra # <<>> => kind = "object"
         /\ kind = "int" => Unescaping(v.text)
BY DEF IsValue, Unescaping

LEMMA ContentFacts ==
  ASSUME NEW v, NEW kind, IsValue(v, kind)
  PROVE  /\ Content(v) \in Seq(Nat) /\ Without(Content(v), {1, 2, 4, 26})
         /\ Escape(Bytes(v.text)) \in Seq(Nat) /\ Escape(Bytes(v.extra)) \in Seq(Nat)
         /\ v.extra = <<>> => Content(v) = Escape(Bytes(v.text))
         /\ v.extra # <<>> => Cut(Content(v), Escape(Bytes(v.text)), <<3>> \o Escape(Bytes(v.extra)))
<1> DEFINE e == Escape(Bytes(v.text))
           f == Escape(Bytes(v.extra))
           g == <<3>> \o f
           B == {1, 2, 4, 26}
<1>1. e \in Seq(Nat) /\ Without(e, {1, 2, 3, 4, 26}) /\ f \in Seq(Nat) /\ Without(f, {1, 2, 3, 4, 26})
  BY ValueFacts, FirstText, WholeText
<1>2. Without(e, B) /\ Without(f, B) /\ Without(<<3>>, B)
  BY <1>1 DEF Without
<1>3. <<3>> \in Seq(Nat)
  OBVIOUS
<1>4. g \in Seq(Nat) /\ Cut(g, <<3>>, f)
  BY <1>1, <1>3 DEF Cut
<1>5. Content(v) = e \o (IF v.extra = <<>> THEN <<>> ELSE g)
  BY DEF Content
<1> HIDE DEF e, f, g, B
<1>6. Without(g, B)
  BY <1>1, <1>2, <1>3, <1>4, FreeParts
<1>7. CASE v.extra = <<>>
  <2>1. Content(v) = e
    <3>1. e \o <<>> = e
      BY <1>1, ConcatEmptySeq
    <3> QED
      BY <1>5, <1>7, <3>1
  <2> QED
    BY <1>1, <1>2, <1>7, <2>1 DEF e, f, g, B
<1>8. CASE v.extra # <<>>
  <2>1. Content(v) = e \o g
    BY <1>5, <1>8
  <2> DEFINE c == Content(v)
  <2>2. c \in Seq(Nat) /\ Cut(c, e, g)
    BY <1>1, <1>4, <2>1 DEF Cut
  <2> HIDE DEF c
  <2>3. Without(c, B)
    BY <1>1, <1>2, <1>4, <1>6, <2>2, FreeParts
  <2> QED
    BY <1>1, <1>8, <2>2, <2>3 DEF c, e, f, g, B
<1> QED
  BY <1>7, <1>8

LEMMA LeafWhole ==
  ASSUME NEW v, NEW kind \in ElementKinds, IsValue(v, kind)
  PROVE  Leaf(kind, Content(v)) = ShownAs(kind, v)
<1>1. /\ IsText(v.text) /\ IsText(v.extra) /\ (v.extra # <<>> => kind = "object")
      /\ kind = "int" => Unescaping(v.text)
  BY ValueFacts
<1>2. /\ Len(v.text) \in 0 .. Len(v.text) /\ SubSeq(v.text, 1, Len(v.text)) = v.text
      /\ Len(v.extra) \in 0 .. Len(v.extra) /\ SubSeq(v.extra, 1, Len(v.extra)) = v.extra
  BY <1>1, WholeText
<1>3. CASE v.extra = <<>>
  <2>1. Content(v) = Escape(Bytes(v.text))
    BY <1>3, ContentFacts
  <2>2. Leaf(kind, Escape(Bytes(SubSeq(v.text, 1, Len(v.text))))) = Plain(kind, Bytes(SubSeq(v.text, 1, Len(v.text))), <<>>)
    BY <1>1, <1>2, LeafText
  <2>3. Bytes(v.extra) = <<>>
    BY <1>3, FlattenEmpty DEF Bytes
  <2> QED
    BY <1>2, <2>1, <2>2, <2>3 DEF ShownAs
<1>4. CASE v.extra # <<>>
  <2>1. kind = "object"
    BY <1>1, <1>4
  <2>2. Cut(Content(v), Escape(Bytes(v.text)), <<3>> \o Escape(Bytes(v.extra)))
    BY <1>4, ContentFacts
  <2>3. Cut(Content(v), Escape(Bytes(v.text)), <<3>> \o Escape(Bytes(SubSeq(v.extra, 1, Len(v.extra)))))
    BY <1>2, <2>2
  <2>4. Leaf("object", Content(v)) = Plain("object", Bytes(v.text), Bytes(SubSeq(v.extra, 1, Len(v.extra))))
    BY <1>1, <1>2, <2>3, LeafExtra
  <2> QED
    BY <1>2, <2>1, <2>4 DEF ShownAs
<1> QED
  BY <1>3, <1>4

\* A sequence cut behind its first element, or not at all.
LEMMA CutBehindFirst ==
  ASSUME NEW c \in Nat, NEW f \in Seq(Nat), NEW g \in Seq(Nat), Cut(g, <<c>>, f),
         NEW w \in Seq(Nat), NEW y \in Seq(Nat), Cut(g, w, y)
  PROVE  w = <<>> \/ \E r \in Seq(Nat) : Cut(w, <<c>>, r) /\ Cut(f, r, y)
<1> DEFINE h == <<c>>
<1>1. h \in Seq(Nat) /\ Len(h) = 1 /\ Cut(g, h, f)
  OBVIOUS
<1> HIDE DEF h
<1>2. \/ \E r \in Seq(Nat) : Cut(w, h, r) /\ Cut(f, r, y)
      \/ \E r \in Seq(Nat) : Cut(h, w, r) /\ Cut(y, r, f)
  BY <1>1, TwoCuts
<1>3. CASE \E r \in Seq(Nat) : Cut(h, w, r) /\ Cut(y, r, f)
  <2>1. PICK r \in Seq(Nat) : Cut(h, w, r) /\ Cut(y, r, f)
    BY <1>3
  <2>2. 1 = Len(w) + Len(r)
    <3>1. Len(h) = Len(w) + Len(r)
      BY <1>1, <2>1, CutLen
    <3> QED
      BY <1>1, <3>1
  <2>3. CASE Len(r) = 0
    <3>1. r = <<>>
      BY <2>1, <2>3, EmptySeq
    <3>2. w = h
      BY <1>1, <2>1, <3>1, CutEmpty
    <3>3. y = f
      BY <2>1, <3>1, CutFromEmpty
    <3>4. <<>> \in Seq(Nat) /\ Cut(w, h, <<>>) /\ Cut(f, <<>>, y)
      <4>1. Cut(h, h, <<>>) /\ Cut(f, <<>>, f)
        BY <1>1, CutEnds
      <4> QED
        BY <3>2, <3>3, <4>1
    <3> QED
      BY <3>4 DEF h
  <2>4. CASE Len(r) # 0
    <3>1. Len(w) \in Nat /\ Len(r) \in Nat \ {0}
      BY <2>1, <2>4
    <3>2. Len(w) = 0
      BY <2>2, <3>1, OneIsSum
    <3> QED
      BY <3>2, EmptySeq
  <2> QED
    BY <2>3, <2>4
<1> QED
  BY <1>2, <1>3 DEF h

\* The part of a record that a cut left behind its sign shows a beginning of the value.
LEMMA LeafCut ==
  ASSUME NEW v, NEW kind \in ElementKinds, IsValue(v, kind), NEW r \in Seq(Nat), NEW y \in Seq(Nat),
         Cut(Content(v), r, y), y # <<>> => Safe(r, y)
  PROVE  BeginsValue(Leaf(kind, r), kind, v)
<1> DEFINE e == Escape(Bytes(v.text))
           f == Escape(Bytes(v.extra))
           g == <<3>> \o f
<1>1. /\ IsText(v.text) /\ IsText(v.extra) /\ (v.extra # <<>> => kind = "object")
      /\ kind = "int" => Unescaping(v.text)
  BY ValueFacts
<1>2. ASSUME BeginsEscaped(r, v.text)
      PROVE  BeginsValue(Leaf(kind, r), kind, v)
  <2>1. PICK n \in 0 .. Len(v.text) : r = Escape(Bytes(SubSeq(v.text, 1, n)))
    BY <1>2 DEF BeginsEscaped
  <2>2. Leaf(kind, r) = Plain(kind, Bytes(SubSeq(v.text, 1, n)), <<>>)
    BY <1>1, <2>1, LeafText
  <2>3. /\ Leaf(kind, r).kind = kind /\ Leaf(kind, r).text = Bytes(SubSeq(v.text, 1, n))
        /\ Leaf(kind, r).extra = <<>>
    BY <2>2 DEF Plain
  <2>4. BeginsText(Leaf(kind, r).text, v.text)
    BY <2>1, <2>3 DEF BeginsText
  <2> QED
    BY <2>3, <2>4 DEF BeginsValue
<1>3. e \in Seq(Nat) /\ f \in Seq(Nat) /\ Content(v) \in Seq(Nat)
      /\ (v.extra = <<>> => Content(v) = e) /\ (v.extra # <<>> => Cut(Content(v), e, g))
  BY ContentFacts
<1>4. CASE v.extra = <<>>
  <2>1. Cut(Escape(Bytes(v.text)), r, y)
    BY <1>3, <1>4
  <2>2. BeginsEscaped(r, v.text)
    BY <1>1, <2>1, EscapeCut
  <2> QED
    BY <1>2, <2>2
<1>5. CASE v.extra # <<>>
  <2> DEFINE c == Content(v)
             three == 3
  <2>1. g \in Seq(Nat) /\ Cut(g, <<three>>, f) /\ three \in Nat
    <3>1. f \in Seq(Nat) /\ <<3>> \in Seq(Nat)
      BY <1>3
    <3> HIDE DEF f
    <3> QED
      BY <3>1 DEF Cut
  <2>2. c \in Seq(Nat) /\ Cut(c, e, g) /\ Cut(c, r, y)
    BY <1>3, <1>5
  <2> HIDE DEF c, e, f, g
  <2>3. \/ \E w \in Seq(Nat) : Cut(r, e, w) /\ Cut(g, w, y)
        \/ \E w \in Seq(Nat) : Cut(e, r, w) /\ Cut(y, w, g)
    BY <1>3, <2>1, <2>2, TwoCuts
  <2>4. ASSUME NEW w \in Seq(Nat), Cut(e, r, w), Cut(y, w, g)
        PROVE  BeginsEscaped(r, v.text)
    <3>1. CASE w # <<>>
      <4>1. y # <<>>
        BY <2>1, <2>4, <3>1, CutFacts
      <4>2. Cut(r, <<>>, r) /\ <<>> \in Seq(Nat)
        BY CutEnds
      <4>3. Safe(r, w)
        BY <2>1, <2>4, <4>1, <4>2, SafeParts
      <4> QED
        BY <1>1, <2>4, <4>3, EscapeCut DEF e
    <3>2. CASE w = <<>>
      BY <1>1, <2>4, <3>2, EscapeCut DEF e
    <3> QED
      BY <3>1, <3>2
  <2>5. ASSUME NEW w \in Seq(Nat), Cut(r, e, w), Cut(g, w, y)
        PROVE  BeginsValue(Leaf(kind, r), kind, v)
    <3>1. CASE w = <<>>
      <4>1. Cut(e, e, <<>>) /\ <<>> \in Seq(Nat)
        BY <1>3, CutEnds
      <4>2. e = r
        BY <1>3, <2>5, <3>1, CutEmpty
      <4>3. BeginsEscaped(r, v.text)
        BY <1>1, <4>1, <4>2, EscapeCut DEF e
      <4> QED
        BY <1>2, <4>3
    <3>2. CASE \E x \in Seq(Nat) : Cut(w, <<three>>, x) /\ Cut(f, x, y)
      <4>1. PICK x \in Seq(Nat) : Cut(w, <<three>>, x) /\ Cut(f, x, y)
        BY <3>2
      <4>2. BeginsEscaped(x, v.extra)
        <5>1. CASE y # <<>>
          <6>1. <<three>> \in Seq(Nat)
            BY <2>1
          <6> DEFINE h == <<three>>
          <6>2. h \in Seq(Nat) /\ Cut(w, h, x)
            BY <4>1, <6>1
          <6> HIDE DEF h
          <6>3. e \o h \in Seq(Nat) /\ Cut(r, e \o h, x)
            BY <1>3, <2>5, <6>2, CutDeeper
          <6>4. Cut(y, y, <<>>) /\ <<>> \in Seq(Nat)
            BY CutEnds
          <6>5. Safe(x, y)
            BY <5>1, <6>3, <6>4, SafeParts
          <6> QED
            BY <1>1, <4>1, <6>5, EscapeCut DEF f
        <5>2. CASE y = <<>>
          BY <1>1, <4>1, <5>2, EscapeCut DEF f
        <5> QED
          BY <5>1, <5>2
      <4>3. PICK n \in 0 .. Len(v.extra) : x = Escape(Bytes(SubSeq(v.extra, 1, n)))
        BY <4>2 DEF BeginsEscaped
      <4>4. Cut(r, Escape(Bytes(v.text)), <<3>> \o Escape(Bytes(SubSeq(v.extra, 1, n))))
        BY <2>5, <4>1, <4>3 DEF Cut, e
      <4>5. Leaf("object", r) = Plain("object", Bytes(v.text), Bytes(SubSeq(v.extra, 1, n)))
        BY <1>1, <4>4, LeafExtra
      <4>6. kind = "object"
        BY <1>1, <1>5
      <4>7. /\ Leaf(kind, r).kind = kind /\ Leaf(kind, r).text = Bytes(v.text)
            /\ Leaf(kind, r).extra = Bytes(SubSeq(v.extra, 1, n))
        BY <4>5, <4>6 DEF Plain
      <4>8. BeginsText(Leaf(kind, r).extra, v.extra)
        BY <4>7 DEF BeginsText
      <4> QED
        BY <4>7, <4>8 DEF BeginsValue
    <3>3. w = <<>> \/ \E x \in Seq(Nat) : Cut(w, <<three>>, x) /\ Cut(f, x, y)
      BY <1>3, <2>1, <2>5, CutBehindFirst
    <3> QED
      BY <3>1, <3>2, <3>3
  <2> QED
    BY <1>2, <2>3, <2>4, <2>5
<1> QED
  BY <1>4, <1>5

-----------------------------------------------------------------------------
(* Arrays: the elements, each led by a separator.                           *)

LEMMA PrefixFacts ==
  ASSUME NEW S, NEW s \in Seq(S), NEW m \in 0 .. Len(s)
  PROVE  SubSeq(s, 1, m) \in Seq(S) /\ Len(SubSeq(s, 1, m)) = m /\ \A i \in 1 .. m : SubSeq(s, 1, m)[i] = s[i]
OBVIOUS

LEMMA HeadByte ==
  ASSUME NEW qs \in Seq(Seq(Nat)), Len(qs) # 0, qs[1] # <<>>
  PROVE  FlattenSeq(qs) # <<>> /\ FlattenSeq(qs)[1] = qs[1][1]
<1> DEFINE N == Len(qs)
           F(m) == FlattenSeq(SubSeq(qs, 1, m))
           P == {m \in Nat : m + 1 <= N => F(m + 1) \in Seq(Nat) /\ Len(F(m + 1)) # 0 /\ F(m + 1)[1] = qs[1][1]}
<1>1. /\ \A m \in 0 .. N : F(m) \in Seq(Nat)
      /\ \A m \in 1 .. N : F(m) = F(m - 1) \o qs[m]
      /\ F(0) = <<>> /\ F(N) = FlattenSeq(qs)
  BY FlattenFirst
<1>2. N \in Nat \ {0} /\ \A i \in 1 .. N : qs[i] \in Seq(Nat)
  OBVIOUS
<1>3. Len(qs[1]) \in Nat \ {0} /\ qs[1] \in Seq(Nat)
  <2>1. qs[1] \in Seq(Nat)
    BY <1>2
  <2> QED
    BY <2>1, EmptySeq
<1> HIDE DEF N, F
<1>4. 0 \in P
  <2>1. 1 \in 1 .. N /\ 1 - 1 = 0 /\ 0 + 1 = 1
    BY <1>2
  <2>2. F(1) = <<>> \o qs[1]
    BY <1>1, <2>1
  <2>3. F(1) = qs[1]
    BY <1>3, <2>2, ConcatEmptySeq
  <2> QED
    BY <1>3, <2>1, <2>3
<1>5. ASSUME NEW m \in Nat, m \in P
      PROVE  m + 1 \in P
  <2> SUFFICES ASSUME (m + 1) + 1 <= N
               PROVE  F((m + 1) + 1) \in Seq(Nat) /\ Len(F((m + 1) + 1)) # 0 /\ F((m + 1) + 1)[1] = qs[1][1]
    OBVIOUS
  <2>1. PICK k \in 1 .. N : k = (m + 1) + 1
    BY <1>2
  <2>2. k - 1 = m + 1 /\ m + 1 <= N /\ k \in 0 .. N
    BY <1>2, <2>1
  <2> DEFINE f == F(m + 1)
             x == qs[k]
  <2>3. F(k) = f \o x /\ x \in Seq(Nat)
    BY <1>1, <1>2, <2>2
  <2>4. f \in Seq(Nat) /\ Len(f) # 0 /\ f[1] = qs[1][1]
    BY <1>5, <2>2
  <2> HIDE DEF f, x
  <2>5. f \o x \in Seq(Nat) /\ Len(f \o x) = Len(f) + Len(x) /\ Len(f) \in Nat /\ Len(x) \in Nat
        /\ \A i \in 1 .. Len(f) : (f \o x)[i] = f[i]
    <3>1. f \in Seq(Nat) /\ x \in Seq(Nat)
      BY <2>3, <2>4
    <3>2. f \o x \in Seq(Nat) /\ Len(f \o x) = Len(f) + Len(x) /\ Len(f) \in Nat /\ Len(x) \in Nat
      BY <3>1
    <3>3. \A i \in 1 .. Len(f) : (f \o x)[i] = f[i]
      BY <3>1
    <3> QED
      BY <3>2, <3>3
  <2>6. Len(f \o x) # 0 /\ 1 \in 1 .. Len(f)
    BY <2>4, <2>5
  <2>7. (f \o x)[1] = qs[1][1]
    BY <2>4, <2>5, <2>6
  <2> QED
    BY <2>1, <2>3, <2>5, <2>6, <2>7
<1> HIDE DEF P
<1>6. PICK m \in Nat : m + 1 = N
  <2>1. N - 1 \in Nat /\ (N - 1) + 1 = N
    BY <1>2
  <2> QED
    BY <2>1
<1>7. m \in P
  <2>1. \A k \in Nat : k \in P
    BY <1>4, <1>5, SetInduction
  <2> QED
    BY <2>1
<1>8. F(N) \in Seq(Nat) /\ Len(F(N)) # 0 /\ F(N)[1] = qs[1][1]
  BY <1>2, <1>6, <1>7 DEF P
<1> QED
  BY <1>1, <1>8, EmptySeq

\* What the reader makes of the parts of an array.
BuiltFrom(d, kind, ps) ==
  LET L == Len(ps)
      n == IF IsMore(ps[L]) THEN L - 1 ELSE L
  IN /\ d.kind = "array" /\ Len(d.items) = n /\ DOMAIN d.items = 1 .. n
     /\ \A i \in 1 .. n : d.items[i] = Leaf(kind, ps[i])
     /\ d.items = [i \in 1 .. n |-> Leaf(kind, ps[i])]
     /\ d.more = IF IsMore(ps[L]) THEN Tail(ps[L]) ELSE <<>>
     /\ d = [kind |-> d.kind, items |-> d.items, more |-> d.more]

LEMMA ArrayBuilt ==
  ASSUME NEW k \in Nat, NEW qs, NEW ps, Led(qs, ps, 4), Len(ps) # 0, ps # <<<<>>>>,
         NEW raw \in Seq(Nat), Cut(raw, <<k>>, FlattenSeq(qs))
  PROVE  BuiltFrom(BuildArray(raw), KindOf(k), ps)
<1> DEFINE c == 4
<1>1. c \in Nat /\ Led(qs, ps, c)
  OBVIOUS
<1> HIDE DEF c
<1>2. PICK r \in Seq(Nat) : Cut(FlattenSeq(qs), <<c>>, r) /\ Split(r, c) = ps
  BY <1>1, SplitLed
<1>3. r # <<>>
  <2> SUFFICES ASSUME r = <<>> PROVE FALSE
    OBVIOUS
  <2>1. Split(<<>>, c) = <<<<>>>>
    <3>1. <<>> \in Seq(Nat) /\ 0 \in Nat
      OBVIOUS
    <3> QED
      BY <1>1, <3>1, SplitByteAt
  <2> QED
    BY <1>2, <2>1
<1>4. Len(r) \in Nat \ {0}
  BY <1>2, <1>3, EmptySeq
<1>5. raw = <<k>> \o (<<c>> \o r)
  BY <1>2 DEF Cut
<1>6. raw[1] = k /\ raw[2] = c /\ Len(raw) = Len(r) + 2 /\ \A i \in 1 .. Len(r) : raw[i + 2] = r[i]
  BY <1>1, <1>2, <1>5
<1>7. SubSeq(raw, 3, Len(raw)) = r
  <2> DEFINE s == SubSeq(raw, 3, Len(raw))
             n == Len(r)
  <2>0. Len(raw) = n + 2 /\ n \in Nat \ {0}
    BY <1>4, <1>6
  <2>1. \A i \in 3 .. Len(raw) : raw[i] \in Nat
    OBVIOUS
  <2>2. /\ s \in Seq(Nat) /\ Len(s) = IF 3 <= Len(raw) THEN Len(raw) - 3 + 1 ELSE 0
        /\ \A i \in 1 .. Len(raw) - 3 + 1 : s[i] = raw[3 + i - 1]
    BY <2>1, SubSeqProperties
  <2> HIDE DEF s, n
  <2>3. Len(s) = n
    BY <2>0, <2>2
  <2>4. \A i \in 1 .. n : s[i] = raw[i + 2]
    <3> TAKE i \in 1 .. n
    <3>1. i \in 1 .. Len(raw) - 3 + 1 /\ 3 + i - 1 = i + 2
      BY <2>0
    <3> QED
      BY <2>2, <3>1
  <2>5. n = Len(r)
    BY DEF n
  <2>6. \A i \in 1 .. Len(s) : s[i] = r[i]
    BY <1>6, <2>3, <2>4, <2>5
  <2>7. s = r
    BY <1>2, <2>2, <2>3, <2>5, <2>6, SeqEqual
  <2> QED
    BY <2>7 DEF s
<1>8. Split(SubSeq(raw, 3, Len(raw)), 4) = ps
  BY <1>2, <1>7 DEF c
<1>9. Len(raw) > 2 /\ raw[2] = 4
  BY <1>4, <1>6 DEF c
<1> DEFINE L == Len(ps)
           more == IsMore(ps[L])
           items == IF more THEN Front(ps) ELSE ps
           n == IF more THEN L - 1 ELSE L
<1>10. BuildArray(raw) = [kind |-> "array", items |-> [i \in DOMAIN items |-> Leaf(KindOf(k), items[i])],
                          more |-> IF more THEN Tail(ps[L]) ELSE <<>>]
  BY <1>6, <1>8, <1>9 DEF BuildArray
<1>11. ps \in Seq(Seq(Nat)) /\ L \in Nat \ {0}
  BY DEF Led
<1>12. DOMAIN items = 1 .. n /\ n \in Nat /\ \A i \in 1 .. n : items[i] = ps[i]
  <2>1. CASE more
    <3>1. items = SubSeq(ps, 1, L - 1) /\ n = L - 1
      BY <2>1 DEF Front
    <3>2. SubSeq(ps, 1, L - 1) \in Seq(Seq(Nat)) /\ Len(SubSeq(ps, 1, L - 1)) = L - 1
          /\ \A i \in 1 .. L - 1 : SubSeq(ps, 1, L - 1)[i] = ps[i]
      <4>1. L - 1 \in 0 .. Len(ps)
        BY <1>11
      <4> QED
        BY <1>11, <4>1, PrefixFacts
    <3> HIDE DEF items, n
    <3> QED
      BY <1>11, <3>1, <3>2
  <2>2. CASE ~more
    BY <1>11, <2>2
  <2> QED
    BY <2>1, <2>2
<1> HIDE DEF items, n
<1> DEFINE shows == [i \in 1 .. n |-> Leaf(KindOf(k), ps[i])]
<1>13. [i \in DOMAIN items |-> Leaf(KindOf(k), items[i])] = shows
  BY <1>12
<1>14. DOMAIN shows = 1 .. n /\ Len(shows) = n /\ \A i \in 1 .. n : shows[i] = Leaf(KindOf(k), ps[i])
  <2>1. \E i \in Nat : DOMAIN shows = 1 .. i
    BY <1>12
  <2> QED
    BY <1>12, <2>1
<1> HIDE DEF shows
<1> DEFINE d == BuildArray(raw)
<1>15. d = [kind |-> "array", items |-> shows, more |-> IF more THEN Tail(ps[L]) ELSE <<>>]
  BY <1>10, <1>13
<1> HIDE DEF d
<1>16. d.kind = "array" /\ d.items = shows /\ d.more = (IF more THEN Tail(ps[L]) ELSE <<>>)
  BY <1>15
<1>17. d = [kind |-> d.kind, items |-> d.items, more |-> d.more]
  BY <1>15
<1>18. BuiltFrom(d, KindOf(k), ps)
  BY <1>14, <1>16, <1>17 DEF BuiltFrom, n, shows
<1> QED
  BY <1>18 DEF d

NoItems == [kind |-> "array", items |-> <<>>, more |-> <<>>]

LEMMA NothingBuilt ==
  ASSUME NEW raw \in Seq(Nat), Len(raw) <= 2
  PROVE  BuildArray(raw) = NoItems
<1>1. ~(Len(raw) > 2)
  OBVIOUS
<1> QED
  BY <1>1 DEF BuildArray, NoItems

\* The first byte of a text that is not a plus sign, escaped.
NoPlus(t) == t # <<>> /\ t[1][1] # 43

LEMMA FirstByte ==
  ASSUME NEW t, IsText(t), NoPlus(t)
  PROVE  Escape(Bytes(t)) # <<>> /\ Escape(Bytes(t))[1] # 43 /\ Escape(Bytes(t))[1] \notin Continuation
<1> DEFINE N == Len(t)
           qs == [i \in 1 .. N |-> Escape(t[i])]
<1>1. t \in Seq(Seq(Nat)) /\ N \in Nat \ {0} /\ \A i \in 1 .. N : IsCharacter(t[i]) /\ t[i] \in Seq(Nat)
  <2>1. t \in Seq(Seq(Nat)) /\ \A i \in 1 .. N : IsCharacter(t[i])
    BY TextFacts
  <2>2. N \in Nat \ {0}
    BY <2>1, EmptySeq DEF NoPlus
  <2>3. \A i \in 1 .. N : t[i] \in Seq(Nat)
    BY <2>1
  <2> QED
    BY <2>1, <2>2, <2>3
<1>2. qs \in Seq(Seq(Nat)) /\ Len(qs) = N /\ \A i \in 1 .. N : qs[i] = Escape(t[i])
  <2>1. \A i \in 1 .. N : Escape(t[i]) \in Seq(Nat)
    BY <1>1, EscapeSnoc
  <2> QED
    BY <1>1, <2>1
<1> HIDE DEF qs
<1>3. Escape(Bytes(t)) = FlattenSeq(qs)
  <2>1. N \in 0 .. N
    BY <1>1
  <2>2. EscapedFirst(t, qs, N)
    BY <1>1, <1>2, <2>1, EscapeFirst
  <2>3. SubSeq(t, 1, N) = t /\ SubSeq(qs, 1, N) = qs
    BY <1>1, <1>2, PrefixEnds
  <2> QED
    BY <2>2, <2>3 DEF EscapedFirst, Bytes
<1> DEFINE c == t[1]
           e == qs[1]
<1>4. IsCharacter(c) /\ e = Escape(c) /\ c[1] # 43 /\ e \in Seq(Nat)
  <2>1. 1 \in 1 .. N
    BY <1>1
  <2> QED
    BY <1>1, <1>2, <2>1 DEF NoPlus
<1> HIDE DEF c, e
<1>5. e # <<>> /\ e[1] # 43 /\ e[1] \notin Continuation
  <2> DEFINE p == Piece(c[1])
  <2>1. c[1] \in Nat /\ c[1] \notin Continuation
    BY <1>4, CharacterFacts
  <2>2. PICK rest \in Seq(Nat) : Cut(e, p, rest)
    BY <1>4, EscapeCharacter
  <2>3. p \in Seq(Nat) /\ p # <<>>
    BY <2>1, PieceFacts
  <2>4. p[1] # 43 /\ p[1] \notin Continuation
    <3>1. p = <<5, Flip(c[1])>> \/ p = <<c[1]>>
      BY DEF Piece, Esc
    <3>2. CASE p = <<5, Flip(c[1])>>
      <4>1. p[1] = 5 /\ 5 \notin Continuation
        BY <3>2 DEF Continuation
      <4> QED
        BY <4>1
    <3>3. CASE p = <<c[1]>>
      <4>1. p[1] = c[1]
        BY <3>3
      <4> QED
        BY <1>4, <2>1, <4>1
    <3> QED
      BY <3>1, <3>2, <3>3
  <2> HIDE DEF p
  <2>5. Len(p) \in Nat \ {0}
    BY <2>3, EmptySeq
  <2>6. e[1] = p[1]
    <3>1. 1 \in 1 .. Len(p)
      BY <2>5
    <3>2. \A i \in 1 .. Len(p) : e[i] = p[i]
      BY <1>4, <2>2, <2>3, CutFacts
    <3> QED
      BY <3>1, <3>2
  <2>7. e # <<>>
    BY <1>4, <2>2, <2>3, CutFacts
  <2> QED
    BY <2>4, <2>6, <2>7
<1>6. Len(qs) # 0 /\ qs[1] # <<>>
  BY <1>1, <1>2, <1>5 DEF e
<1>7. FlattenSeq(qs) # <<>> /\ FlattenSeq(qs)[1] = e[1]
  BY <1>2, <1>6, HeadByte DEF e
<1> QED
  BY <1>3, <1>5, <1>7

LEMMA ContentStarts ==
  ASSUME NEW v, NEW kind, IsValue(v, kind), NoPlus(v.text)
  PROVE  Content(v) # <<>> /\ Content(v)[1] # 43
<1> DEFINE c == Content(v)
           e == Escape(Bytes(v.text))
<1>1. e # <<>> /\ e[1] # 43
  BY ValueFacts, FirstByte
<1>2. c \in Seq(Nat) /\ e \in Seq(Nat)
  BY ContentFacts
<1>3. c = e \/ \E g \in Seq(Nat) : Cut(c, e, g)
  <2>1. CASE v.extra = <<>>
    BY <2>1, ContentFacts
  <2>2. CASE v.extra # <<>>
    <3> DEFINE f == Escape(Bytes(v.extra))
    <3>1. Cut(c, e, <<3>> \o f) /\ f \in Seq(Nat)
      BY <2>2, ContentFacts
    <3> HIDE DEF c, e, f
    <3>2. <<3>> \o f \in Seq(Nat)
      BY <3>1
    <3> QED
      BY <3>1, <3>2
  <2> QED
    BY <2>1, <2>2
<1> HIDE DEF c, e
<1>4. ASSUME NEW g \in Seq(Nat), Cut(c, e, g)
      PROVE  c # <<>> /\ c[1] # 43
  <2>1. Len(e) \in Nat \ {0}
    BY <1>1, <1>2, EmptySeq
  <2>2. 1 \in 1 .. Len(e)
    BY <2>1
  <2>3. \A i \in 1 .. Len(e) : c[i] = e[i]
    BY <1>2, <1>4, CutFacts
  <2>4. c # <<>>
    BY <1>1, <1>2, <1>4, CutFacts
  <2> QED
    BY <1>1, <2>2, <2>3, <2>4
<1>5. c # <<>> /\ c[1] # 43
  BY <1>1, <1>3, <1>4
<1> QED
  BY <1>5 DEF c

ArrayPart(a, i) == IF i <= Len(a.items) THEN Content(a.items[i]) ELSE <<43>> \o Bytes(a.more)
PartCount(a) == IF a.more = <<>> THEN Len(a.items) ELSE Len(a.items) + 1
ArrayParts(a) == [i \in 1 .. PartCount(a) |-> ArrayPart(a, i)]
ArrayPieces(a) == [i \in 1 .. PartCount(a) |-> <<4>> \o ArrayPart(a, i)]
ArrayRaw(a) == <<Sig(a.of)>> \o FlattenSeq(ArrayPieces(a))

LEMMA ArrayFacts ==
  ASSUME NEW a, IsArray(a)
  PROVE  /\ a.kind = "array" /\ a.of \in ElementKinds
         /\ Len(a.items) \in Nat /\ DOMAIN a.items = 1 .. Len(a.items)
         /\ \A i \in 1 .. Len(a.items) : IsValue(a.items[i], a.of) /\ NoPlus(a.items[i].text)
         /\ a.more \in Seq({<<b>> : b \in Digits})
<1>1. /\ a.kind = "array" /\ a.of \in ElementKinds
      /\ a.items \in Seq(Range(a.items))
      /\ \A v \in Range(a.items) : IsValue(v, a.of) /\ NoPlus(v.text)
      /\ a.more \in Seq({<<b>> : b \in Digits})
  BY DEF IsArray, NoPlus, ElementKinds
<1>2. Len(a.items) \in Nat /\ DOMAIN a.items = 1 .. Len(a.items)
  BY <1>1
<1>3. \A i \in 1 .. Len(a.items) : a.items[i] \in Range(a.items)
  BY <1>2 DEF Range
<1> QED
  BY <1>1, <1>2, <1>3

\* What is left out is counted in digits: a text that needs no escape.
LEMMA CountIsText ==
  ASSUME NEW m \in Seq({<<b>> : b \in Digits})
  PROVE  IsText(m) /\ Unescaping(m) /\ Without(Bytes(m), Nat \ Digits)
<1> DEFINE D == {<<b>> : b \in Digits}
<1>1. Digits \subseteq 0 .. 255 /\ Digits \cap Continuation = {} /\ Digits \cap Framing = {} /\ 47 \notin Digits
      /\ 110 \notin Digits /\ 110 \in Nat
  BY DEF Digits, Continuation, Framing
<1>2. ASSUME NEW c \in D
      PROVE  IsCharacter(c) /\ c # <<47>> /\ c[1] \notin Framing /\ c \in Seq(Nat) /\ Without(c, Nat \ Digits)
  <2>1. PICK b \in Digits : c = <<b>>
    OBVIOUS
  <2>2. b \in 0 .. 255 /\ b \notin Continuation /\ b \notin Framing /\ b # 47 /\ b \in Nat
    BY <1>1
  <2>3. c \in Seq(0 .. 255) /\ c # <<>> /\ DOMAIN c = 1 .. 1 /\ c[1] = b /\ Len(c) = 1
    BY <2>1, <2>2
  <2>4. IsCharacter(c)
    BY <2>2, <2>3 DEF IsCharacter
  <2>5. c # <<47>>
    BY <2>1, <2>2
  <2>6. c \in Seq(Nat)
    BY <2>1, <2>2
  <2>7. Without(c, Nat \ Digits)
    BY <2>1, <2>3 DEF Without
  <2> QED
    BY <2>2, <2>3, <2>4, <2>5, <2>6, <2>7
<1>3. m \in Seq(D) /\ \A i \in 1 .. Len(m) : m[i] \in D
  OBVIOUS
<1> HIDE DEF D
<1>4. m \in Seq(Range(m)) /\ Range(m) \subseteq D
  <2>1. m \in Seq(Range(m))
    BY <1>3, SeqOfRange
  <2>2. Range(m) \subseteq D
    BY <1>3 DEF Range
  <2> QED
    BY <2>1, <2>2
<1>5. m \in Seq(Seq(Nat)) /\ \A i \in 1 .. Len(m) : Without(m[i], Nat \ Digits)
  <2>1. D \subseteq Seq(Nat)
    BY <1>2
  <2> QED
    BY <1>2, <1>3, <2>1, SeqMonotonic
<1>6. Without(Bytes(m), Nat \ Digits)
  BY <1>5, FlattenFree DEF Bytes
<1>7. Bytes(m) # <<110, 117, 108, 108>>
  <2> SUFFICES ASSUME Bytes(m) = <<110, 117, 108, 108>> PROVE FALSE
    OBVIOUS
  <2>1. Bytes(m)[1] = 110 /\ 1 \in 1 .. Len(Bytes(m))
    OBVIOUS
  <2>2. Bytes(m)[1] \notin Nat \ Digits
    BY <1>6, <2>1 DEF Without
  <2> QED
    BY <1>1, <2>1, <2>2
<1>8. IsText(m)
  BY <1>2, <1>4, <1>7 DEF IsText
<1>9. Unescaping(m)
  BY <1>2, <1>4 DEF Unescaping
<1> QED
  BY <1>6, <1>8, <1>9

LEMMA PartFacts ==
  ASSUME NEW a, IsArray(a), NEW i \in 1 .. PartCount(a)
  PROVE  /\ ArrayPart(a, i) \in Seq(Nat) /\ Without(ArrayPart(a, i), {1, 2, 4, 26}) /\ ArrayPart(a, i) # <<>>
         /\ i <= Len(a.items) => /\ ArrayPart(a, i) = Content(a.items[i]) /\ ArrayPart(a, i)[1] # 43
                                 /\ IsValue(a.items[i], a.of)
         /\ ~(i <= Len(a.items)) => /\ i = Len(a.items) + 1 /\ a.more # <<>>
                                    /\ ArrayPart(a, i) = <<43>> \o Bytes(a.more)
<1>1. Len(a.items) \in Nat /\ a.more \in Seq({<<b>> : b \in Digits})
      /\ \A j \in 1 .. Len(a.items) : IsValue(a.items[j], a.of) /\ NoPlus(a.items[j].text)
  BY ArrayFacts
<1>2. CASE i <= Len(a.items)
  <2> DEFINE v == a.items[i]
  <2>1. i \in 1 .. Len(a.items)
    BY <1>1, <1>2
  <2>2. IsValue(v, a.of) /\ NoPlus(v.text) /\ ArrayPart(a, i) = Content(v)
    BY <1>1, <1>2, <2>1 DEF ArrayPart
  <2> HIDE DEF v
  <2>3. Content(v) \in Seq(Nat) /\ Without(Content(v), {1, 2, 4, 26}) /\ Content(v) # <<>> /\ Content(v)[1] # 43
    BY <2>2, ContentFacts, ContentStarts
  <2> QED
    BY <1>2, <2>2, <2>3 DEF v
<1>3. CASE ~(i <= Len(a.items))
  <2>1. i = Len(a.items) + 1 /\ a.more # <<>>
    BY <1>1, <1>3 DEF PartCount
  <2>2. ArrayPart(a, i) = <<43>> \o Bytes(a.more)
    BY <1>3 DEF ArrayPart
  <2> DEFINE b == Bytes(a.more)
             h == <<43>>
             g == h \o b
             B == {1, 2, 4, 26}
  <2>3. b \in Seq(Nat) /\ Without(b, Nat \ Digits)
    BY <1>1, CountIsText, TextFacts
  <2>4. h \in Seq(Nat) /\ Len(h) = 1 /\ Without(h, B)
    BY DEF Without
  <2>5. Without(b, B)
    <3>1. B \subseteq Nat \ Digits
      BY DEF Digits
    <3> QED
      BY <2>3, <3>1 DEF Without
  <2> HIDE DEF b, h, B
  <2>6. g \in Seq(Nat) /\ Len(g) = Len(h) + Len(b) /\ Cut(g, h, b)
    <3>1. g \in Seq(Nat) /\ Len(g) = Len(h) + Len(b)
      <4>1. b \in Seq(Nat)
        BY <2>3
      <4>2. h \in Seq(Nat)
        BY <2>4
      <4> QED
        BY <4>1, <4>2, ConcatProperties
    <3>2. Cut(g, h, b)
      BY DEF Cut
    <3> QED
      BY <3>1, <3>2
  <2> HIDE DEF g
  <2>7. Without(g, B)
    BY <2>3, <2>4, <2>5, <2>6, FreeParts
  <2>8. Len(g) # 0
    <3>1. Len(b) \in Nat
      BY <2>3
    <3> QED
      BY <2>4, <2>6, <3>1
  <2>9. g # <<>>
    BY <2>6, <2>8, EmptySeq
  <2> QED
    BY <1>3, <2>1, <2>2, <2>6, <2>7, <2>9 DEF g, h, b, B
<1> QED
  BY <1>2, <1>3

LEMMA PartsLed ==
  ASSUME NEW a, IsArray(a)
  PROVE  /\ PartCount(a) \in Nat /\ Len(ArrayParts(a)) = PartCount(a)
         /\ Led(ArrayPieces(a), ArrayParts(a), 4)
<1> DEFINE K == PartCount(a)
           qs == ArrayPieces(a)
           ps == ArrayParts(a)
           four == 4
           P(i) == ArrayPart(a, i)
<1>1. K \in Nat
  BY ArrayFacts DEF PartCount
<1>2. four \in Nat /\ \A i \in 1 .. K : P(i) \in Seq(Nat) /\ Without(P(i), {four})
  <2>1. \A i \in 1 .. K : P(i) \in Seq(Nat) /\ Without(P(i), {1, 2, 4, 26})
    BY PartFacts
  <2> QED
    BY <2>1 DEF Without
<1>3. qs = [i \in 1 .. K |-> <<four>> \o P(i)] /\ ps = [i \in 1 .. K |-> P(i)]
  BY DEF ArrayPieces, ArrayParts
<1> HIDE DEF K, qs, ps, four, P
<1>4. \A i \in 1 .. K : <<four>> \o P(i) \in Seq(Nat)
  BY <1>2
<1>5. qs \in Seq(Seq(Nat)) /\ Len(qs) = K /\ \A i \in 1 .. K : qs[i] = <<four>> \o P(i)
  BY <1>1, <1>3, <1>4
<1>6. ps \in Seq(Seq(Nat)) /\ Len(ps) = K /\ \A i \in 1 .. K : ps[i] = P(i)
  BY <1>1, <1>2, <1>3
<1>7. Led(qs, ps, four)
  BY <1>2, <1>5, <1>6 DEF Led
<1> QED
  BY <1>1, <1>6, <1>7 DEF K, qs, ps, four

LEMMA ArrayRecordForm ==
  ASSUME NEW a, IsArray(a)
  PROVE  /\ ArrayRaw(a) \in Seq(Nat) /\ FlattenSeq(ArrayPieces(a)) \in Seq(Nat)
         /\ ArrayRecord(a) = (<<Sig("array"), 1>> \o ArrayRaw(a)) \o <<2>>
<1> DEFINE n == Len(a.items)
           qs == ArrayPieces(a)
           its == [i \in DOMAIN a.items |-> <<4>> \o Content(a.items[i])]
           rest == IF a.more = <<>> THEN <<>> ELSE <<4, 43>> \o Bytes(a.more)
           g == FlattenSeq(qs)
<1>1. a.of \in ElementKinds /\ n \in Nat /\ DOMAIN a.items = 1 .. n
      /\ \A i \in 1 .. n : IsValue(a.items[i], a.of)
  BY ArrayFacts
<1>2. qs \in Seq(Seq(Nat)) /\ Len(qs) = PartCount(a)
  BY PartsLed DEF Led
<1>3. its \in Seq(Seq(Nat)) /\ Len(its) = n /\ \A i \in 1 .. n : its[i] = <<4>> \o Content(a.items[i])
  <2> DEFINE C(i) == Content(a.items[i])
  <2>1. \A i \in 1 .. n : C(i) \in Seq(Nat)
    BY <1>1, ContentFacts
  <2>2. its = [i \in 1 .. n |-> <<4>> \o C(i)]
    BY <1>1
  <2> HIDE DEF C, n, its
  <2>3. \A i \in 1 .. n : <<4>> \o C(i) \in Seq(Nat)
    BY <2>1
  <2>4. n \in Nat
    BY <1>1
  <2>5. its \in Seq(Seq(Nat)) /\ Len(its) = n /\ \A i \in 1 .. n : its[i] = <<4>> \o C(i)
    BY <2>2, <2>3, <2>4
  <2> QED
    BY <2>5 DEF C, n
<1>4. g \in Seq(Nat)
  <2> HIDE DEF qs
  <2> QED
    BY <1>2, FlattenLayout
<1> DEFINE s == FlattenSeq(its)
<1>5. s \in Seq(Nat)
  <2> HIDE DEF its
  <2> QED
    BY <1>3, FlattenLayout
<1>6. s \o rest = g
  <2>1. CASE a.more = <<>>
    <3>1. PartCount(a) = n
      BY <2>1 DEF PartCount
    <3>2. qs = its
      BY <1>1, <3>1 DEF ArrayPieces, ArrayPart
    <3>3. rest = <<>>
      BY <2>1
    <3> HIDE DEF s, rest
    <3>4. s \o rest = s
      BY <1>5, <3>3, ConcatEmptySeq
    <3> QED
      BY <3>2, <3>4 DEF s
  <2>2. CASE a.more # <<>>
    <3>1. PartCount(a) = n + 1
      BY <2>2 DEF PartCount
    <3> DEFINE b == Bytes(a.more)
               x == <<4>> \o (<<43>> \o b)
    <3>2. b \in Seq(Nat)
      BY ArrayFacts, CountIsText, TextFacts
    <3>3. rest = <<4, 43>> \o b
      BY <2>2
    <3>4. qs = [i \in 1 .. n + 1 |-> IF i <= n THEN <<4>> \o Content(a.items[i]) ELSE x]
      BY <3>1 DEF ArrayPieces, ArrayPart
    <3> HIDE DEF b
    <3>5. rest = x /\ x \in Seq(Nat)
      BY <3>2, <3>3
    <3> HIDE DEF x, rest, n, its, qs
    <3>6. qs = Append(its, x)
      <4>1. Append(its, x) \in Seq(Seq(Nat)) /\ Len(Append(its, x)) = n + 1 /\ Append(its, x)[n + 1] = x
            /\ \A i \in 1 .. n : Append(its, x)[i] = its[i]
        BY <1>3, <3>5
      <4>2. Len(qs) = n + 1
        BY <1>2, <3>1
      <4>3. \A i \in 1 .. n + 1 : qs[i] = Append(its, x)[i]
        <5> TAKE i \in 1 .. n + 1
        <5>1. CASE i <= n
          <6>1. i \in 1 .. n
            BY <1>1, <5>1
          <6> QED
            BY <1>3, <3>4, <4>1, <5>1, <6>1
        <5>2. CASE ~(i <= n)
          <6>1. i = n + 1
            BY <1>1, <5>2
          <6> QED
            BY <3>4, <4>1, <5>2, <6>1
        <5> QED
          BY <5>1, <5>2
      <4> QED
        BY <1>2, <4>1, <4>2, <4>3, SeqEqual
    <3>7. FlattenSeq(Append(its, x)) = FlattenSeq(its) \o x
      BY <1>3, <3>5, FlattenSnoc
    <3> QED
      BY <3>5, <3>6, <3>7 DEF s
  <2> QED
    BY <2>1, <2>2
<1>7. rest \in Seq(Nat)
  <2>1. CASE a.more = <<>>
    BY <2>1
  <2>2. CASE a.more # <<>>
    <3> DEFINE b == Bytes(a.more)
    <3>1. b \in Seq(Nat)
      BY ArrayFacts, CountIsText, TextFacts
    <3>2. rest = <<4, 43>> \o b
      BY <2>2
    <3> HIDE DEF b, rest
    <3> QED
      BY <3>1, <3>2
  <2> QED
    BY <2>1, <2>2
<1> DEFINE k == Sig(a.of)
           k0 == Sig("array")
<1>8. k \in Nat /\ k0 \in Nat
  BY <1>1, KindOfSig
<1>9. ArrayRecord(a) = ((<<k0, 1, k>> \o s) \o rest) \o <<2>>
  BY DEF ArrayRecord
<1>10. ArrayRaw(a) = <<k>> \o g
  BY DEF ArrayRaw
<1> HIDE DEF k, k0, s, rest, g
<1>11. <<k>> \o g \in Seq(Nat)
  BY <1>4, <1>8
<1>12. ((<<k0, 1, k>> \o s) \o rest) = <<k0, 1>> \o (<<k>> \o g)
  <2>1. (<<k0, 1, k>> \o s) \o rest = <<k0, 1, k>> \o (s \o rest)
    <3> DEFINE h == <<k0, 1, k>>
    <3>1. h \in Seq(Nat)
      BY <1>8
    <3> HIDE DEF h
    <3>2. (h \o s) \o rest = h \o (s \o rest)
      BY <1>5, <1>7, <3>1
    <3> QED
      BY <3>2 DEF h
  <2>2. <<k0, 1, k>> \o g = <<k0, 1>> \o (<<k>> \o g)
    BY <1>4, <1>8
  <2> QED
    BY <1>6, <2>1, <2>2
<1> QED
  BY <1>4, <1>9, <1>10, <1>11, <1>12 DEF k0, g

LEMMA CountFacts ==
  ASSUME NEW b \in Seq(Nat), Without(b, Nat \ Digits)
  PROVE  /\ <<43>> \o b \in Seq(Nat) /\ Tail(<<43>> \o b) = b
         /\ IsMore(<<43>> \o b) <=> b # <<>>
<1> DEFINE g == <<43>> \o b
<1>1. g \in Seq(Nat) /\ Len(g) = Len(b) + 1 /\ g[1] = 43 /\ \A i \in 1 .. Len(b) : g[i + 1] = b[i]
  OBVIOUS
<1>2. Tail(g) = b
  OBVIOUS
<1>3. \A i \in 1 .. Len(b) : b[i] \in Digits
  BY DEF Without
<1>4. \A i \in 2 .. Len(g) : g[i] \in Digits
  <2> TAKE i \in 2 .. Len(g)
  <2>1. i - 1 \in 1 .. Len(b) /\ (i - 1) + 1 = i
    BY <1>1
  <2> QED
    BY <1>1, <1>3, <2>1
<1>5. Len(g) > 1 <=> b # <<>>
  <2>1. Len(b) \in Nat /\ (Len(b) = 0 <=> b = <<>>)
    BY EmptySeq
  <2> QED
    BY <1>1, <2>1
<1> HIDE DEF g
<1>6. IsMore(g) <=> b # <<>>
  BY <1>1, <1>4, <1>5 DEF IsMore
<1> QED
  BY <1>1, <1>2, <1>6 DEF g

LEMMA CountNotEmpty ==
  ASSUME NEW m \in Seq({<<b>> : b \in Digits}), m # <<>>
  PROVE  Bytes(m) # <<>>
<1>1. m \in Seq(Seq(Nat))
  BY CountIsText, TextFacts
<1>2. Len(m) \in Nat \ {0}
  BY EmptySeq
<1>3. 1 \in 1 .. Len(m)
  BY <1>2
<1>4. m[1] # <<>>
  <2>1. m[1] \in {<<b>> : b \in Digits}
    BY <1>3
  <2> QED
    BY <2>1
<1> QED
  BY <1>1, <1>2, <1>4, HeadByte DEF Bytes

LEMMA NotMore ==
  ASSUME NEW x \in Seq(Nat), x[1] # 43, NEW w \in Seq(Nat), NEW y \in Seq(Nat), Cut(x, w, y)
  PROVE  ~IsMore(w)
<1> SUFFICES ASSUME IsMore(w) PROVE FALSE
  OBVIOUS
<1>1. Len(w) > 1 /\ w[1] = 43
  BY DEF IsMore
<1>2. 1 \in 1 .. Len(w)
  BY <1>1
<1>3. \A i \in 1 .. Len(w) : x[i] = w[i]
  BY CutFacts
<1> QED
  BY <1>1, <1>2, <1>3

\* What is left of the count without a digit shows as a text of its own.
LEMMA LeafSmall ==
  ASSUME NEW kind \in ElementKinds, NEW w \in {<<>>, << 43 >>}
  PROVE  Leaf(kind, w).text = w
<1> DEFINE three == 3
<1>1. w \in Seq(Nat)
  <2>1. <<>> \in Seq(Nat) /\ <<43>> \in Seq(Nat)
    OBVIOUS
  <2> QED
    BY <2>1
<1>2. Without(w, Framing) /\ Without(w, {three}) /\ three \in Nat
  BY DEF Without, Framing
<1>3. Escape(w) = w
  BY <1>1, <1>2, EscapePlain
<1>4. Unescape(w) = w
  BY <1>1, <1>3, UnescapeEscape
<1> HIDE DEF three
<1>5. Before(w, three) = w
  BY <1>1, <1>2, NotFound
<1>6. Before(w, 3) = w
  BY <1>5 DEF three
<1> QED
  BY <1>4, <1>6 DEF Leaf, Plain, ElementKinds, ObjectKinds

LEMMA PartWhole ==
  ASSUME NEW a, IsArray(a), NEW i \in 1 .. Len(a.items)
  PROVE  /\ Leaf(a.of, ArrayPart(a, i)) = ShownAs(a.of, a.items[i])
         /\ i \in 1 .. PartCount(a)
<1>1. a.of \in ElementKinds /\ IsValue(a.items[i], a.of) /\ Len(a.items) \in Nat
  BY ArrayFacts
<1>2. ArrayPart(a, i) = Content(a.items[i])
  BY <1>1 DEF ArrayPart
<1>3. i \in 1 .. PartCount(a)
  BY <1>1 DEF PartCount
<1>4. Leaf(a.of, Content(a.items[i])) = ShownAs(a.of, a.items[i])
  BY <1>1, LeafWhole
<1> QED
  BY <1>2, <1>3, <1>4

LEMMA ArrayWhole ==
  ASSUME NEW a, IsArray(a)
  PROVE  WholeArg(BuildArray(ArrayRaw(a)), a)
<1> DEFINE n == Len(a.items)
           K == PartCount(a)
           k == Sig(a.of)
           ps == ArrayParts(a)
           qs == ArrayPieces(a)
           raw == ArrayRaw(a)
           d == BuildArray(raw)
           whole == [i \in DOMAIN a.items |-> ShownAs(a.of, a.items[i])]
<1>1. /\ a.kind = "array" /\ a.of \in ElementKinds /\ n \in Nat /\ DOMAIN a.items = 1 .. n
      /\ a.more \in Seq({<<b>> : b \in Digits})
  BY ArrayFacts
<1>2. K \in Nat /\ Len(ps) = K /\ Led(qs, ps, 4) /\ ps = [i \in 1 .. K |-> ArrayPart(a, i)]
  BY PartsLed DEF ArrayParts
<1>3. raw \in Seq(Nat) /\ FlattenSeq(qs) \in Seq(Nat) /\ raw = <<k>> \o FlattenSeq(qs)
  BY ArrayRecordForm DEF ArrayRaw
<1>4. k \in Nat /\ KindOf(k) = a.of
  BY <1>1, KindOfSig
<1>5. ASSUME d.kind = "array", d.items = whole, d.more = Bytes(a.more),
             d = [kind |-> d.kind, items |-> d.items, more |-> d.more]
      PROVE  WholeArg(d, a)
  BY <1>1, <1>5 DEF WholeArg
<1> HIDE DEF k, ps, qs, raw, d
<1>6. CASE K = 0
  <2>1. n = 0 /\ a.more = <<>>
    BY <1>1, <1>6 DEF PartCount
  <2>2. FlattenSeq(qs) = <<>>
    <3>1. Len(qs) = 0 /\ qs \in Seq(Seq(Nat))
      BY <1>2, <1>6 DEF Led
    <3>2. qs = <<>>
      BY <3>1, EmptySeq
    <3> QED
      BY <3>2, FlattenEmpty
  <2>3. Len(raw) <= 2
    <3>1. raw = <<k>> \o <<>>
      BY <1>3, <2>2
    <3>2. Len(raw) = 1
      BY <1>4, <3>1
    <3> QED
      BY <3>2
  <2>4. d = NoItems
    BY <1>3, <2>3, NothingBuilt DEF d
  <2>5. whole = <<>>
    <3>1. DOMAIN a.items = 1 .. 0
      BY <1>1, <2>1
    <3> QED
      BY <3>1
  <2>6. Bytes(a.more) = <<>>
    BY <2>1, FlattenEmpty DEF Bytes
  <2>7. WholeArg(d, a)
    BY <1>5, <2>4, <2>5, <2>6 DEF NoItems
  <2> QED
    BY <2>7 DEF d, raw
<1>7. CASE K # 0
  <2>1. 1 \in 1 .. K /\ K \in 1 .. K
    BY <1>2, <1>7
  <2>2. ps # <<<<>>>>
    <3>1. ps[1] # <<>>
      BY <1>2, <2>1, PartFacts
    <3> QED
      BY <3>1
  <2>3. Cut(raw, <<k>>, FlattenSeq(qs))
    BY <1>3 DEF Cut
  <2>4. BuiltFrom(d, a.of, ps)
    <3>1. Len(ps) # 0
      BY <1>2, <1>7
    <3>2. BuiltFrom(BuildArray(raw), KindOf(k), ps)
      BY <1>2, <1>3, <1>4, <2>2, <2>3, <3>1, ArrayBuilt
    <3> QED
      BY <1>4, <3>2 DEF d
  <2>5. ps[K] = ArrayPart(a, K) /\ \A i \in 1 .. n : ps[i] = ArrayPart(a, i) /\ Leaf(a.of, ps[i]) = ShownAs(a.of, a.items[i])
    <3>1. \A i \in 1 .. n : Leaf(a.of, ArrayPart(a, i)) = ShownAs(a.of, a.items[i]) /\ i \in 1 .. K
      BY PartWhole
    <3> QED
      BY <1>2, <2>1, <3>1
  <2>6. whole = [i \in 1 .. n |-> Leaf(a.of, ps[i])]
    BY <1>1, <2>5
  <2>7. CASE a.more = <<>>
    <3>1. K = n /\ K <= n
      BY <1>1, <2>7 DEF PartCount
    <3>2. ps[K] \in Seq(Nat) /\ ps[K][1] # 43
      BY <2>1, <2>5, <3>1, PartFacts
    <3>3. ~IsMore(ps[K])
      <4>1. Cut(ps[K], ps[K], <<>>) /\ <<>> \in Seq(Nat)
        BY <3>2, CutEnds
      <4> QED
        BY <3>2, <4>1, NotMore
    <3>4. d.kind = "array" /\ d.items = [i \in 1 .. n |-> Leaf(a.of, ps[i])] /\ d.more = <<>>
          /\ d = [kind |-> d.kind, items |-> d.items, more |-> d.more]
      BY <1>2, <2>4, <3>1, <3>3 DEF BuiltFrom
    <3>5. Bytes(a.more) = <<>>
      BY <2>7, FlattenEmpty DEF Bytes
    <3>6. WholeArg(d, a)
      BY <1>5, <2>6, <3>4, <3>5
    <3> QED
      BY <3>6 DEF d, raw
  <2>8. CASE a.more # <<>>
    <3> DEFINE b == Bytes(a.more)
    <3>1. K = n + 1 /\ ~(K <= n) /\ K - 1 = n
      BY <1>1, <2>8 DEF PartCount
    <3>2. ps[K] = <<43>> \o b
      BY <2>1, <2>5, <3>1, PartFacts
    <3>3. b \in Seq(Nat) /\ Without(b, Nat \ Digits) /\ b # <<>>
      BY <1>1, <2>8, CountIsText, CountNotEmpty, TextFacts
    <3> HIDE DEF b
    <3>4. IsMore(ps[K]) /\ Tail(ps[K]) = b
      BY <3>2, <3>3, CountFacts
    <3>5. d.kind = "array" /\ d.items = [i \in 1 .. n |-> Leaf(a.of, ps[i])] /\ d.more = b
          /\ d = [kind |-> d.kind, items |-> d.items, more |-> d.more]
      BY <1>2, <2>4, <3>1, <3>4 DEF BuiltFrom
    <3>6. WholeArg(d, a)
      BY <1>5, <2>6, <3>5 DEF b
    <3> QED
      BY <3>6 DEF d, raw
  <2> QED
    BY <2>7, <2>8
<1> QED
  BY <1>6, <1>7

BeginsPart(x, w) == \E y \in Seq(Nat) : Cut(x, w, y) /\ (y # <<>> => Safe(w, y))

LEMMA ArrayBegins ==
  ASSUME NEW a, IsArray(a), NEW qs, NEW ps, Led(qs, ps, 4), NEW L \in 1 .. PartCount(a), Len(ps) = L,
         \A i \in 1 .. L - 1 : ps[i] = ArrayPart(a, i), BeginsPart(ArrayPart(a, L), ps[L]),
         NEW raw \in Seq(Nat), Cut(raw, <<Sig(a.of)>>, FlattenSeq(qs))
  PROVE  BeginsArray(BuildArray(raw), a)
<1> DEFINE n == Len(a.items)
           K == PartCount(a)
           k == Sig(a.of)
           d == BuildArray(raw)
           w == ps[L]
           x == ArrayPart(a, L)
<1>1. /\ a.of \in ElementKinds /\ n \in Nat /\ DOMAIN a.items = 1 .. n
      /\ a.more \in Seq({<<b>> : b \in Digits})
  BY ArrayFacts
<1>2. K \in Nat /\ L \in 1 .. K /\ L \in Nat /\ ps \in Seq(Seq(Nat)) /\ qs \in Seq(Seq(Nat)) /\ w \in Seq(Nat)
      /\ Len(qs) = L
  <2>1. K \in Nat
    BY PartsLed
  <2>2. ps \in Seq(Seq(Nat)) /\ qs \in Seq(Seq(Nat)) /\ Len(qs) = L
    BY DEF Led
  <2>3. L \in Nat /\ L \in 1 .. Len(ps)
    BY <2>1
  <2> QED
    BY <2>1, <2>2, <2>3
<1>3. k \in Nat /\ KindOf(k) = a.of
  BY <1>1, KindOfSig
<1>4. PICK y \in Seq(Nat) : Cut(x, w, y) /\ (y # <<>> => Safe(w, y))
  BY DEF BeginsPart
<1>5. x \in Seq(Nat)
  BY PartFacts
<1>6. BeginsText(<<>>, a.more)
  <2>1. IsText(a.more)
    BY <1>1, CountIsText
  <2>2. 0 \in 0 .. Len(a.more) /\ Bytes(SubSeq(a.more, 1, 0)) = <<>>
    BY <2>1, WholeText
  <2> QED
    BY <2>2 DEF BeginsText
<1>7. ASSUME NEW i \in 1 .. n
      PROVE  Leaf(a.of, ArrayPart(a, i)) = ShownAs(a.of, a.items[i])
  BY PartWhole
<1> HIDE DEF k, d, w, x, n, K
<1>8. CASE ps = <<<<>>>>
  <2>1. L = 1 /\ ps[1] = <<>>
    BY <1>8
  <2>2. FlattenSeq(qs) = <<4>>
    <3>1. qs[1] = <<4>> \o ps[1] /\ 1 \in 1 .. Len(qs)
      BY <1>2, <2>1 DEF Led
    <3>2. qs[1] = <<4>>
      <4>1. <<4>> \in Seq(Nat)
        OBVIOUS
      <4> QED
        BY <2>1, <3>1, <4>1, ConcatEmptySeq
    <3>3. SubSeq(qs, 1, Len(qs)) = qs
      BY <1>2, PrefixEnds
    <3>4. FlattenSeq(SubSeq(qs, 1, 1)) = FlattenSeq(SubSeq(qs, 1, 0)) \o qs[1] /\ FlattenSeq(SubSeq(qs, 1, 0)) = <<>>
      <4>1. \A i \in 1 .. Len(qs) : FlattenSeq(SubSeq(qs, 1, i)) = FlattenSeq(SubSeq(qs, 1, i - 1)) \o qs[i]
        BY <1>2, FlattenFirst
      <4>2. FlattenSeq(SubSeq(qs, 1, 0)) = <<>>
        BY <1>2, FlattenFirst
      <4>3. 1 - 1 = 0
        OBVIOUS
      <4> QED
        BY <3>1, <4>1, <4>2, <4>3
    <3>5. FlattenSeq(qs) = <<>> \o <<4>>
      BY <1>2, <2>1, <3>2, <3>3, <3>4
    <3> QED
      BY <3>5
  <2>3. Len(raw) <= 2
    <3>1. raw = <<k>> \o <<4>>
      BY <2>2 DEF Cut, k
    <3> QED
      BY <1>3, <3>1
  <2>4. d = NoItems
    BY <2>3, NothingBuilt DEF d
  <2>5. d.kind = "array" /\ d.more = <<>> /\ d.items = <<>> /\ DOMAIN d.items = {}
    BY <2>4 DEF NoItems
  <2>6. BeginsArray(d, a)
    BY <1>6, <2>5 DEF BeginsArray
  <2> QED
    BY <2>6 DEF d
<1>9. CASE ps # <<<<>>>>
  <2>1. BuiltFrom(d, a.of, ps)
    <3>1. Len(ps) # 0
      BY <1>2
    <3>2. Cut(raw, <<k>>, FlattenSeq(qs))
      BY DEF k
    <3>3. BuiltFrom(BuildArray(raw), KindOf(k), ps)
      BY <1>3, <1>9, <3>1, <3>2, ArrayBuilt
    <3> QED
      BY <1>3, <3>3 DEF d
  <2>2. CASE L <= n
    <3>1. x[1] # 43 /\ x = Content(a.items[L]) /\ IsValue(a.items[L], a.of)
      BY <2>2, PartFacts DEF x, n
    <3>2. ~IsMore(w)
      BY <1>2, <1>4, <1>5, <3>1, NotMore
    <3>3. d.kind = "array" /\ d.more = <<>> /\ Len(d.items) = L /\ DOMAIN d.items = 1 .. L
          /\ \A i \in 1 .. L : d.items[i] = Leaf(a.of, ps[i])
      BY <2>1, <3>2 DEF BuiltFrom, w
    <3>4. BeginsValue(Leaf(a.of, w), a.of, a.items[L])
      BY <1>1, <1>2, <1>4, <3>1, LeafCut
    <3>5. ASSUME NEW i \in 1 .. L
          PROVE  \/ i < L /\ i \in 1 .. n /\ d.items[i] = ShownAs(a.of, a.items[i])
                 \/ i = L /\ i \in 1 .. n /\ BeginsValue(d.items[i], a.of, a.items[i])
      <4>1. i \in 1 .. n
        BY <1>1, <1>2, <2>2
      <4>2. CASE i < L
        <5>1. i \in 1 .. L - 1
          BY <1>2, <4>2
        <5>2. d.items[i] = Leaf(a.of, ArrayPart(a, i))
          BY <3>3, <5>1
        <5> QED
          BY <1>7, <4>1, <4>2, <5>2
      <4>3. CASE i = L
        <5>1. d.items[i] = Leaf(a.of, w)
          BY <3>3, <4>3 DEF w
        <5> QED
          BY <3>4, <4>1, <4>3, <5>1
      <4> QED
        BY <1>2, <4>2, <4>3
    <3>6. BeginsArray(d, a)
      BY <1>1, <1>6, <3>3, <3>5 DEF BeginsArray
    <3> QED
      BY <3>6 DEF d
  <2>3. CASE ~(L <= n)
    <3> DEFINE b == Bytes(a.more)
               sign == 43
    <3>1. L = n + 1 /\ a.more # <<>> /\ x = <<sign>> \o b
      BY <2>3, PartFacts DEF x, n
    <3>2. b \in Seq(Nat) /\ Without(b, Nat \ Digits) /\ IsText(a.more) /\ Unescaping(a.more)
      BY <1>1, CountIsText, TextFacts
    <3>3. \A i \in 0 .. Len(a.more) : Escape(Bytes(SubSeq(a.more, 1, i))) = Bytes(SubSeq(a.more, 1, i))
      BY <3>2, PlainText
    <3>4. Escape(b) = b
      <4>1. Len(a.more) \in 0 .. Len(a.more) /\ SubSeq(a.more, 1, Len(a.more)) = a.more
        BY <3>2, WholeText
      <4> QED
        BY <3>3, <4>1
    <3>5. sign \in Nat /\ Cut(x, <<sign>>, b)
      BY <3>1 DEF Cut
    <3> HIDE DEF b, sign
    <3>6. w = <<>> \/ \E r \in Seq(Nat) : Cut(w, <<sign>>, r) /\ Cut(b, r, y)
      BY <1>2, <1>4, <1>5, <3>2, <3>5, CutBehindFirst
    <3>7. ASSUME NEW r \in Seq(Nat), Cut(w, <<sign>>, r), Cut(b, r, y)
          PROVE  w = <<43>> \o r /\ BeginsText(r, a.more) /\ (IsMore(w) <=> r # <<>>) /\ Tail(w) = r
      <4>1. w = <<43>> \o r
        BY <3>7 DEF Cut, sign
      <4>2. Without(r, Nat \ Digits)
        BY <1>4, <3>2, <3>7, FreeParts
      <4>3. y # <<>> => Safe(r, y)
        <5> SUFFICES ASSUME y # <<>> PROVE Safe(r, y)
          OBVIOUS
        <5> DEFINE h == <<sign>>
        <5>1. h \in Seq(Nat) /\ Cut(w, h, r)
          BY <3>5, <3>7
        <5> HIDE DEF h
        <5>2. Cut(y, y, <<>>) /\ <<>> \in Seq(Nat) /\ Safe(w, y)
          BY <1>4, CutEnds
        <5> QED
          BY <1>2, <1>4, <5>1, <5>2, SafeParts
      <4>4. BeginsEscaped(r, a.more)
        <5>1. Cut(Escape(Bytes(a.more)), r, y)
          BY <3>4, <3>7 DEF b
        <5> QED
          BY <1>4, <3>2, <4>3, <5>1, EscapeCut
      <4>5. BeginsText(r, a.more)
        BY <3>3, <4>4 DEF BeginsEscaped, BeginsText
      <4>6. (IsMore(<<43>> \o r) <=> r # <<>>) /\ Tail(<<43>> \o r) = r
        BY <4>2, CountFacts
      <4> QED
        BY <4>1, <4>5, <4>6
    <3>8. CASE IsMore(w)
      <4>1. w # <<>>
        <5>1. ~IsMore(<<>>)
          BY DEF IsMore
        <5> QED
          BY <3>8, <5>1
      <4>2. BeginsText(Tail(w), a.more)
        BY <3>6, <3>7, <4>1
      <4>3. d.kind = "array" /\ d.more = Tail(w) /\ Len(d.items) = n /\ DOMAIN d.items = 1 .. n
            /\ \A i \in 1 .. n : d.items[i] = Leaf(a.of, ps[i])
        <5>1. L - 1 = n
          BY <1>1, <3>1
        <5> QED
          BY <2>1, <3>8, <5>1 DEF BuiltFrom, w
      <4>4. ASSUME NEW i \in 1 .. n
            PROVE  d.items[i] = ShownAs(a.of, a.items[i]) /\ BeginsValue(d.items[i], a.of, a.items[i]) /\ (i < n \/ i = n)
        <5>1. i \in 1 .. L - 1
          BY <1>1, <3>1
        <5>2. d.items[i] = Leaf(a.of, ArrayPart(a, i))
          BY <4>3, <5>1
        <5>3. d.items[i] = ShownAs(a.of, a.items[i])
          BY <1>7, <5>2
        <5> QED
          BY <1>1, <5>3 DEF BeginsValue
      <4>5. BeginsArray(d, a)
        BY <1>1, <4>2, <4>3, <4>4 DEF BeginsArray
      <4> QED
        BY <4>5 DEF d
    <3>9. CASE ~IsMore(w)
      <4>1. w \in {<<>>, <<43>>}
        <5> SUFFICES ASSUME w # <<>> PROVE w = <<43>>
          OBVIOUS
        <5>1. PICK r \in Seq(Nat) : Cut(w, <<sign>>, r) /\ Cut(b, r, y)
          BY <3>6
        <5>2. r = <<>> /\ w = <<43>> \o r
          BY <3>7, <3>9, <5>1
        <5>3. <<43>> \in Seq(Nat)
          OBVIOUS
        <5> QED
          BY <5>2, <5>3, ConcatEmptySeq
      <4>2. Leaf(a.of, w).text \in {<<>>, <<43>>}
        BY <1>1, <4>1, LeafSmall
      <4>3. d.kind = "array" /\ d.more = <<>> /\ Len(d.items) = L /\ DOMAIN d.items = 1 .. L
            /\ \A i \in 1 .. L : d.items[i] = Leaf(a.of, ps[i])
        BY <2>1, <3>9 DEF BuiltFrom, w
      <4>4. ASSUME NEW i \in 1 .. L
            PROVE  \/ i < L /\ i \in 1 .. n /\ d.items[i] = ShownAs(a.of, a.items[i])
                   \/ i = n + 1 /\ d.items[i].text \in {<<>>, <<43>>}
        <5>1. CASE i < L
          <6>1. i \in 1 .. n /\ i \in 1 .. L - 1
            BY <1>1, <3>1, <5>1
          <6>2. d.items[i] = Leaf(a.of, ArrayPart(a, i))
            BY <4>3, <6>1
          <6> QED
            BY <1>7, <5>1, <6>1, <6>2
        <5>2. CASE i = L
          <6>1. d.items[i] = Leaf(a.of, w)
            BY <4>3, <5>2 DEF w
          <6> QED
            BY <3>1, <4>2, <5>2, <6>1
        <5> QED
          BY <1>2, <5>1, <5>2
      <4>5. BeginsArray(d, a)
        BY <1>1, <1>6, <3>1, <4>3, <4>4 DEF BeginsArray, n
      <4> QED
        BY <4>5 DEF d
    <3> QED
      BY <3>8, <3>9
  <2> QED
    BY <2>2, <2>3
<1> QED
  BY <1>8, <1>9

LEMMA LedFirst ==
  ASSUME NEW c \in Nat, NEW qs, NEW ps, Led(qs, ps, c), NEW m \in 0 .. Len(ps)
  PROVE  Led(SubSeq(qs, 1, m), SubSeq(ps, 1, m), c)
<1>1. qs \in Seq(Seq(Nat)) /\ ps \in Seq(Seq(Nat)) /\ Len(qs) = Len(ps)
      /\ \A i \in 1 .. Len(ps) : qs[i] = <<c>> \o ps[i] /\ Without(ps[i], {c})
  BY DEF Led
<1> DEFINE s == SubSeq(qs, 1, m)
           t == SubSeq(ps, 1, m)
<1>2. s \in Seq(Seq(Nat)) /\ Len(s) = m /\ \A i \in 1 .. m : s[i] = qs[i]
  BY <1>1, PrefixFacts
<1>3. t \in Seq(Seq(Nat)) /\ Len(t) = m /\ \A i \in 1 .. m : t[i] = ps[i]
  BY <1>1, PrefixFacts
<1>4. \A i \in 1 .. m : i \in 1 .. Len(ps)
  <2>1. Len(ps) \in Nat
    BY <1>1
  <2> QED
    BY <2>1
<1> HIDE DEF s, t
<1>5. Led(s, t, c)
  BY <1>1, <1>2, <1>3, <1>4 DEF Led
<1> QED
  BY <1>5 DEF s, t

LEMMA LedAppend ==
  ASSUME NEW c \in Nat, NEW qs, NEW ps, Led(qs, ps, c), NEW w \in Seq(Nat), NEW q \in Seq(Nat),
         Cut(q, <<c>>, w), Without(w, {c})
  PROVE  Led(Append(qs, q), Append(ps, w), c)
<1>1. qs \in Seq(Seq(Nat)) /\ ps \in Seq(Seq(Nat)) /\ Len(qs) = Len(ps)
      /\ \A i \in 1 .. Len(ps) : qs[i] = <<c>> \o ps[i] /\ Without(ps[i], {c})
  BY DEF Led
<1> DEFINE s == Append(qs, q)
           t == Append(ps, w)
           n == Len(ps)
<1>2. s \in Seq(Seq(Nat)) /\ Len(s) = n + 1 /\ s[n + 1] = q /\ \A i \in 1 .. n : s[i] = qs[i]
  BY <1>1
<1>3. t \in Seq(Seq(Nat)) /\ Len(t) = n + 1 /\ t[n + 1] = w /\ \A i \in 1 .. n : t[i] = ps[i]
  BY <1>1
<1>4. n \in Nat /\ q = <<c>> \o w
  BY <1>1 DEF Cut
<1>5. \A i \in 1 .. n + 1 : i \in 1 .. n \/ i = n + 1
  BY <1>4
<1> HIDE DEF s, t
<1>6. \A i \in 1 .. n + 1 : s[i] = <<c>> \o t[i] /\ Without(t[i], {c})
  <2> TAKE i \in 1 .. n + 1
  <2>1. CASE i \in 1 .. n
    BY <1>1, <1>2, <1>3, <2>1
  <2>2. CASE i = n + 1
    BY <1>2, <1>3, <1>4, <2>2
  <2> QED
    BY <1>5, <2>1, <2>2
<1>7. Led(s, t, c)
  BY <1>2, <1>3, <1>6 DEF Led
<1> QED
  BY <1>7 DEF s, t

LEMMA ArrayCut ==
  ASSUME NEW a, IsArray(a), NEW r \in Seq(Nat), NEW y \in Seq(Nat), Cut(ArrayRaw(a), r, y),
         y # <<>> => Safe(r, y)
  PROVE  BeginsArray(BuildArray(r), a)
<1> DEFINE K == PartCount(a)
           k == Sig(a.of)
           ps == ArrayParts(a)
           qs == ArrayPieces(a)
           raw == ArrayRaw(a)
           g0 == FlattenSeq(qs)
           four == 4
<1>1. four \in Nat /\ K \in Nat /\ Len(ps) = K /\ Led(qs, ps, four)
      /\ \A i \in 1 .. K : ps[i] = ArrayPart(a, i) /\ ps[i] \in Seq(Nat) /\ Without(ps[i], {four})
  <2>1. K \in Nat /\ Len(ps) = K /\ Led(qs, ps, 4) /\ ps = [i \in 1 .. K |-> ArrayPart(a, i)]
    BY PartsLed DEF ArrayParts
  <2>2. ps \in Seq(Seq(Nat)) /\ \A i \in 1 .. Len(ps) : Without(ps[i], {4})
    BY <2>1 DEF Led
  <2> QED
    BY <2>1, <2>2
<1>2. raw \in Seq(Nat) /\ g0 \in Seq(Nat) /\ raw = <<k>> \o g0
  BY ArrayRecordForm DEF ArrayRaw
<1>3. k \in Nat
  BY ArrayFacts, KindOfSig
<1>4. qs \in Seq(Seq(Nat)) /\ ps \in Seq(Seq(Nat)) /\ Len(qs) = K
  BY <1>1 DEF Led
<1>5. BeginsArray(NoItems, a)
  <2>1. IsText(a.more)
    BY ArrayFacts, CountIsText
  <2>2. 0 \in 0 .. Len(a.more) /\ Bytes(SubSeq(a.more, 1, 0)) = <<>>
    BY <2>1, WholeText
  <2>3. NoItems.kind = "array" /\ NoItems.more = <<>> /\ NoItems.items = <<>>
    BY DEF NoItems
  <2>4. BeginsText(NoItems.more, a.more)
    BY <2>2, <2>3 DEF BeginsText
  <2>5. DOMAIN NoItems.items = {}
    BY <2>3
  <2> QED
    BY <2>3, <2>4, <2>5 DEF BeginsArray
<1>6. ASSUME Len(r) <= 2
      PROVE  BuildArray(r) = NoItems
  BY <1>6, NothingBuilt
<1> HIDE DEF k, ps, qs, g0, K, raw, four
<1>7. Cut(raw, <<k>>, g0)
  BY <1>2 DEF Cut
<1>8. r = <<>> \/ \E g \in Seq(Nat) : Cut(r, <<k>>, g) /\ Cut(g0, g, y)
  <2>1. Cut(raw, r, y)
    BY DEF raw
  <2> QED
    BY <1>2, <1>3, <1>7, <2>1, CutBehindFirst
<1>9. CASE r = <<>>
  <2>1. Len(r) <= 2
    BY <1>9
  <2> QED
    BY <1>5, <1>6, <2>1
<1>10. CASE \E g \in Seq(Nat) : Cut(r, <<k>>, g) /\ Cut(g0, g, y)
  <2>1. PICK g \in Seq(Nat) : Cut(r, <<k>>, g) /\ Cut(g0, g, y)
    BY <1>10
  <2>2. ASSUME g = <<>>
        PROVE  Len(r) <= 2
    <3>1. r = <<k>> \o <<>>
      BY <2>1, <2>2 DEF Cut
    <3> QED
      BY <1>3, <3>1
  <2>3. ASSUME NEW q2, NEW p2, Led(q2, p2, four), NEW L \in 1 .. K, Len(p2) = L,
               \A i \in 1 .. L - 1 : p2[i] = ps[i], BeginsPart(ps[L], p2[L]), FlattenSeq(q2) = g
        PROVE  BeginsArray(BuildArray(r), a)
    <3>1. L - 1 \in Nat /\ \A i \in 1 .. L - 1 : i \in 1 .. K
      BY <1>1
    <3>2. \A i \in 1 .. L - 1 : p2[i] = ArrayPart(a, i)
      BY <1>1, <2>3, <3>1
    <3>3. BeginsPart(ArrayPart(a, L), p2[L])
      BY <1>1, <2>3
    <3>4. Cut(r, <<Sig(a.of)>>, FlattenSeq(q2))
      BY <2>1, <2>3 DEF k
    <3>5. Led(q2, p2, 4) /\ L \in 1 .. PartCount(a)
      BY <2>3 DEF four, K
    <3> QED
      BY <2>3, <3>2, <3>3, <3>4, <3>5, ArrayBegins
  <2>4. ASSUME NEW w \in Seq(Nat)
        PROVE  BeginsPart(w, w)
    <3>1. Cut(w, w, <<>>) /\ <<>> \in Seq(Nat)
      BY CutEnds
    <3> QED
      BY <3>1 DEF BeginsPart
  <2>5. ASSUME NEW m \in 0 .. K, FlattenSeq(SubSeq(qs, 1, m)) = g
        PROVE  BeginsArray(BuildArray(r), a)
    <3>1. CASE m = 0
      <4>1. SubSeq(qs, 1, 0) = <<>>
        BY <1>4, PrefixEnds
      <4>2. g = <<>>
        BY <2>5, <3>1, <4>1, FlattenEmpty
      <4> QED
        BY <1>5, <1>6, <2>2, <4>2
    <3>2. CASE m # 0
      <4> DEFINE p2 == SubSeq(ps, 1, m)
      <4>1. Led(SubSeq(qs, 1, m), p2, four)
        BY <1>1, LedFirst
      <4>2. Len(p2) = m /\ m \in 1 .. K /\ \A i \in 1 .. m : p2[i] = ps[i]
        <5>1. m \in 0 .. Len(ps)
          BY <1>1
        <5> QED
          BY <1>1, <1>4, <3>2, <5>1, PrefixFacts
      <4> HIDE DEF p2
      <4>3. p2[m] = ps[m] /\ ps[m] \in Seq(Nat) /\ \A i \in 1 .. m - 1 : p2[i] = ps[i]
        <5>1. m \in 1 .. m /\ \A i \in 1 .. m - 1 : i \in 1 .. m
          BY <4>2
        <5> QED
          BY <1>1, <4>2, <5>1
      <4>4. BeginsPart(ps[m], p2[m])
        BY <2>4, <4>3
      <4> QED
        BY <2>3, <2>5, <4>1, <4>2, <4>3, <4>4
    <3> QED
      BY <3>1, <3>2
  <2>6. CASE y = <<>>
    <3>1. g = g0
      BY <1>2, <2>1, <2>6, CutEmpty
    <3>2. K \in 0 .. K /\ SubSeq(qs, 1, K) = qs
      BY <1>1, <1>4, PrefixEnds
    <3> QED
      BY <2>5, <3>1, <3>2 DEF g0
  <2>7. CASE y # <<>>
    <3>1. PICK m \in 0 .. Len(qs) - 1, w1 \in Seq(Nat), y1 \in Seq(Nat), z \in Seq(Nat) : CutAt(qs, g, y, m, w1, y1, z)
      <4>1. Cut(FlattenSeq(qs), g, y)
        BY <2>1 DEF g0
      <4>2. \E m \in 0 .. Len(qs) - 1 : \E w1, y1, z \in Seq(Nat) : CutAt(qs, g, y, m, w1, y1, z)
        BY <1>4, <2>1, <2>7, <4>1, FlattenCut
      <4> QED
        BY <4>2
    <3> DEFINE j == m + 1
               s == SubSeq(qs, 1, m)
               t == SubSeq(ps, 1, m)
               f == FlattenSeq(s)
               x == ps[j]
    <3>2. j \in 1 .. K /\ m \in 0 .. K /\ m \in 0 .. Len(ps) /\ m \in 0 .. Len(qs) /\ m \in Nat
      BY <1>1, <1>4
    <3>3. Cut(g, f, w1) /\ Cut(qs[j], w1, y1) /\ Cut(y, y1, z) /\ y1 # <<>>
      BY <3>1 DEF CutAt
    <3>4. x \in Seq(Nat) /\ Without(x, {four}) /\ qs[j] = <<four>> \o x /\ qs[j] \in Seq(Nat)
      <4>1. qs[j] = <<four>> \o x
        BY <1>1, <3>2 DEF Led
      <4>2. qs[j] \in Seq(Nat)
        BY <1>4, <3>2
      <4> QED
        BY <1>1, <3>2, <4>1, <4>2
    <3>5. s \in Seq(Seq(Nat)) /\ t \in Seq(Seq(Nat)) /\ Led(s, t, four) /\ Len(t) = m /\ \A i \in 1 .. m : t[i] = ps[i]
      BY <1>1, <1>4, <3>2, PrefixFacts, LedFirst
    <3>6. f \in Seq(Nat)
      BY <1>4, <3>2, FlattenFirst
    <3> HIDE DEF s, t, f, x
    <3>7. CASE w1 = <<>>
      <4>1. Cut(g, f, <<>>)
        BY <3>3, <3>7
      <4>2. f = g
        BY <2>1, <3>6, <4>1, CutEmpty
      <4> QED
        BY <2>5, <3>2, <4>2 DEF f, s
    <3>8. CASE \E w \in Seq(Nat) : Cut(w1, <<four>>, w) /\ Cut(x, w, y1)
      <4>1. PICK w \in Seq(Nat) : Cut(w1, <<four>>, w) /\ Cut(x, w, y1)
        BY <3>8
      <4>2. w1 \in Seq(Nat) /\ y1 \in Seq(Nat) /\ z \in Seq(Nat)
        BY <3>1
      <4>3. Without(w, {four})
        BY <3>4, <4>1, <4>2, FreeParts
      <4> DEFINE q2 == Append(s, w1)
                 p2 == Append(t, w)
      <4>4. Led(q2, p2, four)
        BY <1>1, <3>5, <4>1, <4>2, <4>3, LedAppend
      <4>5. FlattenSeq(q2) = g
        <5>1. FlattenSeq(q2) = f \o w1
          BY <3>5, <4>2, FlattenSnoc DEF f
        <5> QED
          BY <3>3, <5>1 DEF Cut
      <4>6. Len(p2) = j /\ p2[j] = w /\ \A i \in 1 .. j - 1 : p2[i] = ps[i]
        <5>1. Len(p2) = m + 1 /\ p2[m + 1] = w /\ \A i \in 1 .. m : p2[i] = t[i]
          BY <3>2, <3>5, <4>1
        <5>2. j - 1 = m
          BY <3>2
        <5> HIDE DEF p2
        <5> QED
          BY <3>5, <5>1, <5>2
      <4> HIDE DEF q2, p2
      <4>7. Safe(w, y1)
        <5> DEFINE h == <<four>>
        <5>1. h \in Seq(Nat) /\ Cut(w1, h, w)
          BY <1>1, <4>1
        <5> HIDE DEF h
        <5>2. f \o h \in Seq(Nat) /\ Cut(g, f \o h, w)
          BY <2>1, <3>3, <3>6, <4>1, <4>2, <5>1, CutDeeper
        <5> DEFINE h1 == <<k>>
        <5>3. h1 \in Seq(Nat) /\ Cut(r, h1, g)
          BY <1>3, <2>1
        <5> HIDE DEF h1
        <5> DEFINE fh == f \o h
        <5>4. fh \in Seq(Nat) /\ Cut(g, fh, w)
          BY <5>2
        <5> HIDE DEF fh
        <5>5. h1 \o fh \in Seq(Nat) /\ Cut(r, h1 \o fh, w)
          BY <2>1, <4>1, <5>3, <5>4, CutDeeper
        <5>6. Safe(r, y)
          BY <2>7
        <5> QED
          BY <3>3, <4>1, <4>2, <5>5, <5>6, SafeParts
      <4>8. BeginsPart(x, p2[j])
        BY <4>1, <4>2, <4>6, <4>7 DEF BeginsPart
      <4> QED
        BY <2>3, <3>2, <4>4, <4>5, <4>6, <4>8 DEF x
    <3>9. w1 = <<>> \/ \E w \in Seq(Nat) : Cut(w1, <<four>>, w) /\ Cut(x, w, y1)
      <4>1. Cut(qs[j], <<four>>, x)
        BY <3>4 DEF Cut
      <4> QED
        BY <1>1, <3>1, <3>3, <3>4, <4>1, CutBehindFirst
    <3> QED
      BY <3>7, <3>8, <3>9
  <2> QED
    BY <2>6, <2>7
<1> QED
  BY <1>8, <1>9, <1>10

-----------------------------------------------------------------------------
(* Lists of arguments, each a record; an object that was given up is the     *)
(* record of a null.                                                        *)

IsGiven(v) ==
  \/ v.kind = "array" /\ IsArray(v)
  \/ v.kind \in ElementKinds /\ IsValue(v, v.kind)
  \/ v = NoValue

ArgRaw(v) == CASE v.kind = "array" -> ArrayRaw(v) [] v.kind = "null" -> <<110>> [] OTHER -> Content(v)

LEMMA NoValueFacts ==
  /\ NoValue.kind = "null" /\ Sig("null") = 112 /\ KindOf(112) = "null"
  /\ \A raw : Build("null", raw) = NoValue
  /\ WholeArg(NoValue, NoValue) /\ BeginsArg(NoValue, NoValue)
<1>1. NoValue.kind = "null" /\ NoValue.text = <<>> /\ NoValue.extra = <<>>
  BY DEF NoValue
<1>2. Sig("null") = 112 /\ KindOf(112) = "null"
  BY DEF Sig, KindOf
<1>3. \A raw : Build("null", raw) = NoValue
  BY DEF Build, Leaf
<1>4. ShownAs("null", NoValue) = NoValue
  BY <1>1, FlattenEmpty DEF ShownAs, Plain, Bytes, NoValue
<1> QED
  BY <1>1, <1>2, <1>3, <1>4 DEF WholeArg, BeginsArg, AsIs, BeginsValue

LEMMA ArgKinds ==
  ASSUME NEW v, IsGiven(v)
  PROVE  \/ v.kind = "array" /\ IsArray(v) /\ ArgRaw(v) = ArrayRaw(v)
         \/ v.kind \in ElementKinds /\ IsValue(v, v.kind) /\ ArgRaw(v) = Content(v) /\ v.kind # "array"
         \/ v = NoValue /\ v.kind = "null" /\ ArgRaw(v) = <<110>>
BY NoValueFacts DEF IsGiven, ArgRaw, ElementKinds, ObjectKinds

LEMMA BuildWhole ==
  ASSUME NEW v, IsGiven(v)
  PROVE  WholeArg(Build(KindOf(Sig(v.kind)), ArgRaw(v)), v)
<1>1. CASE v.kind = "array" /\ IsArray(v) /\ ArgRaw(v) = ArrayRaw(v)
  BY <1>1, ArrayWhole, KindOfSig DEF Build
<1>2. CASE v.kind \in ElementKinds /\ IsValue(v, v.kind) /\ ArgRaw(v) = Content(v) /\ v.kind # "array"
  <2>1. KindOf(Sig(v.kind)) = v.kind
    BY <1>2, KindOfSig
  <2>2. Leaf(v.kind, Content(v)) = ShownAs(v.kind, v)
    BY <1>2, LeafWhole
  <2> QED
    BY <1>2, <2>1, <2>2 DEF Build, WholeArg, AsIs
<1>3. CASE v = NoValue /\ v.kind = "null" /\ ArgRaw(v) = <<110>>
  BY <1>3, NoValueFacts
<1> QED
  BY <1>1, <1>2, <1>3, ArgKinds

LEMMA BuildCut ==
  ASSUME NEW v, IsGiven(v), NEW r \in Seq(Nat), NEW y \in Seq(Nat), Cut(ArgRaw(v), r, y), y # <<>> => Safe(r, y)
  PROVE  BeginsArg(Build(KindOf(Sig(v.kind)), r), v)
<1>1. CASE v.kind = "array" /\ IsArray(v) /\ ArgRaw(v) = ArrayRaw(v)
  <2>1. Cut(ArrayRaw(v), r, y)
    BY <1>1
  <2>2. BeginsArray(BuildArray(r), v)
    BY <1>1, <2>1, ArrayCut
  <2> QED
    BY <1>1, <2>2, KindOfSig DEF Build, BeginsArg
<1>2. CASE v.kind \in ElementKinds /\ IsValue(v, v.kind) /\ ArgRaw(v) = Content(v) /\ v.kind # "array"
  <2>1. KindOf(Sig(v.kind)) = v.kind
    BY <1>2, KindOfSig
  <2>2. Cut(Content(v), r, y)
    BY <1>2
  <2>3. BeginsValue(Leaf(v.kind, r), v.kind, v)
    BY <1>2, <2>2, LeafCut
  <2> QED
    BY <1>2, <2>1, <2>3 DEF Build, BeginsArg
<1>3. CASE v = NoValue /\ v.kind = "null" /\ ArgRaw(v) = <<110>>
  BY <1>3, NoValueFacts
<1> QED
  BY <1>1, <1>2, <1>3, ArgKinds

LEMMA SigFacts ==
  ASSUME NEW v, IsGiven(v)
  PROVE  Sig(v.kind) \in Nat \ {1, 2, 4, 26} /\ Sig(v.kind) \notin Continuation
<1>1. v.kind \in ElementKinds \cup {"array"} \/ v.kind = "null"
  BY ArgKinds
<1>2. 112 \in Nat \ {1, 2, 4, 26} /\ 112 \notin Continuation
  BY DEF Continuation
<1> QED
  BY <1>1, <1>2, KindOfSig, NoValueFacts

LEMMA RawFacts ==
  ASSUME NEW v, IsGiven(v)
  PROVE  ArgRaw(v) \in Seq(Nat) /\ Without(ArgRaw(v), {2, 26})
<1> DEFINE B == {2, 26}
<1>1. CASE v.kind = "array" /\ IsArray(v) /\ ArgRaw(v) = ArrayRaw(v)
  <2> DEFINE h == <<Sig(v.of)>>
             qs == ArrayPieces(v)
             g == FlattenSeq(qs)
             s == ArrayRaw(v)
  <2>1. s \in Seq(Nat) /\ g \in Seq(Nat) /\ s = h \o g
    BY <1>1, ArrayRecordForm DEF ArrayRaw
  <2>2. h \in Seq(Nat) /\ Without(h, B)
    <3>1. Sig(v.of) \in Nat \ {1, 2, 4, 26}
      BY <1>1, ArrayFacts, KindOfSig
    <3> QED
      BY <3>1 DEF Without
  <2>3. qs \in Seq(Seq(Nat)) /\ Len(qs) = PartCount(v)
    BY <1>1, PartsLed DEF Led
  <2>4. ASSUME NEW i \in 1 .. Len(qs)
        PROVE  Without(qs[i], B)
    <3> DEFINE x == ArrayPart(v, i)
               four == <<4>>
    <3>1. qs[i] = four \o x /\ i \in 1 .. PartCount(v)
      BY <2>3 DEF ArrayPieces
    <3>2. x \in Seq(Nat) /\ Without(x, {1, 2, 4, 26})
      BY <1>1, <3>1, PartFacts
    <3>3. four \in Seq(Nat) /\ Without(four, B) /\ Without(x, B)
      BY <3>2 DEF Without
    <3> DEFINE q == qs[i]
    <3>4. q \in Seq(Nat)
      BY <2>3
    <3>5. Cut(q, four, x)
      BY <3>1 DEF Cut
    <3> HIDE DEF x, four, q, B
    <3>6. Without(q, B)
      BY <3>2, <3>3, <3>4, <3>5, FreeParts
    <3> QED
      BY <3>6 DEF q
  <2> HIDE DEF qs, B
  <2>5. Without(g, B)
    BY <2>3, <2>4, FlattenFree
  <2> HIDE DEF h, g
  <2>6. Cut(s, h, g)
    BY <2>1 DEF Cut
  <2> HIDE DEF s
  <2>7. Without(s, B)
    BY <2>1, <2>2, <2>5, <2>6, FreeParts
  <2> QED
    BY <1>1, <2>1, <2>7 DEF s, B
<1>2. CASE v.kind \in ElementKinds /\ IsValue(v, v.kind) /\ ArgRaw(v) = Content(v) /\ v.kind # "array"
  <2>1. Content(v) \in Seq(Nat) /\ Without(Content(v), {1, 2, 4, 26})
    BY <1>2, ContentFacts
  <2>2. Without(Content(v), B)
    BY <2>1 DEF Without
  <2> QED
    BY <1>2, <2>1, <2>2
<1>3. CASE v = NoValue /\ v.kind = "null" /\ ArgRaw(v) = <<110>>
  <2>1. <<110>> \in Seq(Nat) /\ Without(<<110>>, B)
    BY DEF Without
  <2> QED
    BY <1>3, <2>1
<1> QED
  BY <1>1, <1>2, <1>3, ArgKinds

\* The list in the form of its records.
ArgSigs(args) == [i \in 1 .. Len(args) |-> Sig(args[i].kind)]
ArgRaws(args) == [i \in 1 .. Len(args) |-> ArgRaw(args[i])]
ArgBodies(args) == [i \in 1 .. Len(args) |-> <<Sig(args[i].kind), 1>> \o ArgRaw(args[i])]
ArgPieces(args) == [i \in 1 .. Len(args) |-> (<<Sig(args[i].kind), 1>> \o ArgRaw(args[i])) \o <<2>>]

Given(args) == Len(args) \in Nat /\ \A i \in 1 .. Len(args) : IsGiven(args[i])

LEMMA ArgFrames ==
  ASSUME NEW args, Given(args)
  PROVE  /\ Ended(ArgPieces(args), ArgBodies(args), 2)
         /\ Bodies(ArgBodies(args), ArgSigs(args), ArgRaws(args)) /\ Len(ArgBodies(args)) = Len(args)
         /\ \A i \in 1 .. Len(args) : /\ Without(ArgPieces(args)[i], {26}) /\ ArgPieces(args)[i] # <<>>
                                      /\ ArgPieces(args)[i][1] \notin Continuation
<1> DEFINE n == Len(args)
           K(i) == Sig(args[i].kind)
           R(i) == ArgRaw(args[i])
<1>1. n \in Nat /\ \A i \in 1 .. n : /\ K(i) \in Nat \ {1, 2, 4, 26} /\ K(i) \notin Continuation
                                     /\ R(i) \in Seq(Nat) /\ Without(R(i), {2, 26})
  <2>1. n \in Nat /\ \A i \in 1 .. n : IsGiven(args[i])
    BY DEF Given
  <2>2. \A i \in 1 .. n : K(i) \in Nat \ {1, 2, 4, 26} /\ K(i) \notin Continuation
    BY <2>1, SigFacts
  <2>3. \A i \in 1 .. n : R(i) \in Seq(Nat) /\ Without(R(i), {2, 26})
    BY <2>1, RawFacts
  <2> QED
    BY <2>1, <2>2, <2>3
<1> DEFINE ks == ArgSigs(args)
           raws == ArgRaws(args)
           ps == ArgBodies(args)
           qs == ArgPieces(args)
<1>2. /\ ks = [i \in 1 .. n |-> K(i)] /\ raws = [i \in 1 .. n |-> R(i)]
      /\ ps = [i \in 1 .. n |-> <<K(i), 1>> \o R(i)] /\ qs = [i \in 1 .. n |-> (<<K(i), 1>> \o R(i)) \o <<2>>]
  BY DEF ArgSigs, ArgRaws, ArgBodies, ArgPieces
<1> HIDE DEF n, K, R, ks, raws, ps, qs
<1>3. ASSUME NEW i \in 1 .. n
      PROVE  LET b == <<K(i), 1>> \o R(i)
                 q == b \o <<2>>
             IN b \in Seq(Nat) /\ q \in Seq(Nat) /\ Without(b, {2}) /\ Without(R(i), {2}) /\ Without(q, {26})
                /\ q # <<>> /\ q[1] \notin Continuation
  <2> DEFINE k == K(i)
             r == R(i)
             h == <<k, 1>>
             b == h \o r
             stop == <<2>>
             q == b \o stop
  <2>1. k \in Nat \ {1, 2, 4, 26} /\ k \notin Continuation /\ r \in Seq(Nat) /\ Without(r, {2}) /\ Without(r, {26})
    BY <1>1 DEF Without
  <2> HIDE DEF r
  <2>2. h \in Seq(Nat) /\ Without(h, {2}) /\ Without(h, {26})
    BY <2>1 DEF Without
  <2>3. stop \in Seq(Nat) /\ Without(stop, {26})
    BY DEF Without
  <2>4. b \in Seq(Nat) /\ q \in Seq(Nat) /\ q[1] = k /\ q # <<>>
    BY <2>1
  <2>5. Cut(b, h, r) /\ Cut(q, b, stop)
    BY DEF Cut
  <2> HIDE DEF h, b, stop, q
  <2>6. Without(b, {2}) /\ Without(b, {26})
    BY <2>1, <2>2, <2>4, <2>5, FreeParts
  <2>7. Without(q, {26})
    BY <2>3, <2>4, <2>5, <2>6, FreeParts
  <2> QED
    BY <2>1, <2>4, <2>6, <2>7 DEF r, h, b, stop, q, k
<1>4. qs \in Seq(Seq(Nat)) /\ Len(qs) = n /\ \A i \in 1 .. n : qs[i] = (<<K(i), 1>> \o R(i)) \o <<2>>
  BY <1>1, <1>2, <1>3
<1>5. ps \in Seq(Seq(Nat)) /\ Len(ps) = n /\ \A i \in 1 .. n : ps[i] = <<K(i), 1>> \o R(i)
  BY <1>1, <1>2, <1>3
<1>6. ks \in Seq(Nat \ {1, 2}) /\ Len(ks) = n /\ \A i \in 1 .. n : ks[i] = K(i)
  BY <1>1, <1>2
<1>7. raws \in Seq(Seq(Nat)) /\ Len(raws) = n /\ \A i \in 1 .. n : raws[i] = R(i)
  BY <1>1, <1>2
<1>8. Ended(qs, ps, 2)
  BY <1>3, <1>4, <1>5 DEF Ended
<1>9. Bodies(ps, ks, raws)
  BY <1>3, <1>5, <1>6, <1>7 DEF Bodies
<1>10. \A i \in 1 .. n : Without(qs[i], {26}) /\ qs[i] # <<>> /\ qs[i][1] \notin Continuation
  BY <1>3, <1>4
<1> QED
  BY <1>5, <1>8, <1>9, <1>10 DEF n, ks, raws, ps, qs

\* What the log shows of a list.
ShowsBeginning(d, args) ==
  /\ Len(d) <= Len(args) /\ DOMAIN d = 1 .. Len(d)
  /\ \A i \in 1 .. Len(d) : IF i < Len(d) THEN WholeArg(d[i], args[i]) ELSE BeginsArg(d[i], args[i])

ShowsAll(d, args) ==
  Len(d) = Len(args) /\ DOMAIN d = 1 .. Len(d) /\ \A i \in 1 .. Len(d) : WholeArg(d[i], args[i])

LEMMA DecodeRecordTyped ==
  ASSUME NEW s \in Seq(Nat)
  PROVE  DecodeArgs(s) \in Seq(Values)
<1> DEFINE two == 2
<1>1. two \in Nat /\ 0 \in Nat
  OBVIOUS
<1> HIDE DEF two
<1>2. Split(s, two) \in Seq(Seq(Nat))
  BY <1>1, SplitByteAt
<1>3. Split(s, 2) \in Seq(Seq(Nat))
  BY <1>2 DEF two
<1> DEFINE ps == Split(s, 2)
<1>4. <<>> \in Seq(Nat) /\ ps \in Seq(Seq(Nat))
  BY <1>3
<1> HIDE DEF ps
<1>5. DecodeRecords(ps) \in Seq(Values)
  BY <1>4, DecodedSnoc
<1> QED
  BY <1>5 DEF DecodeArgs, ps

\* A cut list of arguments shows a beginning of the list, an uncut one all of it.
LEMMA ArgsShown ==
  ASSUME NEW args, Given(args), NEW p \in Seq(Nat), NEW v \in Seq(Nat),
         Cut(FlattenSeq(ArgPieces(args)), p, v), v # <<>> => Safe(p, v)
  PROVE  ShowsBeginning(DecodeArgs(p), args) /\ (v = <<>> => ShowsAll(DecodeArgs(p), args))
<1> DEFINE n == Len(args)
           d == DecodeArgs(p)
           ks == ArgSigs(args)
           raws == ArgRaws(args)
           ps == ArgBodies(args)
           qs == ArgPieces(args)
<1>1. n \in Nat /\ \A i \in 1 .. n : IsGiven(args[i])
  BY DEF Given
<1>2. \A i \in 1 .. n : ks[i] = Sig(args[i].kind) /\ raws[i] = ArgRaw(args[i]) /\ raws[i] \in Seq(Nat)
  <2>1. \A i \in 1 .. n : ks[i] = Sig(args[i].kind) /\ raws[i] = ArgRaw(args[i])
    BY DEF ArgSigs, ArgRaws
  <2>2. \A i \in 1 .. n : ArgRaw(args[i]) \in Seq(Nat)
    BY <1>1, RawFacts
  <2> QED
    BY <2>1, <2>2
<1>3. ASSUME NEW i \in 1 .. n
      PROVE  WholeArg(Build(KindOf(ks[i]), raws[i]), args[i]) /\ BeginsArg(Build(KindOf(ks[i]), raws[i]), args[i])
  <2> DEFINE a == args[i]
             r == raws[i]
  <2>1. IsGiven(a) /\ r \in Seq(Nat) /\ ks[i] = Sig(a.kind) /\ r = ArgRaw(a)
    BY <1>1, <1>2
  <2> HIDE DEF a, r, ks, raws
  <2>2. Cut(r, r, <<>>) /\ <<>> \in Seq(Nat)
    BY <2>1, CutEnds
  <2>3. WholeArg(Build(KindOf(Sig(a.kind)), ArgRaw(a)), a)
    BY <2>1, BuildWhole
  <2>4. BeginsArg(Build(KindOf(Sig(a.kind)), r), a)
    BY <2>1, <2>2, BuildCut
  <2> QED
    BY <2>1, <2>3, <2>4 DEF a, r
<1>4. ASSUME NEW i \in 1 .. n, NEW r \in Seq(Nat), BrokenFrom(p, v, raws[i], r), v # <<>>
      PROVE  BeginsArg(Build(KindOf(ks[i]), r), args[i])
  <2>1. PICK x \in Seq(Nat), y \in Seq(Nat), z \in Seq(Nat) : Cut(p, x, r) /\ Cut(raws[i], r, y) /\ Cut(v, y, z)
    BY <1>4 DEF BrokenFrom
  <2>2. Safe(r, y)
    BY <1>4, <2>1, SafeParts
  <2>3. IsGiven(args[i]) /\ ks[i] = Sig(args[i].kind) /\ Cut(ArgRaw(args[i]), r, y)
    BY <1>1, <1>2, <2>1
  <2>4. BeginsArg(Build(KindOf(Sig(args[i].kind)), r), args[i])
    BY <2>1, <2>2, <2>3, BuildCut
  <2> QED
    BY <2>3, <2>4
<1>5. Len(ps) = n /\ Ended(qs, ps, 2) /\ Bodies(ps, ks, raws)
  BY ArgFrames
<1>6. DOMAIN d = 1 .. Len(d) /\ Len(d) \in Nat
  <2>1. d \in Seq(Values)
    BY DecodeRecordTyped
  <2> HIDE DEF d
  <2> QED
    BY <2>1
<1> HIDE DEF n, d, ks, raws, ps, qs
<1>7. \/ v = <<>> /\ Decoded(d, ks, raws, n)
      \/ v # <<>> /\ \E m \in 0 .. n - 1 : Decoded(d, ks, raws, m)
      \/ v # <<>> /\ \E m \in 0 .. n - 1 : \E r \in Seq(Nat) :
           BrokenAt(d, ks, raws, m, r) /\ BrokenFrom(p, v, raws[m + 1], r)
  <2>1. Cut(FlattenSeq(qs), p, v)
    BY DEF qs
  <2> QED
    BY <1>5, <2>1, DecodeCut DEF d
<1>8. ASSUME NEW m \in 0 .. n, Decoded(d, ks, raws, m)
      PROVE  Len(d) = m /\ ShowsBeginning(d, args) /\ (m = n => ShowsAll(d, args))
  <2>1. Len(d) = m /\ \A i \in 1 .. m : d[i] = Build(KindOf(ks[i]), raws[i])
    BY <1>8 DEF Decoded
  <2>2. m <= n /\ \A i \in 1 .. m : i \in 1 .. n
    BY <1>1
  <2>3. \A i \in 1 .. m : d[i] = Build(KindOf(ks[i]), raws[i])
    BY <1>2, <2>1, <2>2
  <2>4. \A i \in 1 .. m : WholeArg(d[i], args[i]) /\ BeginsArg(d[i], args[i])
    BY <1>3, <2>2, <2>3
  <2> QED
    BY <1>6, <2>1, <2>2, <2>4 DEF ShowsBeginning, ShowsAll, n
<1>9. CASE v = <<>> /\ Decoded(d, ks, raws, n)
  <2>1. n \in 0 .. n
    BY <1>1
  <2> QED
    BY <1>8, <1>9, <2>1 DEF d
<1>10. CASE v # <<>> /\ \E m \in 0 .. n - 1 : Decoded(d, ks, raws, m)
  <2>1. PICK m \in 0 .. n - 1 : Decoded(d, ks, raws, m)
    BY <1>10
  <2>2. m \in 0 .. n
    BY <1>1
  <2> QED
    BY <1>8, <1>10, <2>1, <2>2 DEF d
<1>11. CASE v # <<>> /\ \E m \in 0 .. n - 1 : \E r \in Seq(Nat) :
           BrokenAt(d, ks, raws, m, r) /\ BrokenFrom(p, v, raws[m + 1], r)
  <2>1. PICK m \in 0 .. n - 1, r \in Seq(Nat) : BrokenAt(d, ks, raws, m, r) /\ BrokenFrom(p, v, raws[m + 1], r)
    BY <1>11
  <2> DEFINE j == m + 1
  <2>2. j \in 1 .. n /\ j <= n /\ m \in Nat /\ (\A i \in 1 .. m : i \in 1 .. n)
        /\ (\A i \in 1 .. j : i \in 1 .. m \/ i = j) /\ \A i \in 1 .. m : i < j
    BY <1>1
  <2>3. Len(d) = j /\ d[j] = Build(KindOf(ks[j]), r) /\ \A i \in 1 .. m : d[i] = Build(KindOf(ks[i]), raws[i])
    BY <2>1 DEF BrokenAt
  <2>4. BrokenFrom(p, v, raws[j], r)
    BY <2>1
  <2> HIDE DEF j
  <2>5. BrokenFrom(p, v, raws[j], r)
    BY <1>2, <2>2, <2>4
  <2>6. BeginsArg(d[j], args[j])
    <3>1. d[j] = Build(KindOf(ks[j]), r)
      BY <1>2, <2>2, <2>3
    <3> QED
      BY <1>4, <1>11, <2>1, <2>2, <2>5, <3>1
  <2>7. \A i \in 1 .. m : d[i] = Build(KindOf(ks[i]), raws[i])
    BY <1>2, <2>2, <2>3
  <2>8. \A i \in 1 .. m : WholeArg(d[i], args[i])
    BY <1>3, <2>2, <2>7
  <2>9. \A i \in 1 .. Len(d) : IF i < Len(d) THEN WholeArg(d[i], args[i]) ELSE BeginsArg(d[i], args[i])
    <3> TAKE i \in 1 .. Len(d)
    <3>1. i \in 1 .. m \/ i = j
      BY <2>2, <2>3
    <3>2. CASE i \in 1 .. m
      BY <2>2, <2>3, <2>8, <3>2
    <3>3. CASE i = j
      <4>1. ~(i < Len(d))
        BY <2>2, <2>3, <3>3
      <4> QED
        BY <2>6, <3>3, <4>1
    <3> QED
      BY <3>1, <3>2, <3>3
  <2>10. ShowsBeginning(d, args)
    BY <1>6, <2>2, <2>3, <2>9 DEF ShowsBeginning, n
  <2> QED
    BY <1>11, <2>10 DEF d
<1> QED
  BY <1>7, <1>9, <1>10, <1>11

-----------------------------------------------------------------------------
(* The cut and the substitution.                                            *)

LEMMA GreatestOf ==
  ASSUME NEW n \in Nat, NEW T \in SUBSET (0 .. n), T # {}
  PROVE  Max(T) \in T /\ \A y \in T : Max(T) >= y
<1> DEFINE U == {n - y : y \in T}
<1>1. U \in SUBSET Nat
  OBVIOUS
<1>0. PICK e \in T : TRUE
  OBVIOUS
<1>9. n - e \in U
  OBVIOUS
<1>2. PICK u \in U : \A z \in U : u <= z
  <2> HIDE DEF U
  <2>1. U # {}
    BY <1>9
  <2> QED
    BY <1>1, <2>1, LeastExists
<1>3. PICK x \in T : u = n - x
  BY <1>2
<1>4. \A y \in T : x >= y
  <2> TAKE y \in T
  <2>1. n - y \in U
    OBVIOUS
  <2>2. n - x <= n - y
    BY <1>2, <1>3, <2>1
  <2>3. x \in 0 .. n /\ y \in 0 .. n
    OBVIOUS
  <2> HIDE DEF U
  <2> QED
    BY <2>2, <2>3
<1>5. \E z \in T : \A y \in T : z >= y
  BY <1>4
<1> QED
  BY <1>5 DEF Max

\* The length that is left: no escape byte and no marker at the end, and no cut
\* character where there was one to go back to.
LEMMA SafeLengthFacts ==
  ASSUME NEW s \in Seq(Nat), NEW n \in Nat, n < Len(s)
  PROVE  /\ SafeLength(s, n) \in 0 .. n
         /\ SafeLength(s, n) # 0 => s[SafeLength(s, n)] \notin {5, 26}
         /\ s[1] \notin Continuation => s[SafeLength(s, n) + 1] \notin Continuation
<1> DEFINE Evens == {k \in 0 .. n : k = 0 \/ s[k + 1] \notin 128 .. 191}
           k == Max(Evens)
           Free2 == {j \in 0 .. k : j = 0 \/ s[j] \notin {Esc, Marker}}
           j == Max(Free2)
<1>1. SafeLength(s, n) = j
  BY DEF SafeLength
<1>2. k \in Evens
  <2>1. Evens \in SUBSET (0 .. n) /\ 0 \in Evens
    OBVIOUS
  <2> HIDE DEF Evens
  <2>2. Evens # {}
    BY <2>1
  <2> QED
    BY <2>1, <2>2, GreatestOf
<1>3. k \in 0 .. n /\ (k = 0 \/ s[k + 1] \notin Continuation)
  BY <1>2 DEF Continuation
<1> HIDE DEF k, Evens
<1>4. j \in Free2 /\ \A i \in Free2 : j >= i
  <2>1. Free2 \in SUBSET (0 .. k) /\ 0 \in Free2 /\ k \in Nat
    BY <1>3
  <2> HIDE DEF Free2
  <2>2. Free2 # {}
    BY <2>1
  <2> QED
    BY <2>1, <2>2, GreatestOf
<1>5. j \in 0 .. k /\ (j = 0 \/ s[j] \notin {5, 26})
  BY <1>4 DEF Esc, Marker
<1>6. \A i \in 0 .. k : (i = 0 \/ s[i] \notin {5, 26}) => j >= i
  BY <1>4 DEF Esc, Marker
<1> HIDE DEF j, Free2
<1>0. j \in Nat
  BY <1>3, <1>5
<1>7. ASSUME s[1] \notin Continuation
      PROVE  s[j + 1] \notin Continuation
  <2>1. CASE j = k
    <3>1. CASE k = 0
      <4>1. j + 1 = 1
        BY <2>1, <3>1
      <4> QED
        BY <1>7, <4>1
    <3>2. CASE k # 0
      <4>1. s[k + 1] \notin Continuation
        BY <1>3, <3>2
      <4> QED
        BY <2>1, <4>1
    <3> QED
      BY <3>1, <3>2
  <2>2. CASE j # k
    <3>1. j + 1 \in 0 .. k /\ j + 1 # 0 /\ ~(j >= j + 1)
      BY <1>3, <1>5, <2>2
    <3>2. s[j + 1] \in {5, 26}
      BY <1>6, <3>1
    <3>3. 5 \notin Continuation /\ 26 \notin Continuation
      BY DEF Continuation
    <3> QED
      BY <3>2, <3>3
  <2> QED
    BY <2>1, <2>2
<1>8. j \in 0 .. n
  BY <1>3, <1>5
<1> QED
  BY <1>1, <1>5, <1>7, <1>8

LEMMA RestFacts ==
  ASSUME NEW s \in Seq(Nat), NEW j \in 0 .. Len(s)
  PROVE  /\ SubSeq(s, j + 1, Len(s)) \in Seq(Nat) /\ Len(SubSeq(s, j + 1, Len(s))) = Len(s) - j
         /\ \A i \in 1 .. Len(s) - j : SubSeq(s, j + 1, Len(s))[i] = s[j + i]
<1>1. Len(s) \in Nat /\ j \in Nat
  OBVIOUS
<1> DEFINE t == SubSeq(s, j + 1, Len(s))
<1>2. t \in Seq(Nat) /\ Len(t) = Len(s) - j
  BY <1>1
<1>3. \A i \in 1 .. Len(s) - j : t[i] = s[j + i]
  BY <1>1
<1> QED
  BY <1>2, <1>3

SafeEnd(p) == p # <<>> => p[Len(p)] \notin {5, 26}

\* append_str keeps the string, or a beginning of it that a cut may end.
LEMMA CutToFacts ==
  ASSUME NEW s \in Seq(Nat), NEW limit \in Nat
  PROVE  /\ CutTo(s, limit) \in Seq(Nat)
         /\ \E v \in Seq(Nat) : /\ Cut(s, CutTo(s, limit), v)
                                /\ v # <<>> => SafeEnd(CutTo(s, limit))
                                /\ v # <<>> /\ s[1] \notin Continuation => Safe(CutTo(s, limit), v)
                                /\ Len(s) <= limit => v = <<>>
<1>1. CASE Len(s) <= limit
  <2>1. CutTo(s, limit) = s
    BY <1>1 DEF CutTo
  <2>2. Cut(s, s, <<>>) /\ <<>> \in Seq(Nat)
    BY CutEnds
  <2> QED
    BY <2>1, <2>2
<1>2. CASE ~(Len(s) <= limit)
  <2> DEFINE j == SafeLength(s, limit)
             p == SubSeq(s, 1, j)
             v == SubSeq(s, j + 1, Len(s))
  <2>1. limit < Len(s) /\ Len(s) \in Nat
    BY <1>2
  <2>2. /\ j \in 0 .. limit /\ (j # 0 => s[j] \notin {5, 26})
        /\ (s[1] \notin Continuation => s[j + 1] \notin Continuation)
    BY <2>1, SafeLengthFacts
  <2> HIDE DEF j
  <2>3. j \in 0 .. Len(s) /\ j + 1 \in 1 .. Len(s) /\ j \in Nat
    BY <2>1, <2>2
  <2>4. p \in Seq(Nat) /\ Len(p) = j /\ \A i \in 1 .. j : p[i] = s[i]
    BY <2>3, PrefixFacts
  <2>5. v \in Seq(Nat) /\ Len(v) = Len(s) - j /\ \A i \in 1 .. Len(s) - j : v[i] = s[j + i]
    BY <2>3, RestFacts DEF v
  <2>6. CutTo(s, limit) = p
    BY <1>2 DEF CutTo, j
  <2> HIDE DEF p, v
  <2>7. Cut(s, p, v)
    <3>0. p \in Seq(Nat) /\ v \in Seq(Nat)
      BY <2>4, <2>5
    <3>1. p \o v \in Seq(Nat) /\ Len(p \o v) = Len(p) + Len(v)
          /\ \A i \in 1 .. Len(p) + Len(v) : (p \o v)[i] = IF i <= Len(p) THEN p[i] ELSE v[i - Len(p)]
      BY <3>0, ConcatProperties
    <3>2. Len(p \o v) = Len(s)
      BY <2>1, <2>3, <2>4, <2>5, <3>1
    <3>3. \A i \in 1 .. Len(s) : (p \o v)[i] = s[i]
      <4> TAKE i \in 1 .. Len(s)
      <4>1. i \in 1 .. Len(p) + Len(v)
        BY <3>1, <3>2
      <4>2. CASE i <= j
        <5>1. i \in 1 .. j
          BY <2>3, <4>2
        <5> QED
          BY <2>4, <3>1, <4>1, <4>2, <5>1
      <4>3. CASE ~(i <= j)
        <5>1. i - j \in 1 .. Len(s) - j /\ j + (i - j) = i
          BY <2>1, <2>3, <4>3
        <5> QED
          BY <2>4, <2>5, <3>1, <4>1, <4>3, <5>1
      <4> QED
        BY <4>2, <4>3
    <3>4. p \o v = s
      BY <3>1, <3>2, <3>3, SeqEqual
    <3> QED
      BY <3>4 DEF Cut
  <2>8. SafeEnd(p)
    <3> SUFFICES ASSUME p # <<>> PROVE p[Len(p)] \notin {5, 26}
      BY DEF SafeEnd
    <3>1. j # 0 /\ j \in 1 .. j
      BY <2>3, <2>4, EmptySeq
    <3> QED
      BY <2>2, <2>4, <3>1
  <2>9. ASSUME s[1] \notin Continuation
        PROVE  Safe(p, v)
    <3>1. 1 \in 1 .. Len(s) - j /\ j + 1 = j + 1
      BY <2>1, <2>3
    <3>2. v[1] = s[j + 1]
      BY <2>5, <3>1
    <3> QED
      BY <2>2, <2>8, <2>9, <3>2 DEF Safe, SafeEnd
  <2> QED
    BY <1>2, <2>4, <2>5, <2>6, <2>7, <2>8, <2>9
<1> QED
  BY <1>1, <1>2

\* What the substitution makes of a string when no marker is left open.
SubstitutesTo(s, c, o) == Substituted(s, c) = [out |-> o, mark |-> FALSE]

LEMMA SubstituteIs ==
  ASSUME NEW s, NEW c, NEW o, SubstitutesTo(s, c, o)
  PROVE  Substitute(s, c) = o
<1>1. Substituted(s, c).out = o /\ ~Substituted(s, c).mark
  BY DEF SubstitutesTo
<1> QED
  BY <1>1 DEF Substitute

LEMMA SubstitutesNothing ==
  ASSUME NEW c \in Seq(Seq(Nat))
  PROVE  SubstitutesTo(<<>>, c, <<>>)
<1>1. <<>> \in Seq(Nat) /\ 0 \in Nat
  OBVIOUS
<1> QED
  BY <1>1, SubstitutedSnoc DEF SubstitutesTo

\* A string without a marker stays what it is.
LEMMA SubstitutesFree ==
  ASSUME NEW c \in Seq(Seq(Nat)), NEW u \in Seq(Nat), NEW o \in Seq(Nat), SubstitutesTo(u, c, o),
         NEW v0 \in Seq(Nat), Without(v0, {26})
  PROVE  SubstitutesTo(u \o v0, c, o \o v0)
<1> DEFINE P == {v \in Seq(Nat) : Without(v, {26}) => SubstitutesTo(u \o v, c, o \o v)}
<1>1. <<>> \in P
  <2>1. u \o <<>> = u /\ o \o <<>> = o /\ <<>> \in Seq(Nat)
    BY ConcatEmptySeq
  <2> QED
    BY <2>1
<1>2. ASSUME NEW v \in Seq(Nat), NEW b \in Nat, v \in P
      PROVE  Append(v, b) \in P
  <2>1. Append(v, b) \in Seq(Nat)
    OBVIOUS
  <2> SUFFICES ASSUME Without(Append(v, b), {26}) PROVE SubstitutesTo(u \o Append(v, b), c, o \o Append(v, b))
    BY <2>1
  <2> DEFINE w == Append(v, b)
  <2>2. w \in Seq(Nat) /\ Len(w) = Len(v) + 1 /\ w[Len(v) + 1] = b /\ Len(v) \in Nat
        /\ \A i \in 1 .. Len(v) : w[i] = v[i]
    OBVIOUS
  <2>3. b # 26 /\ Without(v, {26})
    <3>1. \A i \in 1 .. Len(w) : w[i] # 26
      BY DEF Without
    <3> HIDE DEF w
    <3>2. Len(v) + 1 \in 1 .. Len(w) /\ \A i \in 1 .. Len(v) : i \in 1 .. Len(w)
      BY <2>2
    <3> QED
      BY <2>2, <3>1, <3>2 DEF Without
  <2>4. SubstitutesTo(u \o v, c, o \o v)
    BY <1>2, <2>3
  <2> DEFINE x == u \o v
             z == o \o v
  <2>5. x \in Seq(Nat) /\ z \in Seq(Nat) /\ u \o w = Append(x, b) /\ o \o w = Append(z, b)
    OBVIOUS
  <2>6. Substituted(x, c) = [out |-> z, mark |-> FALSE]
    BY <2>4 DEF SubstitutesTo
  <2> HIDE DEF x, z, w
  <2>7. Substituted(Append(x, b), c) = SubstituteByte(Substituted(x, c), b, c)
    BY <2>5, SubstitutedSnoc
  <2>8. SubstituteByte([out |-> z, mark |-> FALSE], b, c) = [out |-> Append(z, b), mark |-> FALSE]
    BY <2>3 DEF SubstituteByte, Marker
  <2>9. SubstitutesTo(u \o w, c, o \o w)
    BY <2>5, <2>6, <2>7, <2>8 DEF SubstitutesTo
  <2> QED
    BY <2>9 DEF w
<1> HIDE DEF P
<1>3. v0 \in P
  BY <1>1, <1>2, SnocInduction
<1> QED
  BY <1>3 DEF P

\* A placeholder becomes what was rendered for its slot.
LEMMA SubstitutesSlot ==
  ASSUME NEW c \in Seq(Seq(Nat)), NEW u \in Seq(Nat), NEW o \in Seq(Nat), SubstitutesTo(u, c, o),
         NEW b \in 1 .. Len(c)
  PROVE  SubstitutesTo(u \o <<26, b>>, c, o \o c[b])
<1> DEFINE x == Append(u, 26)
<1>1. b \in Nat /\ b - 1 \in 0 .. Len(c) - 1
  OBVIOUS
<1>2. x \in Seq(Nat) /\ u \o <<26, b>> = Append(x, b)
  <2> DEFINE m == 26
  <2>1. m \in Nat
    OBVIOUS
  <2> HIDE DEF m
  <2>2. u \o <<m, b>> = Append(Append(u, m), b) /\ Append(u, m) \in Seq(Nat)
    BY <1>1, <2>1
  <2> QED
    BY <2>2 DEF m
<1>3. Substituted(x, c) = [out |-> o, mark |-> TRUE]
  <2> DEFINE m == 26
  <2>1. m \in Nat
    OBVIOUS
  <2> HIDE DEF m
  <2>2. Substituted(Append(u, m), c) = SubstituteByte(Substituted(u, c), m, c)
    BY <2>1, SubstitutedSnoc
  <2>3. SubstituteByte([out |-> o, mark |-> FALSE], m, c) = [out |-> o, mark |-> TRUE]
    BY DEF SubstituteByte, Marker, m
  <2> QED
    BY <2>2, <2>3 DEF SubstitutesTo, m
<1> HIDE DEF x
<1>4. Substituted(Append(x, b), c) = SubstituteByte(Substituted(x, c), b, c)
  BY <1>1, <1>2, SubstitutedSnoc
<1>5. SubstituteByte([out |-> o, mark |-> TRUE], b, c) = [out |-> o \o c[b], mark |-> FALSE]
  BY <1>1 DEF SubstituteByte
<1> QED
  BY <1>2, <1>3, <1>4, <1>5 DEF SubstitutesTo

-----------------------------------------------------------------------------
(* The arguments of a call: the log shows a beginning of them.              *)

LEMMA SubstituteFree ==
  ASSUME NEW c \in Seq(Seq(Nat)), NEW p \in Seq(Nat), Without(p, {26})
  PROVE  Substitute(p, c) = p
<1>1. <<>> \in Seq(Nat) /\ <<>> \o p = p
  OBVIOUS
<1>2. SubstitutesTo(<<>>, c, <<>>)
  BY SubstitutesNothing
<1>3. SubstitutesTo(<<>> \o p, c, <<>> \o p)
  BY <1>1, <1>2, SubstitutesFree
<1> QED
  BY <1>1, <1>3, SubstituteIs

\* An argument of a method call, and its record.
IsArgument(v) == IF v.kind = "array" THEN IsArray(v) ELSE v.kind \in ElementKinds /\ IsValue(v, v.kind)
ArgRecord(v) == IF v.kind = "array" THEN ArrayRecord(v) ELSE Record(v)
ArgPiece(v) == (<<Sig(v.kind), 1>> \o ArgRaw(v)) \o <<2>>

LEMMA ArgumentFacts ==
  ASSUME NEW v, IsArgument(v)
  PROVE  IsGiven(v) /\ ArgRecord(v) = ArgPiece(v)
<1>1. CASE v.kind = "array"
  <2>1. IsArray(v)
    BY <1>1 DEF IsArgument
  <2>2. IsGiven(v)
    BY <1>1, <2>1 DEF IsGiven
  <2>3. ArgRaw(v) = ArrayRaw(v)
    BY <1>1 DEF ArgRaw
  <2>4. ArrayRecord(v) = (<<Sig("array"), 1>> \o ArrayRaw(v)) \o <<2>>
    BY <2>1, ArrayRecordForm
  <2> QED
    BY <1>1, <2>2, <2>3, <2>4 DEF ArgRecord, ArgPiece
<1>2. CASE v.kind # "array"
  <2>1. v.kind \in ElementKinds /\ IsValue(v, v.kind)
    BY <1>2 DEF IsArgument
  <2>2. IsGiven(v)
    BY <2>1 DEF IsGiven
  <2>3. v.kind # "null"
    BY <2>1 DEF ElementKinds, ObjectKinds
  <2>4. ArgRaw(v) = Content(v)
    BY <1>2, <2>3 DEF ArgRaw
  <2> QED
    BY <1>2, <2>2, <2>4 DEF ArgRecord, ArgPiece, Record
<1> QED
  BY <1>1, <1>2

IsArguments(args) == args \in Seq(Range(args)) /\ \A v \in Range(args) : IsArgument(v)

LEMMA EncodedArguments ==
  ASSUME NEW args, IsArguments(args)
  PROVE  Given(args) /\ EncodeArgs(args) = FlattenSeq(ArgPieces(args))
<1>1. Len(args) \in Nat /\ DOMAIN args = 1 .. Len(args) /\ \A i \in 1 .. Len(args) : args[i] \in Range(args)
  BY DEF IsArguments
<1>2. \A i \in 1 .. Len(args) : IsArgument(args[i])
  BY <1>1 DEF IsArguments
<1>3. \A i \in 1 .. Len(args) : IsGiven(args[i]) /\ ArgRecord(args[i]) = ArgPiece(args[i])
  BY <1>2, ArgumentFacts
<1>4. Given(args)
  BY <1>1, <1>3 DEF Given
<1>5. [i \in DOMAIN args |-> ArgRecord(args[i])] = [i \in 1 .. Len(args) |-> ArgPiece(args[i])]
  BY <1>1, <1>3
<1>6. EncodeArgs(args) = FlattenSeq([i \in DOMAIN args |-> ArgRecord(args[i])])
  BY DEF EncodeArgs, ArgRecord
<1>7. ArgPieces(args) = [i \in 1 .. Len(args) |-> ArgPiece(args[i])]
  BY DEF ArgPieces, ArgPiece
<1> QED
  BY <1>4, <1>5, <1>6, <1>7

\* The string of a list, which a cut does not begin in the middle of a character.
LEMMA ListString ==
  ASSUME NEW args, Given(args)
  PROVE  /\ FlattenSeq(ArgPieces(args)) \in Seq(Nat) /\ Without(FlattenSeq(ArgPieces(args)), {26})
         /\ FlattenSeq(ArgPieces(args)) # <<>> => FlattenSeq(ArgPieces(args))[1] \notin Continuation
<1> DEFINE qs == ArgPieces(args)
<1>1. /\ qs \in Seq(Seq(Nat)) /\ Len(qs) = Len(args) /\ Len(args) \in Nat
      /\ \A i \in 1 .. Len(args) : Without(qs[i], {26}) /\ qs[i] # <<>> /\ qs[i][1] \notin Continuation
  <2>1. Ended(ArgPieces(args), ArgBodies(args), 2) /\ Len(ArgBodies(args)) = Len(args)
        /\ \A i \in 1 .. Len(args) : /\ Without(ArgPieces(args)[i], {26}) /\ ArgPieces(args)[i] # <<>>
                                      /\ ArgPieces(args)[i][1] \notin Continuation
    BY ArgFrames
  <2>2. qs \in Seq(Seq(Nat)) /\ Len(qs) = Len(args)
    BY <2>1 DEF Ended
  <2> QED
    BY <2>1, <2>2 DEF Given
<1> HIDE DEF qs
<1>2. FlattenSeq(qs) \in Seq(Nat)
  BY <1>1, FlattenLayout
<1>3. Without(FlattenSeq(qs), {26})
  BY <1>1, FlattenFree
<1>4. ASSUME FlattenSeq(qs) # <<>> PROVE FlattenSeq(qs)[1] \notin Continuation
  <2>1. Len(qs) # 0
    <3>1. qs = <<>> => FlattenSeq(qs) = <<>>
      BY FlattenEmpty
    <3> QED
      BY <1>1, <1>4, <3>1, EmptySeq
  <2>2. 1 \in 1 .. Len(args)
    BY <1>1, <2>1
  <2>3. qs[1] # <<>> /\ qs[1][1] \notin Continuation
    BY <1>1, <2>2
  <2> QED
    BY <1>1, <2>1, <2>3, HeadByte
<1> QED
  BY <1>2, <1>3, <1>4 DEF qs

Shows(d, args, whole) == ShowsBeginning(d, args) /\ (whole => ShowsAll(d, args))

\* The way of the arguments: cut to the room, substituted and decoded.
LEMMA ArgumentsShown ==
  ASSUME NEW args, IsArguments(args), NEW limit \in Nat, NEW c \in Seq(Seq(Nat))
  PROVE  Shows(DecodeArgs(Substitute(CutTo(EncodeArgs(args), limit), c)), args, Len(EncodeArgs(args)) <= limit)
<1> DEFINE s == FlattenSeq(ArgPieces(args))
<1>1. Given(args) /\ EncodeArgs(args) = s
  BY EncodedArguments
<1>2. s \in Seq(Nat) /\ Without(s, {26}) /\ (s # <<>> => s[1] \notin Continuation)
  BY <1>1, ListString
<1> DEFINE p == CutTo(s, limit)
<1>3. PICK v \in Seq(Nat) : /\ Cut(s, p, v)
                            /\ v # <<>> /\ s[1] \notin Continuation => Safe(p, v)
                            /\ Len(s) <= limit => v = <<>>
  <2> HIDE DEF s
  <2> QED
    BY <1>2, CutToFacts
<1>4. p \in Seq(Nat)
  <2> HIDE DEF s
  <2> QED
    BY <1>2, CutToFacts
<1> HIDE DEF p
<1>5. v # <<>> => Safe(p, v)
  <2>1. v # <<>> => s # <<>>
    <3> HIDE DEF s
    <3>1. s = <<>> => v = <<>>
      BY <1>2, <1>3, <1>4, CutFacts
    <3> QED
      BY <3>1
  <2> QED
    BY <1>2, <1>3, <2>1
<1>6. Without(p, {26})
  <2> HIDE DEF s
  <2> QED
    BY <1>2, <1>3, <1>4, FreeParts
<1>7. Substitute(p, c) = p
  BY <1>4, <1>6, SubstituteFree
<1>8. ShowsBeginning(DecodeArgs(p), args) /\ (v = <<>> => ShowsAll(DecodeArgs(p), args))
  BY <1>1, <1>3, <1>4, <1>5, ArgsShown
<1>9. Shows(DecodeArgs(p), args, Len(s) <= limit)
  BY <1>3, <1>8 DEF Shows
<1> QED
  BY <1>1, <1>7, <1>9 DEF p

-----------------------------------------------------------------------------
(* Records framed by hand: the escaped ones, when nothing had to be clipped  *)
(* or escaped.                                                              *)

LEMMA EmbeddedText ==
  ASSUME NEW t, IsText(t), Unescaping(t), Len(Bytes(t)) <= MaxEmbedded
  PROVE  Clip(Bytes(t)) = Escape(Bytes(t)) /\ Escape(Bytes(t)) = Bytes(t)
<1>1. t \in Seq(Seq(Nat)) /\ Bytes(t) \in Seq(Nat)
  BY TextFacts
<1>2. Len(t) \in 0 .. Len(t) /\ SubSeq(t, 1, Len(t)) = t
  BY <1>1
<1>3. Escape(Bytes(SubSeq(t, 1, Len(t)))) = Bytes(SubSeq(t, 1, Len(t)))
  BY <1>2, PlainText
<1>4. Clip(Bytes(t)) = Bytes(t)
  <2> DEFINE b == Bytes(t)
  <2>1. b \in Seq(Nat) /\ Len(b) <= MaxEmbedded
    BY <1>1
  <2> HIDE DEF b
  <2>2. SubSeq(b, 1, Len(b)) = b
    BY <2>1
  <2>3. Clip(b) = b
    BY <2>1, <2>2 DEF Clip
  <2> QED
    BY <2>3 DEF b
<1> QED
  BY <1>2, <1>3, <1>4

LEMMA EmbeddedValue ==
  ASSUME NEW v, IsArgument(v), v.kind # "array", Embeddable(v)
  PROVE  EmbeddedRecord(v) = Record(v)
<1>1. IsText(v.text) /\ IsText(v.extra)
  BY DEF IsArgument, IsValue
<1>2. /\ Unescaping(v.text) /\ Len(Bytes(v.text)) <= MaxEmbedded
      /\ Unescaping(v.extra) /\ Len(Bytes(v.extra)) <= MaxEmbedded
  BY DEF Embeddable, Unescaping
<1>3. /\ Clip(Bytes(v.text)) = Escape(Bytes(v.text)) /\ Escape(Bytes(v.text)) = Bytes(v.text)
      /\ Clip(Bytes(v.extra)) = Escape(Bytes(v.extra))
  BY <1>1, <1>2, EmbeddedText
<1>4. EmbeddedContent(v) = Content(v)
  BY <1>3 DEF EmbeddedContent, Content
<1> QED
  BY <1>4 DEF EmbeddedRecord, Record

LEMMA EmbeddedArguments ==
  ASSUME NEW args, IsArguments(args), \A v \in Range(args) : v.kind # "array" /\ Embeddable(v)
  PROVE  EncodeEmbedded(args) = EncodeArgs(args)
<1>1. \A i \in DOMAIN args : args[i] \in Range(args)
  BY DEF Range
<1>2. \A i \in DOMAIN args : IsArgument(args[i]) /\ args[i].kind # "array" /\ Embeddable(args[i])
  BY <1>1 DEF IsArguments
<1>3. \A i \in DOMAIN args : EmbeddedRecord(args[i]) = ArgRecord(args[i])
  BY <1>2, EmbeddedValue DEF ArgRecord
<1>4. EncodeArgs(args) = FlattenSeq([i \in DOMAIN args |-> ArgRecord(args[i])])
  BY DEF EncodeArgs, ArgRecord
<1>5. [i \in DOMAIN args |-> EmbeddedRecord(args[i])] = [i \in DOMAIN args |-> ArgRecord(args[i])]
  BY <1>3
<1> QED
  BY <1>4, <1>5 DEF EncodeEmbedded

-----------------------------------------------------------------------------
(* Placeholders: each stands for what was rendered for its slot.            *)

Stands(c, e, q) ==
  \/ e = q /\ Without(q, {26})
  \/ \E b \in 1 .. Len(c) : e = <<26, b>> /\ c[b] = q

LEMMA StandsSubstitutes ==
  ASSUME NEW c \in Seq(Seq(Nat)), NEW u \in Seq(Nat), NEW o \in Seq(Nat), SubstitutesTo(u, c, o),
         NEW e \in Seq(Nat), NEW q \in Seq(Nat), Stands(c, e, q)
  PROVE  SubstitutesTo(u \o e, c, o \o q)
<1>1. CASE e = q /\ Without(q, {26})
  <2>1. SubstitutesTo(u \o q, c, o \o q)
    BY <1>1, SubstitutesFree
  <2> QED
    BY <1>1, <2>1
<1>2. ASSUME NEW b \in 1 .. Len(c), e = <<26, b>>, c[b] = q
      PROVE  SubstitutesTo(u \o e, c, o \o q)
  <2>1. SubstitutesTo(u \o <<26, b>>, c, o \o c[b])
    BY SubstitutesSlot
  <2> QED
    BY <1>2, <2>1
<1> QED
  BY <1>1, <1>2 DEF Stands

\* Inside a piece a safe cut leaves the same beginning of what the piece stands for.
LEMMA StandsCut ==
  ASSUME NEW c, NEW e \in Seq(Nat), NEW q \in Seq(Nat), Stands(c, e, q), q # <<>>, q[1] \notin Continuation,
         NEW w \in Seq(Nat), NEW y \in Seq(Nat), Cut(e, w, y), y # <<>>, Safe(w, y)
  PROVE  Without(w, {26}) /\ \E x \in Seq(Nat) : Cut(q, w, x) /\ x # <<>> /\ Safe(w, x)
<1>1. CASE e = q /\ Without(q, {26})
  <2>1. Cut(q, w, y)
    BY <1>1
  <2>2. Without(w, {26})
    BY <1>1, <2>1, FreeParts
  <2> QED
    BY <2>1, <2>2
<1>2. ASSUME NEW b \in 1 .. Len(c), e = <<26, b>>, c[b] = q
      PROVE  w = <<>>
  <2> SUFFICES ASSUME w # <<>> PROVE FALSE
    OBVIOUS
  <2>1. Len(e) = Len(w) + Len(y) /\ \A i \in 1 .. Len(w) : e[i] = w[i]
    BY CutFacts
  <2>2. Len(e) = 2 /\ e[1] = 26
    BY <1>2
  <2>3. Len(w) \in Nat \ {0} /\ Len(y) \in Nat \ {0}
    OBVIOUS
  <2>4. Len(w) = 1
    <3> DEFINE i == Len(w)
               j == Len(y)
    <3>1. i \in Nat \ {0} /\ j \in Nat \ {0} /\ 2 = i + j
      BY <2>1, <2>2, <2>3
    <3> HIDE DEF i, j
    <3>2. i = 1
      BY <3>1
    <3> QED
      BY <3>2 DEF i
  <2>5. w[1] = e[1]
    BY <2>1, <2>4
  <2> QED
    BY <2>2, <2>4, <2>5 DEF Safe
<1>3. ASSUME w = <<>>
      PROVE  Without(w, {26}) /\ Cut(q, w, q) /\ Safe(w, q)
  <2>1. Cut(q, <<>>, q)
    BY CutEnds
  <2> QED
    BY <1>3, <2>1 DEF Without, Safe
<1> QED
  BY <1>1, <1>2, <1>3 DEF Stands

\* A string and what its pieces stand for.
AllStand(c, es, qs) ==
  /\ es \in Seq(Seq(Nat)) /\ qs \in Seq(Seq(Nat)) /\ Len(es) = Len(qs)
  /\ \A i \in 1 .. Len(qs) : /\ Stands(c, es[i], qs[i]) /\ qs[i] # <<>> /\ qs[i][1] \notin Continuation
                             /\ SafeEnd(qs[i])

LEMMA AllSubstitutes ==
  ASSUME NEW c \in Seq(Seq(Nat)), NEW es, NEW qs, AllStand(c, es, qs), NEW m0 \in 0 .. Len(qs)
  PROVE  SubstitutesTo(FlattenSeq(SubSeq(es, 1, m0)), c, FlattenSeq(SubSeq(qs, 1, m0)))
<1> DEFINE N == Len(qs)
           E(m) == FlattenSeq(SubSeq(es, 1, m))
           Q(m) == FlattenSeq(SubSeq(qs, 1, m))
           P == {m \in Nat : m <= N => SubstitutesTo(E(m), c, Q(m))}
<1>1. es \in Seq(Seq(Nat)) /\ qs \in Seq(Seq(Nat)) /\ Len(es) = N /\ N \in Nat
  BY DEF AllStand
<1>2. \A i \in 1 .. N : Stands(c, es[i], qs[i]) /\ es[i] \in Seq(Nat) /\ qs[i] \in Seq(Nat)
  BY DEF AllStand
<1>3. /\ \A k \in 0 .. N : E(k) \in Seq(Nat)
      /\ \A k \in 1 .. N : E(k) = E(k - 1) \o es[k]
      /\ E(0) = <<>>
  BY <1>1, FlattenFirst
<1>4. /\ \A k \in 0 .. N : Q(k) \in Seq(Nat)
      /\ \A k \in 1 .. N : Q(k) = Q(k - 1) \o qs[k]
      /\ Q(0) = <<>>
  BY <1>1, FlattenFirst
<1> HIDE DEF N, E, Q
<1>5. 0 \in P
  BY <1>3, <1>4, SubstitutesNothing
<1>6. ASSUME NEW m \in Nat, m \in P
      PROVE  m + 1 \in P
  <2> SUFFICES ASSUME m + 1 <= N PROVE SubstitutesTo(E(m + 1), c, Q(m + 1))
    OBVIOUS
  <2>1. PICK k \in 1 .. N : k = m + 1
    BY <1>1
  <2>2. k - 1 = m /\ m \in 0 .. N /\ m <= N
    BY <1>1, <2>1
  <2>3. E(k) = E(m) \o es[k] /\ Q(k) = Q(m) \o qs[k]
    BY <1>3, <1>4, <2>2
  <2>4. SubstitutesTo(E(m), c, Q(m)) /\ E(m) \in Seq(Nat) /\ Q(m) \in Seq(Nat)
    BY <1>3, <1>4, <1>6, <2>2
  <2>5. SubstitutesTo(E(m) \o es[k], c, Q(m) \o qs[k])
    BY <1>2, <2>4, StandsSubstitutes
  <2> QED
    BY <2>1, <2>3, <2>5
<1> HIDE DEF P
<1>7. m0 \in P
  BY <1>5, <1>6, SetInduction
<1>8. m0 \in Nat /\ m0 <= N
  BY <1>1 DEF N
<1> QED
  BY <1>7, <1>8 DEF P, E, Q

\* What is behind the first pieces.
LEMMA FlattenRest ==
  ASSUME NEW S, NEW qs0 \in Seq(Seq(S)), NEW k0 \in 0 .. Len(qs0)
  PROVE  \E r \in Seq(S) : Cut(FlattenSeq(qs0), FlattenSeq(SubSeq(qs0, 1, k0)), r)
<1> DEFINE Fine(qs) == \A k \in 0 .. Len(qs) : \E r \in Seq(S) : Cut(FlattenSeq(qs), FlattenSeq(SubSeq(qs, 1, k)), r)
           P == {qs \in Seq(Seq(S)) : Fine(qs)}
<1>1. <<>> \in P
  <2>1. <<>> \in Seq(Seq(S)) /\ <<>> \in Seq(S) /\ SubSeq(<<>>, 1, 0) = <<>> /\ Len(<<>>) = 0
    OBVIOUS
  <2>2. Cut(<<>>, <<>>, <<>>)
    BY <2>1, CutEnds
  <2>3. \A k \in 0 .. Len(<<>>) : k = 0
    BY <2>1
  <2>4. Fine(<<>>)
    BY <2>1, <2>2, <2>3, FlattenEmpty
  <2> HIDE DEF Fine
  <2> QED
    BY <2>1, <2>4
<1>2. ASSUME NEW qs \in Seq(Seq(S)), NEW x \in Seq(S), qs \in P
      PROVE  Append(qs, x) \in P
  <2> DEFINE gs == Append(qs, x)
             f == FlattenSeq(qs)
  <2>1. /\ gs \in Seq(Seq(S)) /\ Len(gs) = Len(qs) + 1 /\ Len(qs) \in Nat
        /\ f \in Seq(S) /\ FlattenSeq(gs) = f \o x
    BY FlattenSnoc
  <2>2. ASSUME NEW k \in 0 .. Len(gs)
        PROVE  \E r \in Seq(S) : Cut(FlattenSeq(gs), FlattenSeq(SubSeq(gs, 1, k)), r)
    <3>1. CASE k = Len(gs)
      <4>1. SubSeq(gs, 1, k) = gs
        BY <2>1, <3>1, PrefixEnds
      <4>2. FlattenSeq(gs) \in Seq(S) /\ <<>> \in Seq(S)
        BY <2>1
      <4>3. Cut(FlattenSeq(gs), FlattenSeq(gs), <<>>)
        BY <4>2, CutEnds
      <4> QED
        BY <4>1, <4>2, <4>3
    <3>2. CASE k # Len(gs)
      <4>1. k \in 0 .. Len(qs)
        BY <2>1, <3>2
      <4>2. SubSeq(gs, 1, k) = SubSeq(qs, 1, k)
        BY <4>1, FirstOfAppend
      <4> DEFINE g == FlattenSeq(SubSeq(qs, 1, k))
      <4>3. PICK r \in Seq(S) : Cut(f, g, r)
        BY <1>2, <4>1
      <4>4. g \in Seq(S)
        BY <4>1, FlattenFirst
      <4> HIDE DEF f, g
      <4>5. r \o x \in Seq(S) /\ (g \o r) \o x = g \o (r \o x)
        <5>1. r \o x \in Seq(S)
          BY ConcatProperties
        <5>2. (g \o r) \o x = g \o (r \o x)
          BY <4>4, ConcatAssociative
        <5> QED
          BY <5>1, <5>2
      <4>6. Cut(f \o x, g, r \o x)
        BY <4>3, <4>5 DEF Cut
      <4> QED
        BY <2>1, <4>2, <4>5, <4>6 DEF g
    <3> QED
      BY <3>1, <3>2
  <2>3. Fine(gs)
    BY <2>2
  <2> HIDE DEF Fine
  <2> QED
    BY <2>1, <2>3
<1> HIDE DEF P
<1>3. qs0 \in P
  BY <1>1, <1>2, SnocInduction
<1> QED
  BY <1>3 DEF P

LEMMA SafeConcat ==
  ASSUME NEW g \in Seq(Nat), NEW w \in Seq(Nat), SafeEnd(g), NEW x \in Seq(Nat), x # <<>>, NEW r \in Seq(Nat), Safe(w, x)
  PROVE  Safe(g \o w, x \o r)
<1> DEFINE p == g \o w
           v == x \o r
<1>1. p \in Seq(Nat) /\ Cut(p, g, w)
  BY ConcatProperties DEF Cut
<1>2. v \in Seq(Nat) /\ Cut(v, x, r)
  BY ConcatProperties DEF Cut
<1> HIDE DEF p, v
<1>3. ASSUME p # <<>> PROVE p[Len(p)] \notin {5, 26}
  <2>1. CASE w = <<>>
    <3>1. p = g
      BY <1>1, <2>1, CutFacts
    <3> QED
      BY <1>3, <3>1 DEF SafeEnd
  <2>2. CASE w # <<>>
    <3>1. Len(p) = Len(g) + Len(w) /\ \A i \in 1 .. Len(w) : p[Len(g) + i] = w[i]
      BY <1>1, CutFacts
    <3>2. Len(w) \in 1 .. Len(w)
      BY <2>2
    <3>3. p[Len(p)] = w[Len(w)]
      BY <3>1, <3>2
    <3> QED
      BY <2>2, <3>3 DEF Safe
  <2> QED
    BY <2>1, <2>2
<1>4. v[1] \notin Continuation
  <2>1. \A i \in 1 .. Len(x) : v[i] = x[i]
    BY <1>2, CutFacts
  <2>2. 1 \in 1 .. Len(x)
    OBVIOUS
  <2>3. v[1] = x[1]
    BY <2>1, <2>2
  <2> QED
    BY <2>3 DEF Safe
<1>5. Safe(p, v)
  BY <1>3, <1>4 DEF Safe
<1> QED
  BY <1>5 DEF p, v

\* Whole pieces end safely, as the last of them does.
LEMMA FirstEndSafe ==
  ASSUME NEW c, NEW es, NEW qs, AllStand(c, es, qs), NEW m \in 0 .. Len(qs)
  PROVE  SafeEnd(FlattenSeq(SubSeq(qs, 1, m)))
<1> DEFINE Q(k) == FlattenSeq(SubSeq(qs, 1, k))
<1>1. qs \in Seq(Seq(Nat)) /\ Len(qs) \in Nat
      /\ \A i \in 1 .. Len(qs) : qs[i] \in Seq(Nat) /\ qs[i] # <<>> /\ SafeEnd(qs[i])
  BY DEF AllStand
<1>2. /\ \A k \in 0 .. Len(qs) : Q(k) \in Seq(Nat)
      /\ \A k \in 1 .. Len(qs) : Q(k) = Q(k - 1) \o qs[k]
      /\ Q(0) = <<>>
  BY <1>1, FlattenFirst
<1> HIDE DEF Q
<1>3. CASE m = 0
  BY <1>2, <1>3 DEF SafeEnd, Q
<1>4. CASE m # 0
  <2> DEFINE g == Q(m - 1)
             q == qs[m]
             p == Q(m)
  <2>1. m \in 1 .. Len(qs) /\ m - 1 \in 0 .. Len(qs)
    BY <1>1, <1>4
  <2>2. g \in Seq(Nat) /\ q \in Seq(Nat) /\ p \in Seq(Nat) /\ q # <<>> /\ SafeEnd(q)
    BY <1>1, <1>2, <2>1
  <2>3. Cut(p, g, q)
    BY <1>2, <2>1 DEF Cut
  <2> HIDE DEF g, q, p
  <2>4. Len(p) = Len(g) + Len(q) /\ \A i \in 1 .. Len(q) : p[Len(g) + i] = q[i]
    BY <2>2, <2>3, CutFacts
  <2>5. Len(q) \in 1 .. Len(q)
    BY <2>2
  <2>6. p[Len(p)] = q[Len(q)]
    BY <2>4, <2>5
  <2>7. SafeEnd(p)
    BY <2>2, <2>6 DEF SafeEnd
  <2> QED
    BY <2>7 DEF p, Q
<1> QED
  BY <1>3, <1>4

\* Two halves of a sequence, of which the first ends in a piece that was cut.
LEMMA CutInPiece ==
  ASSUME NEW S, NEW s, NEW h \in Seq(S), NEW g \in Seq(S), NEW q \in Seq(S), NEW r \in Seq(S),
         Cut(s, h, r), Cut(h, g, q), NEW w \in Seq(S), NEW x \in Seq(S), Cut(q, w, x)
  PROVE  Cut(s, g \o w, x \o r) /\ g \o w \in Seq(S) /\ x \o r \in Seq(S)
<1>1. g \o w \in Seq(S) /\ x \o r \in Seq(S)
  BY ConcatProperties
<1>2. (g \o w) \o (x \o r) = (g \o (w \o x)) \o r
  OBVIOUS
<1> QED
  BY <1>1, <1>2 DEF Cut

\* A safe cut of a string with placeholders leaves, once they are substituted, a
\* safe cut of the string with what they stand for.
LEMMA StandsString ==
  ASSUME NEW c \in Seq(Seq(Nat)), NEW es, NEW qs, AllStand(c, es, qs), NEW p \in Seq(Nat), NEW v \in Seq(Nat),
         Cut(FlattenSeq(es), p, v), v # <<>> => Safe(p, v)
  PROVE  \E p2, v2 \in Seq(Nat) : /\ Cut(FlattenSeq(qs), p2, v2) /\ Substitute(p, c) = p2
                                  /\ v = <<>> => v2 = <<>>
                                  /\ v2 # <<>> => Safe(p2, v2)
<1> DEFINE E(k) == FlattenSeq(SubSeq(es, 1, k))
           Q(k) == FlattenSeq(SubSeq(qs, 1, k))
<1>1. es \in Seq(Seq(Nat)) /\ qs \in Seq(Seq(Nat)) /\ Len(es) = Len(qs) /\ Len(qs) \in Nat
  BY DEF AllStand
<1>2. \A i \in 1 .. Len(qs) : /\ Stands(c, es[i], qs[i]) /\ es[i] \in Seq(Nat) /\ qs[i] \in Seq(Nat)
                              /\ qs[i] # <<>> /\ qs[i][1] \notin Continuation
  BY DEF AllStand
<1>3. \A k \in 0 .. Len(qs) : E(k) \in Seq(Nat)
  BY <1>1, FlattenFirst
<1>4. E(Len(qs)) = FlattenSeq(es)
  BY <1>1, FlattenFirst
<1>5. /\ \A k \in 0 .. Len(qs) : Q(k) \in Seq(Nat)
      /\ \A k \in 1 .. Len(qs) : Q(k) = Q(k - 1) \o qs[k]
      /\ Q(Len(qs)) = FlattenSeq(qs)
  BY <1>1, FlattenFirst
<1>6. \A k \in 0 .. Len(qs) : SubstitutesTo(E(k), c, Q(k))
  BY AllSubstitutes
<1>7. \A k \in 0 .. Len(qs) : SafeEnd(Q(k))
  BY FirstEndSafe
<1>8. FlattenSeq(es) \in Seq(Nat) /\ FlattenSeq(qs) \in Seq(Nat)
  BY <1>1, <1>3, <1>4, <1>5
<1>9. CASE v = <<>>
  <2>1. p = FlattenSeq(es)
    BY <1>8, <1>9, CutEmpty
  <2>2. Len(qs) \in 0 .. Len(qs)
    BY <1>1
  <2> HIDE DEF E, Q
  <2>3. SubstitutesTo(p, c, FlattenSeq(qs))
    BY <1>4, <1>5, <1>6, <2>1, <2>2
  <2>4. Substitute(p, c) = FlattenSeq(qs)
    BY <2>3, SubstituteIs
  <2>5. Cut(FlattenSeq(qs), FlattenSeq(qs), <<>>) /\ <<>> \in Seq(Nat)
    BY <1>8, CutEnds
  <2> QED
    BY <1>8, <1>9, <2>4, <2>5
<1>10. CASE v # <<>>
  <2>1. PICK m \in 0 .. Len(es) - 1 : \E w, y, z \in Seq(Nat) : CutAt(es, p, v, m, w, y, z)
    BY <1>1, <1>10, FlattenCut
  <2>2. PICK w \in Seq(Nat), y \in Seq(Nat), z \in Seq(Nat) : CutAt(es, p, v, m, w, y, z)
    BY <2>1
  <2>3. PICK i \in 1 .. Len(qs) : i = m + 1
    BY <1>1, <2>1
  <2>4. m \in 0 .. Len(qs) /\ i - 1 = m /\ i \in 0 .. Len(qs)
    BY <1>1, <2>1, <2>3
  <2> DEFINE f == E(m)
             g == Q(m)
             e == es[i]
             q == qs[i]
             h == Q(i)
  <2>5. Cut(p, f, w) /\ Cut(e, w, y) /\ Cut(v, y, z) /\ y # <<>>
    BY <2>2, <2>3 DEF CutAt
  <2>6. /\ f \in Seq(Nat) /\ g \in Seq(Nat) /\ e \in Seq(Nat) /\ q \in Seq(Nat) /\ h \in Seq(Nat)
        /\ Stands(c, e, q) /\ q # <<>> /\ q[1] \notin Continuation
    BY <1>2, <1>3, <1>5, <2>4
  <2>7. SubstitutesTo(f, c, g) /\ SafeEnd(g)
    BY <1>6, <1>7, <2>4
  <2>8. Cut(h, g, q)
    BY <1>5, <2>4 DEF Cut
  <2>9. PICK r \in Seq(Nat) : Cut(FlattenSeq(qs), h, r)
    BY <1>1, <2>4, FlattenRest
  <2> HIDE DEF f, g, e, q, h, E, Q
  <2>10. Safe(w, y)
    BY <1>10, <2>5, <2>6, SafeParts
  <2>11. Without(w, {26}) /\ \E x \in Seq(Nat) : Cut(q, w, x) /\ x # <<>> /\ Safe(w, x)
    BY <2>5, <2>6, <2>10, StandsCut
  <2>12. PICK x \in Seq(Nat) : Cut(q, w, x) /\ x # <<>> /\ Safe(w, x)
    BY <2>11
  <2>13. SubstitutesTo(f \o w, c, g \o w)
    BY <2>6, <2>7, <2>11, SubstitutesFree
  <2>14. Substitute(p, c) = g \o w
    <3>1. p = f \o w
      BY <2>5 DEF Cut
    <3> QED
      BY <2>13, <3>1, SubstituteIs
  <2>15. Cut(FlattenSeq(qs), g \o w, x \o r) /\ g \o w \in Seq(Nat) /\ x \o r \in Seq(Nat)
    BY <2>6, <2>8, <2>9, <2>12, CutInPiece
  <2>16. Safe(g \o w, x \o r)
    BY <2>6, <2>7, <2>12, SafeConcat
  <2> QED
    BY <1>10, <2>14, <2>15, <2>16
<1> QED
  BY <1>9, <1>10

-----------------------------------------------------------------------------
(* The objects passed to another JNI function.                              *)

Passed(o, ahead) == [i \in 1 .. 2 |-> IF ahead + i <= MaxRefs THEN o ELSE NoValue]
PassedPieces(ahead) ==
  [i \in 1 .. 2 |-> IF ahead + i <= MaxRefs THEN Placeholder(ahead + i - 1) ELSE <<Sig("null"), 1, 110, 2>>]

\* The reader has the object at the slots of its placeholders.
RendersAt(c, ahead, o) ==
  /\ c \in Seq(Seq(Nat))
  /\ \A i \in 1 .. 2 : ahead + i <= MaxRefs => ahead + i \in 1 .. Len(c) /\ c[ahead + i] = ArgPiece(o)

IsObject(o) == o.kind \in ObjectKinds /\ IsValue(o, o.kind)

LEMMA PassedGiven ==
  ASSUME NEW ahead \in Nat, NEW o, IsObject(o)
  PROVE  Given(Passed(o, ahead)) /\ Len(Passed(o, ahead)) = 2
<1>1. IsGiven(o) /\ IsGiven(NoValue)
  BY DEF IsObject, IsGiven, ElementKinds
<1> DEFINE ts == Passed(o, ahead)
<1>2. Len(ts) = 2 /\ ts[1] \in {o, NoValue} /\ ts[2] \in {o, NoValue}
  BY DEF Passed
<1> HIDE DEF ts
<1>3. \A i \in 1 .. Len(ts) : i = 1 \/ i = 2
  BY <1>2
<1>4. \A i \in 1 .. Len(ts) : ts[i] \in {o, NoValue}
  BY <1>2, <1>3
<1>5. Given(ts)
  BY <1>1, <1>2, <1>4 DEF Given
<1> QED
  BY <1>2, <1>5 DEF ts

LEMMA PieceEndsSafe ==
  ASSUME NEW qs, NEW ps, Ended(qs, ps, 2), NEW i \in 1 .. Len(qs)
  PROVE  SafeEnd(qs[i]) /\ qs \in Seq(Seq(Nat)) /\ qs[i] \in Seq(Nat)
<1>1. qs \in Seq(Seq(Nat)) /\ ps \in Seq(Seq(Nat)) /\ Len(qs) = Len(ps)
  BY DEF Ended
<1>2. ps[i] \in Seq(Nat) /\ qs[i] \in Seq(Nat)
  BY <1>1
<1>3. qs[i] = ps[i] \o <<2>>
  BY <1>1 DEF Ended
<1> DEFINE s == ps[i]
           t == <<2>>
           g == s \o t
<1>4. s \in Seq(Nat) /\ t \in Seq(Nat) /\ Len(t) = 1 /\ t[1] = 2
  BY <1>2
<1> HIDE DEF s, t
<1>5. g \in Seq(Nat) /\ Cut(g, s, t)
  BY <1>4, ConcatProperties DEF Cut
<1> HIDE DEF g
<1>6. Len(g) = Len(s) + 1 /\ g[Len(s) + 1] = 2
  <2>0. s \in Seq(Nat) /\ t \in Seq(Nat) /\ g \in Seq(Nat) /\ Cut(g, s, t)
    BY <1>4, <1>5
  <2>1. Len(g) = Len(s) + Len(t) /\ \A j \in 1 .. Len(t) : g[Len(s) + j] = t[j]
    BY <2>0, CutFacts
  <2>2. 1 \in 1 .. Len(t)
    BY <1>4
  <2> QED
    BY <1>4, <2>1, <2>2
<1>7. SafeEnd(g)
  BY <1>6 DEF SafeEnd
<1> QED
  BY <1>1, <1>2, <1>3, <1>7 DEF g, s, t

IsAppended(t, s, c) == Len(t) = Len(s) + 1 /\ t[Len(s) + 1] = c /\ \A i \in 1 .. Len(s) : t[i] = s[i]

LEMMA AppendedIs ==
  ASSUME NEW S, NEW s \in Seq(S), NEW c \in S, NEW t \in Seq(S), IsAppended(t, s, c)
  PROVE  s \o <<c>> = t
<1>1. s \o <<c>> = Append(s, c)
  OBVIOUS
<1>2. /\ Append(s, c) \in Seq(S) /\ Len(Append(s, c)) = Len(s) + 1 /\ Len(s) \in Nat
      /\ Append(s, c)[Len(s) + 1] = c /\ \A i \in 1 .. Len(s) : Append(s, c)[i] = s[i]
  OBVIOUS
<1>3. \A i \in 1 .. Len(t) : Append(s, c)[i] = t[i]
  BY <1>2 DEF IsAppended
<1>4. Append(s, c) = t
  BY <1>2, <1>3, SeqEqual DEF IsAppended
<1> QED
  BY <1>1, <1>4

LEMMA NullRecord == (<<112, 1>> \o <<110>>) \o <<2>> = <<112, 1, 110, 2>>
<1> DEFINE a == 112
           b == 1
           c == 110
           d == 2
<1>1. a \in Nat /\ b \in Nat /\ c \in Nat /\ d \in Nat
  OBVIOUS
<1> HIDE DEF a, b, c, d
<1>2. (<<a, b>> \o <<c>>) \o <<d>> = <<a, b, c, d>>
  <2> DEFINE s == <<a, b>>
             x == <<a, b, c>>
             y == <<a, b, c, d>>
  <2>1. s \in Seq(Nat) /\ Len(s) = 2 /\ s[1] = a /\ s[2] = b
    BY <1>1
  <2>2. x \in Seq(Nat) /\ Len(x) = 3 /\ x[1] = a /\ x[2] = b /\ x[3] = c
    BY <1>1
  <2>3. y \in Seq(Nat) /\ Len(y) = 4 /\ y[1] = a /\ y[2] = b /\ y[3] = c /\ y[4] = d
    BY <1>1
  <2> HIDE DEF s, x, y
  <2>4. IsAppended(x, s, c)
    BY <2>1, <2>2 DEF IsAppended
  <2>5. IsAppended(y, x, d)
    <3>1. \A i \in 1 .. 3 : i = 1 \/ i = 2 \/ i = 3
      OBVIOUS
    <3> QED
      BY <2>2, <2>3, <3>1 DEF IsAppended
  <2>6. s \o <<c>> = x
    BY <1>1, <2>1, <2>2, <2>4, AppendedIs
  <2>7. x \o <<d>> = y
    BY <1>1, <2>2, <2>3, <2>5, AppendedIs
  <2> QED
    BY <2>6, <2>7 DEF s, x, y
<1> QED
  BY <1>2 DEF a, b, c, d

LEMMA PassedStand ==
  ASSUME NEW ahead \in Nat, NEW o, IsObject(o), NEW c, RendersAt(c, ahead, o)
  PROVE  AllStand(c, PassedPieces(ahead), ArgPieces(Passed(o, ahead)))
<1> DEFINE ts == Passed(o, ahead)
           es == PassedPieces(ahead)
           qs == ArgPieces(ts)
<1>1. Given(ts) /\ Len(ts) = 2
  BY PassedGiven
<1>2. Ended(qs, ArgBodies(ts), 2) /\ Len(ArgBodies(ts)) = 2
      /\ \A i \in 1 .. 2 : Without(qs[i], {26}) /\ qs[i] # <<>> /\ qs[i][1] \notin Continuation
  BY <1>1, ArgFrames
<1>3. Len(qs) = 2 /\ qs \in Seq(Seq(Nat))
  BY <1>2 DEF Ended
<1>4. \A i \in 1 .. 2 : SafeEnd(qs[i]) /\ qs[i] \in Seq(Nat)
  BY <1>2, <1>3, PieceEndsSafe
<1>5. MaxRefs \in Nat
  BY WireAssumption
<1>6. \A i \in 1 .. 2 : qs[i] = ArgPiece(ts[i])
  BY <1>1 DEF ArgPieces, ArgPiece
<1>7. ASSUME NEW i \in 1 .. 2
      PROVE  Stands(c, es[i], qs[i]) /\ es[i] \in Seq(Nat)
  <2>1. CASE ahead + i <= MaxRefs
    <3>1. ts[i] = o
      BY <2>1 DEF Passed
    <3> DEFINE b == ahead + i
    <3>2. es[i] = <<26, b>> /\ b \in Nat
      BY <2>1 DEF PassedPieces, Placeholder, Marker
    <3>3. b \in 1 .. Len(c) /\ c[b] = qs[i]
      BY <1>6, <2>1, <3>1 DEF RendersAt
    <3> HIDE DEF b, es, qs
    <3>4. Stands(c, es[i], qs[i])
      BY <3>2, <3>3 DEF Stands
    <3> QED
      BY <3>2, <3>4
  <2>2. CASE ~(ahead + i <= MaxRefs)
    <3>1. ts[i] = NoValue
      BY <2>2 DEF Passed
    <3>2. es[i] = <<112, 1, 110, 2>>
      BY <2>2, NoValueFacts DEF PassedPieces
    <3>3. ArgPiece(NoValue) = (<<112, 1>> \o <<110>>) \o <<2>>
      BY NoValueFacts DEF ArgPiece, ArgRaw
    <3>4. (<<112, 1>> \o <<110>>) \o <<2>> = <<112, 1, 110, 2>>
      BY NullRecord
    <3>5. es[i] = qs[i]
      BY <1>6, <3>1, <3>2, <3>3, <3>4
    <3> QED
      BY <1>2, <1>4, <3>5 DEF Stands
  <2> QED
    BY <2>1, <2>2
<1>8. Len(es) = 2 /\ es \in Seq(Seq(Nat))
  <2>1. es = [i \in 1 .. 2 |-> es[i]]
    BY DEF PassedPieces
  <2> HIDE DEF es
  <2>2. [i \in 1 .. 2 |-> es[i]] \in [1 .. 2 -> Seq(Nat)]
    BY <1>7
  <2> QED
    BY <2>1, <2>2
<1> HIDE DEF es, qs, ts
<1>9. AllStand(c, es, qs)
  BY <1>2, <1>3, <1>4, <1>7, <1>8 DEF AllStand
<1> QED
  BY <1>9 DEF es, qs, ts

LEMMA StandsHead ==
  ASSUME NEW c, NEW es, NEW qs, AllStand(c, es, qs), Len(qs) # 0
  PROVE  FlattenSeq(es) \in Seq(Nat) /\ FlattenSeq(es)[1] \notin Continuation
<1>1. es \in Seq(Seq(Nat)) /\ Len(es) # 0 /\ 1 \in 1 .. Len(qs)
  BY DEF AllStand
<1>2. Stands(c, es[1], qs[1]) /\ qs[1] # <<>> /\ qs[1][1] \notin Continuation
  BY <1>1 DEF AllStand
<1>3. es[1] # <<>> /\ es[1][1] \notin Continuation
  <2>1. CASE es[1] = qs[1]
    BY <1>2, <2>1
  <2>2. ASSUME NEW b, es[1] = <<26, b>>
        PROVE  es[1] # <<>> /\ es[1][1] \notin Continuation
    <3>1. <<26, b>> # <<>> /\ <<26, b>>[1] = 26
      OBVIOUS
    <3>2. 26 \notin Continuation
      BY DEF Continuation
    <3> QED
      BY <2>2, <3>1, <3>2
  <2> QED
    BY <1>2, <2>1, <2>2 DEF Stands
<1>4. FlattenSeq(es)[1] = es[1][1]
  BY <1>1, <1>3, HeadByte
<1>5. FlattenSeq(es) \in Seq(Nat)
  BY <1>1, FlattenLayout
<1> QED
  BY <1>3, <1>4, <1>5

\* The way of the passed objects: cut to the room, substituted and decoded.
LEMMA PassedShown ==
  ASSUME NEW ahead \in Nat, NEW o, IsObject(o), NEW c, RendersAt(c, ahead, o), NEW limit \in Nat
  PROVE  Shows(DecodeArgs(Substitute(CutTo(EncodePassed(2, ahead), limit), c)), Passed(o, ahead),
               Len(EncodePassed(2, ahead)) <= limit)
<1> DEFINE es == PassedPieces(ahead)
           qs == ArgPieces(Passed(o, ahead))
           s == FlattenSeq(es)
           p == CutTo(s, limit)
<1>1. EncodePassed(2, ahead) = s
  BY DEF EncodePassed, PassedPieces
<1>2. AllStand(c, es, qs) /\ Given(Passed(o, ahead)) /\ Len(Passed(o, ahead)) = 2
  BY PassedStand, PassedGiven
<1>3. Len(qs) = 2
  BY <1>2 DEF ArgPieces
<1>4. c \in Seq(Seq(Nat))
  BY DEF RendersAt
<1>5. s \in Seq(Nat) /\ s[1] \notin Continuation
  <2> HIDE DEF es, qs
  <2> QED
    BY <1>2, <1>3, StandsHead
<1>6. PICK v \in Seq(Nat) : /\ Cut(s, p, v)
                            /\ v # <<>> /\ s[1] \notin Continuation => Safe(p, v)
                            /\ Len(s) <= limit => v = <<>>
  <2> HIDE DEF s
  <2> QED
    BY <1>5, CutToFacts
<1>7. p \in Seq(Nat)
  <2> HIDE DEF s
  <2> QED
    BY <1>5, CutToFacts
<1> HIDE DEF p, es, qs
<1>8. PICK p2 \in Seq(Nat), v2 \in Seq(Nat) :
        /\ Cut(FlattenSeq(qs), p2, v2) /\ Substitute(p, c) = p2
        /\ v = <<>> => v2 = <<>>
        /\ v2 # <<>> => Safe(p2, v2)
  BY <1>2, <1>4, <1>5, <1>6, <1>7, StandsString
<1>9. ShowsBeginning(DecodeArgs(p2), Passed(o, ahead)) /\ (v2 = <<>> => ShowsAll(DecodeArgs(p2), Passed(o, ahead)))
  BY <1>2, <1>8, ArgsShown DEF qs
<1>10. Shows(DecodeArgs(p2), Passed(o, ahead), Len(s) <= limit)
  BY <1>6, <1>8, <1>9 DEF Shows
<1> QED
  BY <1>1, <1>8, <1>10 DEF p

-----------------------------------------------------------------------------
(* The object an event is about.                                            *)

LEMMA ContentParts ==
  ASSUME NEW o, NEW kind, IsValue(o, kind)
  PROVE  Unescape(Before(Content(o), 3)) = Bytes(o.text) /\ Unescape(After(Content(o), 3)) = Bytes(o.extra)
<1>1. IsText(o.text) /\ IsText(o.extra)
  BY ValueFacts
<1>2. Len(o.extra) \in 0 .. Len(o.extra) /\ SubSeq(o.extra, 1, Len(o.extra)) = o.extra
      /\ Len(o.text) \in 0 .. Len(o.text) /\ SubSeq(o.text, 1, Len(o.text)) = o.text
  BY <1>1, WholeText
<1>3. CASE o.extra = <<>>
  <2> DEFINE s == Escape(Bytes(o.text))
  <2>1. Content(o) = s
    BY <1>3, ContentFacts
  <2>2. s \in Seq(Nat) /\ Unescape(s) = Bytes(o.text) /\ Without(s, {1, 2, 3, 4, 26})
    BY <1>1, <1>2, FirstText
  <2> HIDE DEF s
  <2>3. Before(s, 3) = s /\ After(s, 3) = <<>>
    <3> DEFINE b == 3
    <3>1. b \in Nat /\ Without(s, {b})
      BY <2>2 DEF Without
    <3> HIDE DEF b
    <3>2. Before(s, b) = s /\ After(s, b) = <<>>
      BY <2>2, <3>1, NotFound
    <3> QED
      BY <3>2 DEF b
  <2>4. Bytes(o.extra) = <<>>
    BY <1>3, FlattenEmpty DEF Bytes
  <2> QED
    BY <2>1, <2>2, <2>3, <2>4, UnescapeEmpty
<1>4. CASE o.extra # <<>>
  <2> DEFINE n == Len(o.extra)
             r == Content(o)
             t == o.text
             x == o.extra
  <2>1. Cut(r, Escape(Bytes(t)), << 3 >> \o Escape(Bytes(x)))
    BY <1>4, ContentFacts
  <2>2. SubSeq(x, 1, n) = x /\ n \in 0 .. Len(x) /\ IsText(t) /\ IsText(x)
    BY <1>1, <1>2
  <2> HIDE DEF n, r, t, x
  <2>3. Cut(r, Escape(Bytes(t)), << 3 >> \o Escape(Bytes(SubSeq(x, 1, n))))
    BY <2>1, <2>2
  <2>4. Unescape(Before(r, 3)) = Bytes(t) /\ Unescape(After(r, 3)) = Bytes(SubSeq(x, 1, n))
    BY <2>2, <2>3, LeafExtra
  <2> QED
    BY <2>2, <2>4 DEF r, t, x
<1> QED
  BY <1>3, <1>4

Halves(s, p, v) ==
  /\ Len(s) = Len(p) + Len(v)
  /\ \A i \in 1 .. Len(p) : s[i] = p[i]
  /\ \A i \in 1 .. Len(v) : s[Len(p) + i] = v[i]

LEMMA CutHalves ==
  ASSUME NEW S, NEW s \in Seq(S), NEW p \in Seq(S), NEW v \in Seq(S), Cut(s, p, v)
  PROVE  Halves(s, p, v)
BY CutFacts DEF Halves

\* What is between the head of a chunk and its end.
LEMMA FramedBody ==
  ASSUME NEW h \in Seq(Nat), Len(h) = 2, NEW r \in Seq(Nat), NEW b \in Seq(Nat), Cut(b, h, r),
         NEW t \in Seq(Nat), Len(t) = 1, NEW c \in Seq(Nat), Cut(c, b, t)
  PROVE  /\ Len(c) = Len(r) + 3 /\ c[1] = h[1] /\ c[2] = h[2] /\ c[Len(c)] = t[1]
         /\ SubSeq(c, 3, Len(c) - 1) = r
<1>1. Len(b) = Len(h) + Len(r) /\ (\A i \in 1 .. Len(h) : b[i] = h[i]) /\ \A i \in 1 .. Len(r) : b[Len(h) + i] = r[i]
  <2>1. Halves(b, h, r)
    BY CutHalves
  <2> QED
    BY <2>1 DEF Halves
<1>2. Len(c) = Len(b) + Len(t) /\ (\A i \in 1 .. Len(b) : c[i] = b[i]) /\ \A i \in 1 .. Len(t) : c[Len(b) + i] = t[i]
  <2>1. Halves(c, b, t)
    BY CutHalves
  <2> QED
    BY <2>1 DEF Halves
<1>3. Len(r) \in Nat /\ Len(b) = Len(r) + 2 /\ Len(c) = Len(r) + 3
  BY <1>1, <1>2
<1>4. c[1] = h[1] /\ c[2] = h[2]
  <2>1. 1 \in 1 .. Len(h) /\ 2 \in 1 .. Len(h) /\ 1 \in 1 .. Len(b) /\ 2 \in 1 .. Len(b)
    BY <1>3
  <2> QED
    BY <1>1, <1>2, <2>1
<1>5. c[Len(c)] = t[1]
  <2>1. 1 \in 1 .. Len(t) /\ Len(c) = Len(b) + 1
    BY <1>3
  <2> QED
    BY <1>2, <2>1
<1>6. \A i \in 1 .. Len(r) : c[i + 2] = r[i]
  <2> TAKE i \in 1 .. Len(r)
  <2>1. i + 2 \in 1 .. Len(b) /\ Len(h) + i = i + 2
    BY <1>3
  <2> QED
    BY <1>1, <1>2, <2>1
<1> DEFINE N == Len(c) - 1
           s == SubSeq(c, 3, N)
<1>7. N = Len(r) + 2 /\ N \in Nat /\ N <= Len(c)
  BY <1>3
<1>8. s \in Seq(Nat) /\ Len(s) = Len(r) /\ \A i \in 1 .. Len(r) : s[i] = c[i + 2]
  <2>1. \A i \in 3 .. N : i \in 1 .. Len(c)
    BY <1>3, <1>7
  <2>2. \A i \in 3 .. N : c[i] \in Nat
    BY <2>1
  <2> HIDE DEF N
  <2>3. s \in Seq(Nat)
    BY <1>7, <2>2
  <2>4. Len(s) = Len(r)
    BY <1>3, <1>7, <2>2
  <2>5. \A i \in 1 .. Len(r) : s[i] = c[i + 2]
    BY <1>3, <1>7, <2>2
  <2> QED
    BY <2>3, <2>4, <2>5
<1> HIDE DEF s
<1>9. \A i \in 1 .. Len(s) : s[i] = r[i]
  BY <1>6, <1>8
<1>10. s = r
  BY <1>8, <1>9, SeqEqual
<1> QED
  BY <1>3, <1>4, <1>5, <1>10 DEF s

\* The reader takes a rendered object for what it is.
LEMMA ChunkParsed ==
  ASSUME NEW o, IsObject(o)
  PROVE  Record(o) \in Seq(Nat) /\ ParseChunk(Record(o)) = AsIs(o)
<1> DEFINE h == <<Sig(o.kind), 1>>
           r == Content(o)
           b == h \o r
           t == <<2>>
           c == b \o t
<1>1. Record(o) = c
  BY DEF Record
<1>2. Sig(o.kind) \in Nat /\ KindOf(Sig(o.kind)) = o.kind /\ o.kind \in ObjectKinds
  BY KindOfSig DEF IsObject, ElementKinds
<1>3. h \in Seq(Nat) /\ Len(h) = 2 /\ h[1] = Sig(o.kind) /\ h[2] = 1
  BY <1>2
<1>4. r \in Seq(Nat)
  BY ContentFacts DEF IsObject
<1>5. t \in Seq(Nat) /\ Len(t) = 1 /\ t[1] = 2
  OBVIOUS
<1> HIDE DEF h, r, t
<1>6. b \in Seq(Nat) /\ Cut(b, h, r)
  BY <1>3, <1>4, ConcatProperties DEF Cut
<1> HIDE DEF b
<1>7. c \in Seq(Nat) /\ Cut(c, b, t)
  <2>1. b \in Seq(Nat) /\ t \in Seq(Nat)
    BY <1>5, <1>6
  <2> QED
    BY <2>1, ConcatProperties DEF Cut
<1> HIDE DEF c
<1>8. /\ Len(c) = Len(r) + 3 /\ c[1] = h[1] /\ c[2] = h[2] /\ c[Len(c)] = t[1]
      /\ SubSeq(c, 3, Len(c) - 1) = r
  BY <1>3, <1>4, <1>5, <1>6, <1>7, FramedBody
<1>9. Last(c) = 2 /\ c[2] = 1 /\ KindOf(c[1]) = o.kind /\ o.kind \in ObjectKinds
  BY <1>2, <1>3, <1>5, <1>8 DEF Last
<1>10. ~(Len(c) < 2) /\ ~(Len(c) < 3)
  <2>1. Len(r) \in Nat
    BY <1>4
  <2> QED
    BY <1>8, <2>1
<1>11. ParseChunk(c) = Plain(KindOf(c[1]), Unescape(Before(r, 3)), Unescape(After(r, 3)))
  BY <1>8, <1>9, <1>10 DEF ParseChunk
<1>12. Unescape(Before(r, 3)) = Bytes(o.text) /\ Unescape(After(r, 3)) = Bytes(o.extra)
  BY ContentParts DEF IsObject, r
<1>13. ParseChunk(c) = AsIs(o)
  BY <1>9, <1>11, <1>12 DEF AsIs, ShownAs
<1> QED
  BY <1>1, <1>7, <1>13 DEF c, b

\* The way of a deferred object.
LEMMA SubjectShown ==
  ASSUME NEW o, IsObject(o), NEW ahead \in Nat, NEW c \in Seq(Seq(Nat)), ahead + 1 \in 1 .. Len(c),
         c[ahead + 1] = Record(o), NEW limit \in Nat, limit >= 2
  PROVE  ParseChunk(Substitute(CutTo(Placeholder(ahead), limit), c)) = AsIs(o)
<1> DEFINE b == ahead + 1
           s == <<26, b>>
<1>1. Placeholder(ahead) = s
  BY DEF Placeholder, Marker
<1>2. Len(s) = 2
  OBVIOUS
<1>3. CutTo(s, limit) = s
  BY <1>2 DEF CutTo
<1>4. Substitute(s, c) = c[b]
  <2>1. <<>> \in Seq(Nat) /\ b \in 1 .. Len(c)
    OBVIOUS
  <2>2. c[b] \in Seq(Nat) /\ b \in Nat
    BY <2>1
  <2>3. SubstitutesTo(<<>>, c, <<>>)
    BY SubstitutesNothing
  <2>4. SubstitutesTo(<<>> \o <<26, b>>, c, <<>> \o c[b])
    BY <2>1, <2>3, SubstitutesSlot
  <2>5. <<>> \o <<26, b>> = <<26, b>>
    <3> DEFINE m == 26
    <3>1. m \in Nat /\ b \in Nat
      BY <2>2
    <3> HIDE DEF m, b
    <3>2. <<m, b>> \in Seq(Nat)
      BY <3>1
    <3>3. <<>> \o <<m, b>> = <<m, b>>
      BY <3>2, ConcatEmptySeq
    <3> QED
      BY <3>3 DEF m
  <2>6. <<>> \o c[b] = c[b]
    BY <2>2, ConcatEmptySeq
  <2>7. SubstitutesTo(s, c, c[b])
    BY <2>4, <2>5, <2>6
  <2> QED
    BY <2>7, SubstituteIs
<1> QED
  BY <1>1, <1>3, <1>4, ChunkParsed

-----------------------------------------------------------------------------
(* The way of an event.                                                     *)

\* What WireAssumption says of the input.
InputFits ==
  /\ input.ahead \in Nat /\ input.limit \in Nat /\ input.limit >= 2
  /\ IsObject(input.subject) /\ IsArguments(input.args)
  /\ input.route = "embedded" => \A v \in Range(input.args) : v.kind # "array"

\* The object the event is about has a placeholder, which the reader expands.
Deferred == input.ahead < MaxRefs /\ input.route \notin {"field_receiver"} \cup Subjectless

CutArgs == CutTo(ArgsString, input.limit)
CutSubject == CutTo(Placeholder(input.ahead), input.limit)
ReadArgs == Substitute(CutArgs, RenderedRefs)
ReadSubject == Substitute(CutSubject, RenderedRefs)

EventIs(args, subject) ==
  event.args = args /\ (Deferred => event.str = subject /\ event.kind = "deferred")

\* Each stage has done to the strings what its step does, to what the hook encoded.
WireInv ==
  /\ InputFits
  /\ stage = "append" => EventIs(ArgsString, Placeholder(input.ahead))
  /\ stage = "receive" => EventIs(CutArgs, CutSubject)
  /\ stage = "decode" => EventIs(ReadArgs, ReadSubject)
  /\ stage = "done" => shown.args = DecodeArgs(ReadArgs) /\ (Deferred => shown.subject = AsIs(input.subject))

LEMMA NoArguments == IsArguments(<<>>)
<1>1. DOMAIN <<>> = {}
  OBVIOUS
<1>2. Range(<<>>) = {}
  BY <1>1 DEF Range
<1>3. <<>> \in Seq(Range(<<>>))
  OBVIOUS
<1> QED
  BY <1>2, <1>3 DEF IsArguments

LEMMA StrayRendered ==
  Record(Plain("class", <<<<120>>>>, <<>>)) \in Seq(Nat)
<1> DEFINE t == <<<<120>>>>
           o == Plain("class", t, <<>>)
           s == Escape(Bytes(t))
           h == <<Sig(o.kind), 1>>
           e == <<2>>
<1>1. t \in Seq(Seq(Nat))
  OBVIOUS
<1>2. Bytes(t) \in Seq(Nat)
  <2> HIDE DEF t
  <2> QED
    BY <1>1, FlattenLayout DEF Bytes
<1>3. s \in Seq(Nat) /\ 0 \in Nat
  BY <1>2, EscapeSnoc
<1>4. o.kind = "class" /\ o.text = t /\ o.extra = <<>>
  BY DEF Plain
<1>5. Sig(o.kind) \in Nat
  BY <1>4 DEF Sig
<1>6. h \in Seq(Nat)
  BY <1>5
<1>7. e \in Seq(Nat)
  OBVIOUS
<1> HIDE DEF t, o, s, h, e
<1>8. Content(o) = s \o <<>>
  BY <1>4 DEF Content, s
<1>9. Content(o) \in Seq(Nat)
  BY <1>3, <1>8
<1>10. (h \o Content(o)) \o e \in Seq(Nat)
  BY <1>6, <1>7, <1>9
<1> QED
  BY <1>10 DEF Record, o, t, h, e

\* The reader renders the object at the slots that the event may have given it.
LEMMA RendersSlots ==
  ASSUME InputFits
  PROVE  /\ RenderedRefs \in Seq(Seq(Nat))
         /\ input.route = "passed" => RendersAt(RenderedRefs, input.ahead, input.subject)
         /\ Deferred => /\ input.ahead + 1 \in 1 .. Len(RenderedRefs)
                        /\ RenderedRefs[input.ahead + 1] = Record(input.subject)
<1> DEFINE o == input.subject
           a == input.ahead
           own == CASE input.route = "passed" -> 2 [] input.route = "embedded" -> 0 [] OTHER -> 1
           n == IF a + own < MaxRefs THEN a + own ELSE MaxRefs
           stray == Plain("class", <<<<120>>>>, <<>>)
           c == [i \in 1 .. n |-> Record(IF i <= a THEN stray ELSE o)]
<1>1. RenderedRefs = c
  BY DEF RenderedRefs
<1>2. MaxRefs \in Nat
  BY WireAssumption
<1>3. a \in Nat /\ IsObject(o)
  BY DEF InputFits
<1>4. n \in Nat
  <2>1. own \in {0, 1, 2}
    OBVIOUS
  <2> HIDE DEF own, a
  <2> QED
    BY <1>2, <1>3, <2>1
<1>5. Record(o) \in Seq(Nat) /\ Record(stray) \in Seq(Nat)
  BY <1>3, ChunkParsed, StrayRendered
<1>6. ArgPiece(o) = Record(o)
  <2>1. o.kind # "array" /\ o.kind \in ElementKinds /\ IsValue(o, o.kind)
    BY <1>3 DEF IsObject, ElementKinds, ObjectKinds
  <2>2. IsArgument(o) /\ ArgRecord(o) = Record(o)
    BY <2>1 DEF IsArgument, ArgRecord
  <2> QED
    BY <2>2, ArgumentFacts
<1> HIDE DEF o, a, stray
<1>7. c \in Seq(Seq(Nat)) /\ Len(c) = n
  <2> HIDE DEF n
  <2>1. \A i \in 1 .. n : Record(IF i <= a THEN stray ELSE o) \in Seq(Nat)
    BY <1>5
  <2>2. c \in [1 .. n -> Seq(Nat)]
    BY <2>1
  <2> QED
    BY <1>4, <2>2
<1>8. \A i \in 1 .. n : ~(i <= a) => c[i] = Record(o)
  OBVIOUS
<1>9. ASSUME input.route = "passed"
      PROVE  RendersAt(c, a, o)
  <2>1. own = 2
    BY <1>9
  <2>2. ASSUME NEW i \in 1 .. 2, a + i <= MaxRefs
        PROVE  a + i \in 1 .. Len(c) /\ c[a + i] = ArgPiece(o)
    <3>1. a + i \in 1 .. n /\ ~(a + i <= a)
      BY <1>2, <1>3, <2>1, <2>2
    <3> QED
      BY <1>6, <1>7, <1>8, <3>1
  <2> HIDE DEF c
  <2> QED
    BY <1>7, <2>2 DEF RendersAt
<1>10. ASSUME Deferred
       PROVE  a + 1 \in 1 .. Len(c) /\ c[a + 1] = Record(o)
  <2>1. own = 1 /\ a < MaxRefs
    BY <1>10 DEF Deferred, Subjectless, a
  <2>2. a + 1 \in 1 .. n /\ ~(a + 1 <= a)
    BY <1>2, <1>3, <2>1
  <2> QED
    BY <1>7, <1>8, <2>2
<1> HIDE DEF c
<1> QED
  BY <1>1, <1>7, <1>9, <1>10 DEF a, o

LEMMA WireInvInit ==
  ASSUME WireInit
  PROVE  WireInv
<1>1. stage = "hook"
  BY DEF WireInit
<1>2. InputFits
  <2> DEFINE i == input
  <2>1. \/ i \in [route : Routes, subject : Objects, args : {<<>>}, ahead : Aheads, limit : Limits]
        \/ i \in [route : {"receiver"}, subject : Objects, args : Arguments, ahead : Aheads, limit : Limits]
        \/ i \in [route : {"embedded"}, subject : Objects, args : Embeddings, ahead : Aheads, limit : Limits]
    BY DEF WireInit
  <2>2. /\ i.subject \in Objects /\ i.ahead \in Aheads /\ i.limit \in Limits
        /\ i.args = <<>> \/ i.args \in Arguments
        /\ i.route = "embedded" => i.args \in Embeddings
    BY <2>1 DEF Embeddings, Routes
  <2> HIDE DEF i
  <2>3. i.ahead \in Nat /\ i.limit \in Nat /\ i.limit >= 2
    BY <2>2, WireAssumption
  <2>4. IsObject(i.subject)
    BY <2>2, WireAssumption DEF IsObject
  <2>5. IsArguments(i.args)
    <3>1. CASE i.args = <<>>
      BY <3>1, NoArguments
    <3>2. CASE i.args \in Arguments
      BY <3>2, WireAssumption DEF IsArguments, IsArgument, ElementKinds
    <3> QED
      BY <2>2, <3>1, <3>2
  <2>6. i.route = "embedded" => \A v \in Range(i.args) : v.kind # "array"
    BY <2>2 DEF Embeddings
  <2> QED
    BY <2>3, <2>4, <2>5, <2>6 DEF i, InputFits
<1> QED
  BY <1>1, <1>2 DEF WireInv

\* What the strings become depends on the input alone.
LEMMA SameInput ==
  ASSUME input' = input
  PROVE  /\ InputFits' = InputFits /\ Deferred' = Deferred /\ ArgsString' = ArgsString
         /\ CutArgs' = CutArgs /\ CutSubject' = CutSubject
         /\ ReadArgs' = ReadArgs /\ ReadSubject' = ReadSubject
<1>1. ArgsString' = ArgsString
  BY DEF ArgsString
<1>2. RenderedRefs' = RenderedRefs
  BY DEF RenderedRefs
<1>3. CutArgs' = CutArgs /\ CutSubject' = CutSubject
  BY <1>1 DEF CutArgs, CutSubject
<1>4. ReadArgs' = ReadArgs /\ ReadSubject' = ReadSubject
  BY <1>2, <1>3 DEF ReadArgs, ReadSubject
<1>5. InputFits' = InputFits /\ Deferred' = Deferred
  BY DEF InputFits, Deferred
<1> QED
  BY <1>1, <1>3, <1>4, <1>5

LEMMA WireInvNext ==
  ASSUME WireInv, [WireNext]_wireVars
  PROVE  WireInv'
<1>1. InputFits
  BY DEF WireInv
<1>2. CASE HookEncodes
  <2>1. stage' = "append" /\ input' = input
    BY <1>2 DEF HookEncodes
  <2>2. event'.args = ArgsString
    BY <1>2 DEF HookEncodes
  <2>3. ASSUME Deferred
        PROVE  event'.str = Placeholder(input.ahead) /\ event'.kind = "deferred"
    <3>1. input.ahead < MaxRefs /\ input.route \notin Subjectless
      BY <2>3 DEF Deferred
    <3>2. FillStrings(input.route, input.subject, input.ahead)
            = [kind |-> "deferred", str |-> Placeholder(input.ahead), extra |-> <<>>]
      BY <3>1 DEF FillStrings
    <3>3. event' = [args |-> ArgsString, str |-> Placeholder(input.ahead), extra |-> <<>>, kind |-> "deferred"]
      BY <1>2, <3>1, <3>2 DEF HookEncodes
    <3> QED
      BY <3>3
  <2>4. EventIs(ArgsString, Placeholder(input.ahead))'
    BY <2>1, <2>2, <2>3, SameInput DEF EventIs
  <2> QED
    BY <1>1, <2>1, <2>4, SameInput DEF WireInv
<1>3. CASE AppendStrings
  <2>1. stage' = "receive" /\ input' = input
    BY <1>3 DEF AppendStrings
  <2>2. EventIs(ArgsString, Placeholder(input.ahead))
    BY <1>3 DEF WireInv, AppendStrings
  <2>3. /\ event'.args = CutTo(event.args, input.limit) /\ event'.str = CutTo(event.str, input.limit)
        /\ event'.kind = event.kind
    BY <1>3 DEF AppendStrings, OnStrings
  <2>4. event'.args = CutArgs /\ (Deferred => event'.str = CutSubject /\ event'.kind = "deferred")
    BY <2>2, <2>3 DEF EventIs, CutArgs, CutSubject
  <2>5. EventIs(CutArgs, CutSubject)'
    BY <2>1, <2>4, SameInput DEF EventIs
  <2> QED
    BY <1>1, <2>1, <2>5, SameInput DEF WireInv
<1>4. CASE ReaderSubstitutes
  <2>1. stage' = "decode" /\ input' = input
    BY <1>4 DEF ReaderSubstitutes
  <2>2. EventIs(CutArgs, CutSubject)
    BY <1>4 DEF WireInv, ReaderSubstitutes
  <2>3. /\ event'.args = Substitute(event.args, RenderedRefs) /\ event'.str = Substitute(event.str, RenderedRefs)
        /\ event'.kind = event.kind
    BY <1>4 DEF ReaderSubstitutes, OnStrings
  <2>4. event'.args = ReadArgs /\ (Deferred => event'.str = ReadSubject /\ event'.kind = "deferred")
    BY <2>2, <2>3 DEF EventIs, ReadArgs, ReadSubject
  <2>5. EventIs(ReadArgs, ReadSubject)'
    BY <2>1, <2>4, SameInput DEF EventIs
  <2> QED
    BY <1>1, <2>1, <2>5, SameInput DEF WireInv
<1>5. CASE ReaderDecodes
  <2>1. stage' = "done" /\ input' = input
        /\ shown' = [args |-> DecodeArgs(event.args), subject |-> DecodeSubject(input.route, event)]
    BY <1>5 DEF ReaderDecodes
  <2>2. EventIs(ReadArgs, ReadSubject)
    BY <1>5 DEF WireInv, ReaderDecodes
  <2>3. shown'.args = DecodeArgs(ReadArgs)
    BY <2>1, <2>2 DEF EventIs
  <2>4. ASSUME Deferred
        PROVE  shown'.subject = AsIs(input.subject)
    <3>1. event.kind = "deferred" /\ input.route # "field_receiver" /\ event.str = ReadSubject
      BY <2>2, <2>4 DEF EventIs, Deferred
    <3>2. RenderedRefs \in Seq(Seq(Nat)) /\ input.ahead + 1 \in 1 .. Len(RenderedRefs)
          /\ RenderedRefs[input.ahead + 1] = Record(input.subject)
      BY <1>1, <2>4, RendersSlots
    <3>3. ParseChunk(ReadSubject) = AsIs(input.subject)
      BY <1>1, <3>2, SubjectShown DEF InputFits, ReadSubject, CutSubject
    <3>4. AsIs(input.subject).kind \in ObjectKinds
      BY <1>1 DEF InputFits, IsObject, AsIs, ShownAs, Plain
    <3>5. DecodeSubject(input.route, event) = AsIs(input.subject)
      BY <3>1, <3>3, <3>4 DEF DecodeSubject
    <3> QED
      BY <2>1, <3>5
  <2> QED
    BY <1>1, <2>1, <2>3, <2>4, SameInput DEF WireInv
<1>6. CASE UNCHANGED wireVars
  <2>1. input' = input /\ event' = event /\ shown' = shown /\ stage' = stage
    BY <1>6 DEF wireVars
  <2>2. /\ EventIs(ArgsString, Placeholder(input.ahead))' = EventIs(ArgsString, Placeholder(input.ahead))
        /\ EventIs(CutArgs, CutSubject)' = EventIs(CutArgs, CutSubject)
        /\ EventIs(ReadArgs, ReadSubject)' = EventIs(ReadArgs, ReadSubject)
    BY <2>1, SameInput DEF EventIs
  <2> QED
    BY <2>1, <2>2, SameInput DEF WireInv
<1> QED
  BY <1>2, <1>3, <1>4, <1>5, <1>6 DEF WireNext

LEMMA WireInvAlways == WireSpec => []WireInv
<1>1. WireInit => WireInv
  BY WireInvInit
<1>2. WireInv /\ [WireNext]_wireVars => WireInv'
  BY WireInvNext
<1> QED
  BY <1>1, <1>2, PTL DEF WireSpec

\* In the end the log shows a beginning of the arguments, and all of them when the
\* string had room.
LEMMA DoneShows ==
  ASSUME WireInv, stage = "done", Carried
  PROVE  Shows(shown.args, TrueArgs, Uncut)
<1>1. InputFits /\ shown.args = DecodeArgs(ReadArgs)
  BY DEF WireInv
<1>2. RenderedRefs \in Seq(Seq(Nat)) /\ (input.route = "passed" => RendersAt(RenderedRefs, input.ahead, input.subject))
  BY <1>1, RendersSlots
<1>3. CASE input.route = "passed"
  <2>1. ArgsString = EncodePassed(2, input.ahead) /\ TrueArgs = Passed(input.subject, input.ahead)
    BY <1>3 DEF ArgsString, TrueArgs, Passed
  <2> DEFINE a == input.ahead
             o == input.subject
             n == input.limit
             c == RenderedRefs
  <2>2. a \in Nat /\ IsObject(o) /\ n \in Nat /\ RendersAt(c, a, o)
    BY <1>1, <1>2, <1>3 DEF InputFits
  <2> HIDE DEF a, o, n, c
  <2>3. Shows(DecodeArgs(Substitute(CutTo(EncodePassed(2, a), n), c)), Passed(o, a), Len(EncodePassed(2, a)) <= n)
    BY <2>2, PassedShown
  <2> QED
    BY <1>1, <2>1, <2>3 DEF a, o, n, c, ReadArgs, CutArgs, Uncut
<1>4. CASE input.route # "passed"
  <2>1. ArgsString = EncodeArgs(input.args) /\ TrueArgs = input.args
    <3>1. CASE input.route = "embedded"
      <4>1. ArgsString = EncodeEmbedded(input.args) /\ TrueArgs = input.args
        BY <3>1 DEF ArgsString, TrueArgs
      <4>2. IsArguments(input.args) /\ \A v \in Range(input.args) : v.kind # "array" /\ Embeddable(v)
        BY <1>1, <3>1 DEF InputFits, Carried
      <4> QED
        BY <4>1, <4>2, EmbeddedArguments
    <3>2. CASE input.route # "embedded"
      BY <1>4, <3>2 DEF ArgsString, TrueArgs
    <3> QED
      BY <3>1, <3>2
  <2> DEFINE args == input.args
             n == input.limit
             c == RenderedRefs
  <2>2. IsArguments(args) /\ n \in Nat /\ c \in Seq(Seq(Nat))
    BY <1>1, <1>2 DEF InputFits
  <2> HIDE DEF args, n, c
  <2>3. Shows(DecodeArgs(Substitute(CutTo(EncodeArgs(args), n), c)), args, Len(EncodeArgs(args)) <= n)
    BY <2>2, ArgumentsShown
  <2> QED
    BY <1>1, <2>1, <2>3 DEF args, n, c, ReadArgs, CutArgs, Uncut
<1> QED
  BY <1>3, <1>4

LEMMA WireInvShows ==
  ASSUME WireInv
  PROVE  FittingIsShown /\ CutKeepsFraming
<1> SUFFICES ASSUME stage = "done", Carried PROVE FittingIsShown /\ CutKeepsFraming
  BY DEF FittingIsShown, CutKeepsFraming
<1>1. ShowsBeginning(shown.args, TrueArgs) /\ (Uncut => ShowsAll(shown.args, TrueArgs))
  BY DoneShows DEF Shows
<1>2. Deferred => shown.subject = AsIs(input.subject)
  BY DEF WireInv
<1>3. CutKeepsFraming
  BY <1>1 DEF CutKeepsFraming, ShowsBeginning
<1>4. FittingIsShown
  <2> SUFFICES ASSUME Uncut
               PROVE  /\ Len(shown.args) = Len(TrueArgs)
                      /\ \A i \in DOMAIN shown.args : WholeArg(shown.args[i], TrueArgs[i])
                      /\ input.ahead < MaxRefs /\ input.route \notin {"field_receiver"} \cup Subjectless =>
                           shown.subject = AsIs(input.subject)
    BY DEF FittingIsShown
  <2>1. ShowsAll(shown.args, TrueArgs)
    BY <1>1
  <2> QED
    BY <1>2, <2>1 DEF ShowsAll, Deferred
<1> QED
  BY <1>3, <1>4

\* The encoders that escape (vis_encode_typed_args, vis_encode_array_items,
\* renderRefChunk), the cut of append_str and the decoding of value.go agree: what
\* has room in the event reaches the log as it is, whatever characters the texts
\* hold and whichever slot of the sidecar the object got.  The arguments that six
\* hooks of hooks.c frame by hand, without an escape, reach it when they are not
\* clipped and hold no framing byte (Carried); the run embedded_text shows that
\* they do not otherwise.
THEOREM WhatFitsIsShown == WireSpec => []FittingIsShown
<1>1. WireInv => FittingIsShown
  BY WireInvShows
<1> QED
  BY <1>1, WireInvAlways, PTL

\* Wherever append_str cuts the arguments, value.go shows the first of them whole and
\* a beginning of the last: no half of an escape pair, of a placeholder or of a
\* character, and no argument that was not there.  Of arguments framed by hand this
\* says so only for those that Carried names; their own clip is no cut of append_str.
THEOREM CutsKeepFraming == WireSpec => []CutKeepsFraming
<1>1. WireInv => CutKeepsFraming
  BY WireInvShows
<1> QED
  BY <1>1, WireInvAlways, PTL
=============================================================================
