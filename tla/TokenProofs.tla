----------------------------- MODULE TokenProofs -----------------------------
(***************************************************************************)
(* What the exchange of tokens does to any experts of any number of        *)
(* assignments and ranks: packing and cutting give every rank its part,    *)
(* the parts arrive in the order of the ranks, the experts' answers come   *)
(* back in the order in which the tokens were packed, and the experts are  *)
(* given as many tokens as were sent to them.  The contract benchmark and  *)
(* the timing controls share these facts.                                  *)
(***************************************************************************)
EXTENDS TokenExchange, ProofBasics

(* Ranks are numbers, each but the first with one before it.               *)
LEMMA SourceNumbers ==
  /\ NumSources \in Nat \ {0} /\ Source = 1 .. NumSources
  /\ \A d \in Source : d \in Nat /\ d - 1 \in Nat /\ d - 1 + 1 = d /\ d <= NumSources
  /\ \A i \in Nat : i + 1 <= NumSources <=> i + 1 \in Source
BY PlanAssumption DEF Source

(* The blocks of a buffer start where the ones before them end.            *)
LEMMA BlockOffsets ==
  ASSUME NEW splits \in [Source -> Nat]
  PROVE  \E f \in [Nat -> Nat] :
           /\ f[0] = 0 /\ \A d \in Source : f[d] = f[d - 1] + splits[d]
           /\ \A i, j \in Nat : i <= j => f[i] <= f[j]
           /\ \A buffer : Blocks(buffer, splits) = [d \in Source |-> SubSeq(buffer, f[d - 1] + 1, f[d])]
<1> DEFINE size == [i \in Nat |-> IF i + 1 \in Source THEN splits[i + 1] ELSE 0]
<1>1. size \in [Nat -> Nat]
  OBVIOUS
<1>2. NumSources \in Nat \ {0} /\ Source = 1 .. NumSources
  BY SourceNumbers
<1>3. \A d \in Source : d - 1 \in Nat /\ d \in Nat /\ size[d - 1] = splits[d]
  BY <1>2
<1> HIDE DEF size
<1>4. PICK f \in [Nat -> Nat] :
        /\ f[0] = 0 /\ \A i \in Nat : f[i + 1] = f[i] + size[i]
        /\ \A i, j \in Nat : i <= j => f[i] <= f[j]
  BY <1>1, RunningSum
<1>5. ASSUME NEW d \in Source
      PROVE  f[d] = f[d - 1] + splits[d]
  <2>1. d - 1 \in Nat /\ d - 1 + 1 = d /\ size[d - 1] = splits[d]
    <3>1. d \in Int
      BY <1>2
    <3> QED  BY <1>3, <3>1
  <2>2. f[d - 1 + 1] = f[d - 1] + size[d - 1]
    BY <1>4, <2>1
  <2> QED  BY <2>1, <2>2
<1> DEFINE G == [d \in 1 .. NumSources + 1 |-> f[d - 1]]
<1>6. G = [d \in 1 .. NumSources + 1 |-> IF d = 1 THEN 0 ELSE G[d - 1] + splits[d - 1]]
  <2>1. ASSUME NEW d \in 1 .. NumSources + 1
        PROVE  f[d - 1] = IF d = 1 THEN 0 ELSE G[d - 1] + splits[d - 1]
    <3>1. CASE d = 1
      BY <1>4, <3>1
    <3>2. CASE d # 1
      <4>1. d - 1 \in Source /\ d - 1 \in 1 .. NumSources + 1 /\ G[d - 1] = f[d - 1 - 1]
        BY <1>2, <3>2
      <4> QED  BY <1>5, <3>2, <4>1
    <3> QED  BY <3>1, <3>2
  <2> QED  BY <2>1
<1> DEFINE Offset(b) == [d \in 1 .. NumSources + 1 |-> IF d = 1 THEN 0 ELSE b[d - 1] + splits[d - 1]]
           before == CHOOSE b : b = Offset(b)
<1>7. before = Offset(before)
  <2>1. \E b : b = Offset(b)
    BY <1>6
  <2> HIDE DEF Offset
  <2> QED  BY <2>1
<1>8. \A d \in 1 .. NumSources + 1 : before[d] = IF d = 1 THEN 0 ELSE before[d - 1] + splits[d - 1]
  <2> HIDE DEF before
  <2> QED  BY <1>7
<1> HIDE DEF before
<1> DEFINE Same == {i \in Nat : i < NumSources + 1 => before[i + 1] = f[i]}
<1>9. Same = Nat
  <2>1. 0 \in Same
    <3>1. 1 \in 1 .. NumSources + 1
      BY <1>2
    <3>2. before[1] = 0
      BY <1>8, <3>1
    <3> QED  BY <1>4, <3>2
  <2>2. ASSUME NEW i \in Same
        PROVE  i + 1 \in Same
    <3> SUFFICES ASSUME i + 1 < NumSources + 1  PROVE before[i + 1 + 1] = f[i + 1]
      OBVIOUS
    <3>1. i \in Nat /\ before[i + 1] = f[i]
      BY <1>2
    <3>2. /\ i + 1 + 1 \in 1 .. NumSources + 1 /\ i + 1 + 1 # 1 /\ i + 1 + 1 - 1 = i + 1
          /\ i + 1 \in Source /\ i + 1 - 1 = i
      BY <1>2, <3>1
    <3>3. before[i + 1 + 1] = before[i + 1] + splits[i + 1]
      BY <1>8, <3>2
    <3>4. f[i + 1] = f[i] + splits[i + 1]
      <4>1. \A d \in Source : f[d] = f[d - 1] + splits[d]
        BY <1>5
      <4> QED  BY <3>2, <4>1
    <3> QED  BY <3>1, <3>3, <3>4
  <2>3. Same \in SUBSET Nat
    OBVIOUS
  <2> HIDE DEF Same
  <2> QED  BY <2>1, <2>2, <2>3, SetInduction
<1>10. \A d \in Source : before[d] = f[d - 1] /\ before[d + 1] = f[d]
  <2> SUFFICES ASSUME NEW d \in Source
               PROVE  before[d] = f[d - 1] /\ before[d + 1] = f[d]
    OBVIOUS
  <2>1. d - 1 \in Same /\ d \in Same /\ d - 1 < NumSources + 1 /\ d < NumSources + 1 /\ d - 1 + 1 = d
    <3>1. d \in Nat /\ d - 1 \in Nat /\ d < NumSources + 1 /\ d - 1 < NumSources + 1 /\ d - 1 + 1 = d
      BY <1>2
    <3> HIDE DEF Same
    <3> QED  BY <1>9, <3>1
  <2> QED  BY <2>1
<1>11. ASSUME NEW buffer
       PROVE  Blocks(buffer, splits) = [d \in Source |-> SubSeq(buffer, f[d - 1] + 1, f[d])]
  <2>1. Blocks(buffer, splits) = [d \in Source |-> SubSeq(buffer, before[d] + 1, before[d + 1])]
    BY DEF Blocks, before
  <2> QED  BY <1>10, <2>1
<1> QED  BY <1>4, <1>5, <1>11

(* A block is as long as the split vector says, whatever the buffer.       *)
LEMMA BlockLength ==
  ASSUME NEW splits \in [Source -> Nat], NEW d \in Source, NEW buffer
  PROVE  Len(Blocks(buffer, splits)[d]) = splits[d]
<1>1. PICK f \in [Nat -> Nat] :
        /\ f[d] = f[d - 1] + splits[d]
        /\ Blocks(buffer, splits) = [c \in Source |-> SubSeq(buffer, f[c - 1] + 1, f[c])]
  BY BlockOffsets
<1>2. f[d - 1] \in Nat /\ splits[d] \in Nat
  BY SourceNumbers
<1>3. ASSUME NEW a \in Nat, NEW k \in Nat
      PROVE  Len(SubSeq(buffer, a + 1, a + k)) = k
  OBVIOUS
<1>4. Len(SubSeq(buffer, f[d - 1] + 1, f[d - 1] + splits[d])) = splits[d]
  BY <1>2, <1>3
<1> QED  BY <1>1, <1>4

(* A split vector counts assignments. *)
LEMMA SplitsCount ==
  ASSUME NEW routing, NEW s, NEW batch, NEW l
  PROVE  SplitVector(FlatIds(routing, s, batch, l)) \in [Source -> Nat]
<1> DEFINE ids == FlatIds(routing, s, batch, l)
<1>1. IsFiniteSet(Assignments)
  <2>1. BatchSize \in Nat /\ TopK \in Nat
    BY PlanAssumption, ExchangeAssumption
  <2>2. 1 \in Int /\ BatchSize * TopK \in Int
    BY <2>1
  <2> QED  BY <2>2, FS_Interval DEF Assignments
<1>2. DOMAIN ids = Assignments
  BY DEF FlatIds
<1> HIDE DEF ids
<1>3. ASSUME NEW d \in Source
      PROVE  Cardinality({a \in DOMAIN ids : HomeOf(ids[a]) = d}) \in Nat
  <2>1. {a \in DOMAIN ids : HomeOf(ids[a]) = d} \subseteq Assignments
    BY <1>2
  <2> QED  BY <1>1, <2>1, FS_Subset, FS_CardinalityType
<1> QED  BY <1>3 DEF SplitVector, ids

-----------------------------------------------------------------------------
(* The way of a token.                                                     *)

(* A sequence of sequences, end to end: f says where each one begins.      *)
Begins(f, size) ==
  /\ f \in [Nat -> Nat] /\ f[0] = 0
  /\ \A d \in Source : size[d] \in Nat /\ f[d] = f[d - 1] + size[d]

(* Two sequences end to end keep their elements in order.                  *)
LEMMA ConcatAt ==
  ASSUME NEW X
  PROVE  \A s, t \in Seq(X) :
           /\ s \o t \in Seq(X) /\ Len(s \o t) = Len(s) + Len(t)
           /\ \A i \in 1 .. Len(s) : (s \o t)[i] = s[i]
           /\ \A i \in 1 .. Len(t) : (s \o t)[Len(s) + i] = t[i]
OBVIOUS

(* Appending keeps what was there and adds one element.                    *)
LEMMA AppendAt ==
  ASSUME NEW X, NEW s \in Seq(X), NEW x \in X
  PROVE  /\ Append(s, x) \in Seq(X) /\ Len(Append(s, x)) = Len(s) + 1
         /\ \A i \in 1 .. Len(s) : Append(s, x)[i] = s[i]
         /\ Append(s, x)[Len(s) + 1] = x
OBVIOUS

(* The recursion of FlattenSeq over the ranks has a solution.              *)
LEMMA FlattenedExists ==
  ASSUME NEW seqs
  PROVE  \E flat : flat = [i \in 1 .. NumSources |-> IF i = 1 THEN seqs[i] ELSE flat[i - 1] \o seqs[i]]
<1> DEFINE IsFlat(g, n) == g = [i \in 1 .. n |-> IF i = 1 THEN seqs[i] ELSE g[i - 1] \o seqs[i]]
           Have == {n \in Nat : \E g : IsFlat(g, n)}
<1>1. 0 \in Have
  <2>1. IsFlat([i \in 1 .. 0 |-> i], 0)
    OBVIOUS
  <2> HIDE DEF IsFlat
  <2> QED  BY <2>1
<1>2. ASSUME NEW n \in Have
      PROVE  n + 1 \in Have
  <2>1. PICK g : IsFlat(g, n)
    OBVIOUS
  <2>2. n \in Nat /\ n + 1 \in Nat
    OBVIOUS
  <2> DEFINE last == IF n + 1 = 1 THEN seqs[n + 1] ELSE g[n] \o seqs[n + 1]
             h == [i \in 1 .. n + 1 |-> IF i = n + 1 THEN last ELSE g[i]]
  <2>3. \A i \in 1 .. n : g[i] = IF i = 1 THEN seqs[i] ELSE g[i - 1] \o seqs[i]
    BY <2>1
  <2>4. ASSUME NEW i \in 1 .. n + 1
        PROVE  h[i] = IF i = 1 THEN seqs[i] ELSE h[i - 1] \o seqs[i]
    <3>1. CASE i = n + 1
      <4>1. n # 0 => i # 1 /\ i - 1 \in 1 .. n + 1 /\ i - 1 # n + 1 /\ i - 1 = n
        BY <2>2, <3>1
      <4>2. h[i] = last
        BY <3>1
      <4> HIDE DEF last
      <4>3. n # 0 => h[i - 1] = g[n]
        BY <4>1
      <4> HIDE DEF h
      <4>4. n = 0 => i = 1
        BY <3>1
      <4> QED  BY <2>2, <3>1, <4>1, <4>2, <4>3, <4>4 DEF last
    <3>2. CASE i # n + 1
      <4>1. i \in 1 .. n /\ (i # 1 => i - 1 \in 1 .. n + 1 /\ i - 1 # n + 1)
        BY <2>2, <3>2
      <4> HIDE DEF last
      <4>2. h[i] = g[i] /\ (i # 1 => h[i - 1] = g[i - 1])
        BY <3>2, <4>1
      <4> HIDE DEF h
      <4> QED  BY <2>3, <4>1, <4>2
    <3> QED  BY <3>1, <3>2
  <2>5. h = [i \in 1 .. n + 1 |-> h[i]]
    OBVIOUS
  <2> HIDE DEF h
  <2>6. IsFlat(h, n + 1)
    BY <2>4, <2>5
  <2> HIDE DEF IsFlat
  <2> QED  BY <2>2, <2>6
<1>3. Have \in SUBSET Nat
  OBVIOUS
<1> HIDE DEF Have
<1>4. NumSources \in Have
  BY <1>1, <1>2, <1>3, SetInduction, SourceNumbers
<1> QED  BY <1>4 DEF Have

(* The lengths of the sequences. *)
Sized(seqs, size) == \A d \in Source : Len(seqs[d]) = size[d]

(* flat is made of seqs, which begin where f says.                         *)
MadeOf(flat, seqs, f) ==
  /\ Len(flat) = f[NumSources]
  /\ \A d \in Source : \A k \in 1 .. Len(seqs[d]) : flat[f[d - 1] + k] = seqs[d][k]

(* Flattening puts every element where its sequence begins, plus its       *)
(* place in the sequence.                                                  *)
LEMMA FlattenedAt ==
  ASSUME NEW X, NEW seqs \in [Source -> Seq(X)], NEW size, Sized(seqs, size), NEW f, Begins(f, size)
  PROVE  FlattenSeq(seqs) \in Seq(X) /\ MadeOf(FlattenSeq(seqs), seqs, f)
<1> USE DEF Sized
<1> DEFINE Flat(g) == [i \in 1 .. Len(seqs) |-> IF i = 1 THEN seqs[i] ELSE g[i - 1] \o seqs[i]]
           flat == CHOOSE g : g = Flat(g)
<1>1. NumSources \in Nat \ {0} /\ Source = 1 .. NumSources /\ Len(seqs) = NumSources
  BY SourceNumbers
<1>2. \E g : g = Flat(g)
  <2>1. \A g : Flat(g) = [i \in 1 .. NumSources |-> IF i = 1 THEN seqs[i] ELSE g[i - 1] \o seqs[i]]
    BY <1>1
  <2> HIDE DEF Flat
  <2> QED  BY <2>1, FlattenedExists
<1>3. flat = Flat(flat)
  <2> HIDE DEF Flat
  <2> QED  BY <1>2
<1>4. FlattenSeq(seqs) = flat[NumSources]
  BY <1>1 DEF FlattenSeq
<1> HIDE DEF flat
<1>5. /\ flat[1] = seqs[1]
      /\ \A i \in Nat : i # 0 /\ i + 1 \in Source => flat[i + 1] = flat[i] \o seqs[i + 1]
  <2>1. \A i \in 1 .. NumSources : flat[i] = IF i = 1 THEN seqs[i] ELSE flat[i - 1] \o seqs[i]
    BY <1>1, <1>3
  <2>2. ASSUME NEW i \in Nat, i # 0, i + 1 \in Source
        PROVE  flat[i + 1] = flat[i] \o seqs[i + 1]
    <3> DEFINE j == i + 1
    <3>1. j \in 1 .. NumSources /\ j # 1 /\ j - 1 = i
      BY <1>1, <2>2
    <3> HIDE DEF j
    <3>2. flat[j] = flat[j - 1] \o seqs[j]
      BY <2>1, <3>1
    <3> QED  BY <3>1, <3>2 DEF j
  <2>3. 1 \in 1 .. NumSources
    BY <1>1
  <2>4. flat[1] = seqs[1]
    BY <2>1, <2>3
  <2> QED  BY <2>2, <2>4
<1> DEFINE Sound(i) ==
             /\ flat[i] \in Seq(X) /\ Len(flat[i]) = f[i]
             /\ \A d \in 1 .. i : \A k \in 1 .. Len(seqs[d]) :
                  f[d - 1] + k \in 1 .. f[i] /\ flat[i][f[d - 1] + k] = seqs[d][k]
           Upto == {i \in Nat : i + 1 \in Source => Sound(i + 1)}
<1>6. \A d \in Source : seqs[d] \in Seq(X) /\ Len(seqs[d]) \in Nat
  OBVIOUS
<1>7. /\ \A i \in Nat : f[i] \in Nat
      /\ f[0] = 0 /\ \A d \in Source : f[d] = f[d - 1] + Len(seqs[d])
  BY DEF Begins
<1>8. Sound(1)
  <2>1. 1 \in Source /\ f[1] = Len(seqs[1]) /\ \A d \in 1 .. 1 : d = 1
    BY <1>1, <1>6, <1>7
  <2>2. flat[1] \in Seq(X) /\ Len(flat[1]) = f[1]
    BY <1>5, <1>6, <2>1
  <2>3. ASSUME NEW d \in 1 .. 1, NEW k \in 1 .. Len(seqs[d])
        PROVE  f[d - 1] + k \in 1 .. f[1] /\ flat[1][f[d - 1] + k] = seqs[d][k]
    <3>1. d = 1 /\ d - 1 = 0
      BY <2>1
    <3>2. f[d - 1] + k = k
      BY <1>7, <3>1
    <3> QED  BY <1>5, <2>1, <3>1, <3>2
  <2> QED  BY <2>2, <2>3
<1>9. ASSUME NEW n \in Nat, n # 0, n + 1 \in Source, Sound(n)
      PROVE  Sound(n + 1)
  <2>1. /\ flat[n + 1] = flat[n] \o seqs[n + 1]
        /\ flat[n] \in Seq(X) /\ seqs[n + 1] \in Seq(X)
        /\ Len(flat[n]) = f[n] /\ Len(seqs[n + 1]) \in Nat /\ f[n] \in Nat
        /\ n + 1 - 1 = n
    <3>1. flat[n + 1] = flat[n] \o seqs[n + 1]
      BY <1>5, <1>9
    <3>2. seqs[n + 1] \in Seq(X) /\ Len(seqs[n + 1]) \in Nat
      BY <1>6, <1>9
    <3>3. flat[n] \in Seq(X) /\ Len(flat[n]) = f[n] /\ f[n] \in Nat /\ n + 1 - 1 = n
      BY <1>7, <1>9
    <3> QED  BY <3>1, <3>2, <3>3
  <2>2. f[n + 1] = f[n] + Len(seqs[n + 1])
    <3> DEFINE j == n + 1
    <3>1. j \in Source /\ j - 1 = n
      BY <1>9, <2>1
    <3> HIDE DEF j
    <3>2. f[j] = f[j - 1] + Len(seqs[j])
      BY <1>7, <3>1
    <3> QED  BY <3>1, <3>2 DEF j
  <2>3. /\ flat[n + 1] \in Seq(X) /\ Len(flat[n + 1]) = f[n + 1]
        /\ \A i \in 1 .. f[n] : flat[n + 1][i] = flat[n][i]
        /\ \A i \in 1 .. Len(seqs[n + 1]) : flat[n + 1][f[n] + i] = seqs[n + 1][i]
    <3> DEFINE t == seqs[n + 1]
               u == flat[n]
    <3> HIDE DEF t, u
    <3>1. u \in Seq(X) /\ t \in Seq(X) /\ flat[n + 1] = u \o t /\ Len(u) = f[n]
      BY <2>1 DEF t, u
    <3>2. /\ u \o t \in Seq(X) /\ Len(u \o t) = Len(u) + Len(t)
          /\ \A i \in 1 .. Len(u) : (u \o t)[i] = u[i]
          /\ \A i \in 1 .. Len(t) : (u \o t)[Len(u) + i] = t[i]
      <4>1. \A v, w \in Seq(X) :
              /\ v \o w \in Seq(X) /\ Len(v \o w) = Len(v) + Len(w)
              /\ \A i \in 1 .. Len(v) : (v \o w)[i] = v[i]
              /\ \A i \in 1 .. Len(w) : (v \o w)[Len(v) + i] = w[i]
        BY ConcatAt
      <4> QED  BY <3>1, <4>1, Zenon
    <3> QED  BY <2>2, <3>1, <3>2 DEF t, u
  <2>4. ASSUME NEW d \in 1 .. n + 1, NEW k \in 1 .. Len(seqs[d])
        PROVE  f[d - 1] + k \in 1 .. f[n + 1] /\ flat[n + 1][f[d - 1] + k] = seqs[d][k]
    <3>1. CASE d = n + 1
      <4>1. f[d - 1] = f[n] /\ k \in 1 .. Len(seqs[n + 1])
        BY <2>1, <3>1
      <4>2. f[n] + k \in 1 .. f[n + 1]
        BY <2>1, <2>2, <4>1
      <4> QED  BY <2>3, <3>1, <4>1, <4>2
    <3>2. CASE d # n + 1
      <4>1. d \in 1 .. n
        BY <3>2
      <4>2. f[d - 1] + k \in 1 .. f[n] /\ flat[n][f[d - 1] + k] = seqs[d][k]
        BY <1>9, <4>1
      <4>3. f[d - 1] + k \in 1 .. f[n + 1]
        BY <2>1, <2>2, <4>2
      <4> QED  BY <2>3, <4>2, <4>3
    <3> QED  BY <3>1, <3>2
  <2> QED  BY <2>3, <2>4
<1> HIDE DEF Sound
<1>10. Upto = Nat
  <2>1. 0 \in Upto
    BY <1>8
  <2>2. ASSUME NEW n \in Upto
        PROVE  n + 1 \in Upto
    <3> SUFFICES ASSUME n + 1 + 1 \in Source  PROVE Sound(n + 1 + 1)
      OBVIOUS
    <3>1. n \in Nat /\ n + 1 \in Source /\ n + 1 \in Nat /\ n + 1 # 0
      BY <1>1
    <3> QED  BY <1>9, <3>1
  <2>3. Upto \in SUBSET Nat
    OBVIOUS
  <2> HIDE DEF Upto
  <2> QED  BY <2>1, <2>2, <2>3, SetInduction
<1>11. Sound(NumSources)
  <2>1. NumSources - 1 \in Nat /\ NumSources - 1 + 1 \in Source /\ NumSources - 1 + 1 = NumSources
    BY <1>1
  <2>2. NumSources - 1 \in Upto
    <3> HIDE DEF Upto
    <3> QED  BY <1>10, <2>1
  <2>3. Sound(NumSources - 1 + 1)
    BY <2>1, <2>2
  <2> QED  BY <2>1, <2>3
<1>12. \A d \in Source : \A k \in 1 .. Len(seqs[d]) : flat[NumSources][f[d - 1] + k] = seqs[d][k]
  BY <1>1, <1>11 DEF Sound
<1>13. flat[NumSources] \in Seq(X) /\ Len(flat[NumSources]) = f[NumSources]
  BY <1>11 DEF Sound
<1> QED  BY <1>4, <1>12, <1>13 DEF MadeOf

(* Every position lies in one of them.                                     *)
LEMMA BeginsCover ==
  ASSUME NEW f, NEW size, Begins(f, size), NEW n \in 1 .. f[NumSources]
  PROVE  \E d \in Source : \E k \in 1 .. size[d] : n = f[d - 1] + k
<1> DEFINE Upto == {i \in Nat : i <= NumSources =>
                      \A m \in 1 .. f[i] : \E d \in Source : \E k \in 1 .. size[d] : m = f[d - 1] + k}
<1>1. /\ \A i \in Nat : f[i] \in Nat
      /\ f[0] = 0 /\ \A d \in Source : size[d] \in Nat /\ f[d] = f[d - 1] + size[d]
  BY DEF Begins
<1>2. 0 \in Upto
  BY <1>1
<1>3. ASSUME NEW i \in Upto
      PROVE  i + 1 \in Upto
  <2> SUFFICES ASSUME i + 1 <= NumSources, NEW m \in 1 .. f[i + 1]
               PROVE  \E d \in Source : \E k \in 1 .. size[d] : m = f[d - 1] + k
    OBVIOUS
  <2>1. i \in Nat /\ i <= NumSources /\ i + 1 \in Source /\ i + 1 - 1 = i
    BY SourceNumbers
  <2>2. f[i + 1] = f[i] + size[i + 1] /\ f[i] \in Nat /\ size[i + 1] \in Nat
    BY <1>1, <2>1
  <2>3. CASE m <= f[i]
    BY <2>1, <2>2, <2>3
  <2>4. CASE ~(m <= f[i])
    <3>1. m - f[i] \in 1 .. size[i + 1] /\ m = f[i + 1 - 1] + (m - f[i])
      BY <2>1, <2>2, <2>4
    <3> QED  BY <2>1, <3>1
  <2> QED  BY <2>3, <2>4
<1>4. Upto \in SUBSET Nat
  OBVIOUS
<1> HIDE DEF Upto
<1>5. NumSources \in Upto
  BY <1>2, <1>3, <1>4, SetInduction, SourceNumbers
<1> QED  BY <1>5, SourceNumbers DEF Upto

(* And in no other.                                                        *)
LEMMA BeginsApart ==
  ASSUME NEW f, NEW size, Begins(f, size),
         NEW c \in Source, NEW d \in Source, NEW j \in 1 .. size[c], NEW k \in 1 .. size[d],
         f[c - 1] + j = f[d - 1] + k
  PROVE  c = d /\ j = k
<1>1. /\ \A i \in Nat : f[i] \in Nat
      /\ \A x \in Source : size[x] \in Nat /\ f[x] = f[x - 1] + size[x]
  BY DEF Begins
<1>2. ASSUME NEW x \in Source, NEW y \in Source, x < y
      PROVE  f[x] <= f[y - 1]
  <2> DEFINE Upto == {i \in Nat : x + i < NumSources + 1 => f[x] <= f[x + i]}
  <2>0. x \in Nat /\ y \in Nat /\ y <= NumSources
    BY SourceNumbers
  <2>1. 0 \in Upto
    <3>1. f[x] \in Nat /\ x + 0 = x
      BY <1>1, <2>0
    <3> QED  BY <3>1
  <2>2. ASSUME NEW i \in Upto
        PROVE  i + 1 \in Upto
    <3> SUFFICES ASSUME x + (i + 1) < NumSources + 1
                 PROVE  f[x] <= f[x + (i + 1)]
      OBVIOUS
    <3>1. i \in Nat /\ x + i < NumSources + 1 /\ x + (i + 1) \in Source /\ x + (i + 1) - 1 = x + i
          /\ x + i \in Nat
      BY <2>0, SourceNumbers
    <3>2. f[x + (i + 1)] = f[x + i] + size[x + (i + 1)]
      <4> DEFINE z == x + (i + 1)
      <4>1. z \in Source /\ z - 1 = x + i
        BY <2>0, <3>1
      <4> HIDE DEF z
      <4>2. f[z] = f[z - 1] + size[z]
        BY <1>1, <4>1
      <4> QED  BY <4>1, <4>2 DEF z
    <3>3. f[x] <= f[x + i] /\ f[x] \in Nat /\ f[x + i] \in Nat /\ size[x + (i + 1)] \in Nat
      BY <1>1, <2>0, <3>1
    <3> QED  BY <3>2, <3>3
  <2>3. Upto \in SUBSET Nat
    OBVIOUS
  <2> HIDE DEF Upto
  <2>4. y - 1 - x \in Upto
    <3>1. y - 1 - x \in Nat
      BY <1>2, <2>0
    <3> QED  BY <2>1, <2>2, <2>3, <3>1, SetInduction
  <2>5. x + (y - 1 - x) = y - 1 /\ y - 1 < NumSources + 1
    <3>1. x \in Int /\ y \in Int /\ y < NumSources + 1 /\ NumSources \in Int
      BY <2>0, SourceNumbers
    <3> HIDE DEF Upto
    <3> QED  BY <3>1
  <2> QED  BY <2>4, <2>5 DEF Upto
<1>3. /\ f[c] = f[c - 1] + size[c] /\ f[d] = f[d - 1] + size[d]
      /\ size[c] \in Nat /\ size[d] \in Nat
      /\ f[c - 1] \in Nat /\ f[d - 1] \in Nat /\ c \in Nat /\ d \in Nat
  BY <1>1, SourceNumbers
<1>4. ~(c < d)
  <2> SUFFICES ASSUME c < d PROVE FALSE
    OBVIOUS
  <2>1. f[c] <= f[d - 1]
    BY <1>2
  <2> QED  BY <1>3, <2>1
<1>5. ~(d < c)
  <2> SUFFICES ASSUME d < c PROVE FALSE
    OBVIOUS
  <2>1. f[d] <= f[c - 1]
    BY <1>2
  <2> QED  BY <1>3, <2>1
<1>6. c = d
  BY <1>3, <1>4, <1>5
<1> QED  BY <1>3, <1>6

(* Lists(s, T): s holds every element of T once.                           *)
Lists(s, T) ==
  /\ s \in Seq(T) /\ Len(s) = Cardinality(T)
  /\ \A a \in T : \E k \in 1 .. Len(s) : s[k] = a
  /\ \A j, k \in 1 .. Len(s) : s[j] = s[k] => j = k

(* So has the recursion that lists the elements of T up to n.              *)
LEMMA ListExists ==
  ASSUME NEW n \in Nat, NEW T
  PROVE  \E upTo : upTo = [a \in 0 .. n |-> IF a = 0 THEN << >>
                                           ELSE IF a \in T THEN Append(upTo[a - 1], a)
                                           ELSE upTo[a - 1]]
<1> DEFINE Next1(g, a) == IF a \in T THEN Append(g[a - 1], a) ELSE g[a - 1]
           IsList(g, m) == g = [a \in 0 .. m |-> IF a = 0 THEN << >> ELSE Next1(g, a)]
           Have == {m \in Nat : \E g : IsList(g, m)}
<1>1. 0 \in Have
  <2>1. IsList([a \in 0 .. 0 |-> << >>], 0)
    OBVIOUS
  <2> HIDE DEF IsList
  <2> QED  BY <2>1
<1>2. ASSUME NEW m \in Have
      PROVE  m + 1 \in Have
  <2>1. PICK g : IsList(g, m)
    OBVIOUS
  <2>2. m \in Nat /\ m + 1 \in Nat
    OBVIOUS
  <2> DEFINE last == IF m + 1 \in T THEN Append(g[m], m + 1) ELSE g[m]
             h == [a \in 0 .. m + 1 |-> IF a = m + 1 THEN last ELSE g[a]]
  <2>3. \A a \in 0 .. m : g[a] = IF a = 0 THEN << >> ELSE Next1(g, a)
    BY <2>1
  <2>4. ASSUME NEW a \in 0 .. m + 1
        PROVE  h[a] = IF a = 0 THEN << >> ELSE Next1(h, a)
    <3>1. CASE a = m + 1
      <4>1. a # 0 /\ a - 1 \in 0 .. m + 1 /\ a - 1 # m + 1 /\ a - 1 = m
        BY <2>2, <3>1
      <4>2. h[a] = last
        BY <3>1
      <4> HIDE DEF last
      <4>3. h[a - 1] = g[m]
        BY <4>1
      <4> HIDE DEF h
      <4> QED  BY <3>1, <4>1, <4>2, <4>3 DEF last
    <3>2. CASE a # m + 1
      <4>1. a \in 0 .. m /\ (a # 0 => a - 1 \in 0 .. m + 1 /\ a - 1 # m + 1)
        BY <2>2, <3>2
      <4> HIDE DEF last
      <4>2. h[a] = g[a] /\ (a # 0 => h[a - 1] = g[a - 1])
        BY <3>2, <4>1
      <4> HIDE DEF h
      <4> QED  BY <2>3, <4>1, <4>2
    <3> QED  BY <3>1, <3>2
  <2>5. h = [a \in 0 .. m + 1 |-> h[a]]
    OBVIOUS
  <2> HIDE DEF h
  <2>6. IsList(h, m + 1)
    <3> HIDE DEF Next1
    <3> QED  BY <2>4, <2>5
  <2> HIDE DEF IsList
  <2> QED  BY <2>2, <2>6
<1>3. Have \in SUBSET Nat
  OBVIOUS
<1> HIDE DEF Have
<1>4. n \in Have
  BY <1>1, <1>2, <1>3, SetInduction
<1> QED  BY <1>4 DEF Have

(* What goes to a rank. *)
Bound(ids, d) == {a \in DOMAIN ids : HomeOf(ids[a]) = d}

(* What is packed for a rank lists its assignments, each of them once.     *)
LEMMA SentToLists ==
  ASSUME NEW n \in Nat, NEW ids, DOMAIN ids = 1 .. n, NEW d
  PROVE  Lists(SentTo(ids, d), Bound(ids, d))
<1> DEFINE T == Bound(ids, d)
           Entry(g, a) == IF a = 0 THEN << >> ELSE IF a \in T THEN Append(g[a - 1], a) ELSE g[a - 1]
           Home(g, a) == IF a = 0 THEN << >>
                         ELSE IF HomeOf(ids[a]) = d THEN Append(g[a - 1], a) ELSE g[a - 1]
           Listing(g) == [a \in 0 .. Cardinality(DOMAIN ids) |-> Home(g, a)]
           upTo == CHOOSE g : g = Listing(g)
<1>0. Cardinality(DOMAIN ids) = n
  BY FS_Interval
<1>1. SentTo(ids, d) = upTo[n]
  BY <1>0 DEF SentTo
<1>2. \A a \in 1 .. n : a \in T <=> HomeOf(ids[a]) = d
  BY DEF Bound
<1>3. \E g : g = Listing(g)
  <2>1. PICK g : g = [a \in 0 .. n |-> Entry(g, a)]
    BY ListExists
  <2>2. \A a \in 0 .. n : Entry(g, a) = Home(g, a)
    <3> HIDE DEF T
    <3> QED  BY <1>2
  <2> HIDE DEF Entry, Home
  <2>3. g = [a \in 0 .. n |-> Home(g, a)]
    BY <2>1, <2>2
  <2>4. g = Listing(g)
    BY <1>0, <2>3
  <2> HIDE DEF Listing
  <2> QED  BY <2>4
<1>4. upTo = Listing(upTo)
  <2> HIDE DEF Listing
  <2> QED  BY <1>3
<1> HIDE DEF upTo
<1>5. \A a \in 0 .. n : upTo[a] = Home(upTo, a)
  <2> HIDE DEF Home
  <2> QED  BY <1>0, <1>4
<1>6. /\ upTo[0] = << >>
      /\ \A i \in Nat : i + 1 <= n =>
           upTo[i + 1] = IF i + 1 \in T THEN Append(upTo[i], i + 1) ELSE upTo[i]
  <2>1. ASSUME NEW i \in Nat, i + 1 <= n
        PROVE  upTo[i + 1] = IF i + 1 \in T THEN Append(upTo[i], i + 1) ELSE upTo[i]
    <3> DEFINE j == i + 1
    <3>1. j \in 0 .. n /\ j \in 1 .. n /\ j # 0 /\ j - 1 = i
      BY <2>1
    <3> HIDE DEF j, T
    <3>2. upTo[j] = IF j \in T THEN Append(upTo[j - 1], j) ELSE upTo[j - 1]
      BY <1>2, <1>5, <3>1
    <3> QED  BY <3>1, <3>2 DEF j
  <2>2. 0 \in 0 .. n
    OBVIOUS
  <2> HIDE DEF T
  <2> QED  BY <1>5, <2>1, <2>2
<1> DEFINE Part(i) == {a \in T : a <= i}
           Sound(i) ==
             /\ upTo[i] \in Seq(T) /\ Len(upTo[i]) = Cardinality(Part(i))
             /\ \A k \in 1 .. Len(upTo[i]) : upTo[i][k] <= i
             /\ \A a \in Part(i) : \E k \in 1 .. Len(upTo[i]) : upTo[i][k] = a
             /\ \A j, k \in 1 .. Len(upTo[i]) : upTo[i][j] = upTo[i][k] => j = k
           Upto == {i \in Nat : i <= n => Sound(i)}
<1>7. /\ T \subseteq 1 .. n /\ IsFiniteSet(T)
      /\ \A a \in T : a \in Nat /\ a # 0 /\ a <= n
  <2>1. T \subseteq 1 .. n /\ \A a \in T : a \in Nat /\ a # 0 /\ a <= n
    BY DEF Bound
  <2>2. IsFiniteSet(1 .. n)
    BY FS_Interval
  <2> QED  BY <2>1, <2>2, FS_Subset
<1> HIDE DEF T
<1>8. ASSUME NEW i \in Nat, NEW a \in T
      PROVE  a \in Int /\ (a <= i + 1 <=> a <= i \/ a = i + 1)
  <2>1. a \in Nat
    BY <1>7
  <2> QED  BY <2>1
<1>9. Sound(0)
  <2>1. Part(0) = {}
    <3>1. ASSUME NEW a \in T
          PROVE  ~(a <= 0)
      <4>1. a \in Nat /\ a # 0
        BY <1>7
      <4> QED  BY <4>1
    <3> QED  BY <3>1
  <2>2. Len(upTo[0]) = 0 /\ upTo[0] \in Seq(T)
    BY <1>6
  <2>3. Cardinality({}) = 0
    BY FS_EmptySet
  <2>4. \A k \in 1 .. Len(upTo[0]) : FALSE
    BY <2>2
  <2> HIDE DEF Part
  <2> QED  BY <2>1, <2>2, <2>3, <2>4
<1>10. ASSUME NEW i \in Nat, i + 1 <= n, Sound(i)
      PROVE  Sound(i + 1)
  <2> DEFINE s == upTo[i]
             t == upTo[i + 1]
  <2>1. /\ s \in Seq(T) /\ Len(s) = Cardinality(Part(i)) /\ Len(s) \in Nat
        /\ \A k \in 1 .. Len(s) : s[k] <= i /\ s[k] \in T
        /\ \A a \in Part(i) : \E k \in 1 .. Len(s) : s[k] = a
        /\ \A j, k \in 1 .. Len(s) : s[j] = s[k] => j = k
    <3>1. /\ s \in Seq(T) /\ Len(s) = Cardinality(Part(i))
          /\ \A k \in 1 .. Len(s) : s[k] <= i
          /\ \A a \in Part(i) : \E k \in 1 .. Len(s) : s[k] = a
          /\ \A j, k \in 1 .. Len(s) : s[j] = s[k] => j = k
      BY <1>10
    <3> HIDE DEF s, Sound, Part
    <3>2. Len(s) \in Nat /\ \A k \in 1 .. Len(s) : s[k] \in T
      BY <3>1
    <3> QED  BY <3>1, <3>2
  <2>2. t = IF i + 1 \in T THEN Append(s, i + 1) ELSE s
    BY <1>6, <1>10
  <2> HIDE DEF s, t
  <2>3. CASE i + 1 \in T
    <3>1. /\ t \in Seq(T) /\ Len(t) = Len(s) + 1
          /\ \A k \in 1 .. Len(s) : t[k] = s[k]
          /\ t[Len(s) + 1] = i + 1
      BY <2>1, <2>2, <2>3, AppendAt
    <3>2. Part(i + 1) = Part(i) \union {i + 1} /\ i + 1 \notin Part(i)
      <4>1. \A a \in T : a <= i + 1 <=> a <= i \/ a = i + 1
        BY <1>8
      <4>2. ~(i + 1 <= i) /\ i + 1 <= i + 1
        OBVIOUS
      <4>3. Part(i + 1) = Part(i) \union {i + 1}
        BY <2>3, <4>1, <4>2, Zenon
      <4> QED  BY <4>2, <4>3
    <3>3. IsFiniteSet(Part(i))
      <4>1. Part(i) \subseteq T
        OBVIOUS
      <4> HIDE DEF Part
      <4> QED  BY <1>7, <4>1, FS_Subset
    <3>4. Cardinality(Part(i + 1)) = Cardinality(Part(i)) + 1
      <4> HIDE DEF Part
      <4> QED  BY <3>2, <3>3, FS_AddElement
    <3> HIDE DEF Part
    <3>5. \A k \in 1 .. Len(t) : k \in 1 .. Len(s) \/ k = Len(s) + 1
      BY <2>1, <3>1
    <3>6. Len(s) + 1 \in 1 .. Len(t) /\ \A k \in 1 .. Len(s) : k \in 1 .. Len(t)
      BY <2>1, <3>1
    <3>7. \A k \in 1 .. Len(s) : t[k] <= i /\ t[k] \in Int /\ t[k] # i + 1
      <4>1. \A a \in T : a \in Int
        BY <1>7
      <4>2. ASSUME NEW k \in 1 .. Len(s)
            PROVE  t[k] <= i /\ t[k] \in Int /\ t[k] # i + 1
        <5>1. t[k] = s[k] /\ s[k] <= i /\ s[k] \in T
          BY <2>1, <3>1
        <5>2. s[k] \in Int
          BY <4>1, <5>1
        <5> QED  BY <5>1, <5>2
      <4> QED  BY <4>2
    <3>8. \A k \in 1 .. Len(t) : t[k] <= i + 1
      <4> SUFFICES ASSUME NEW k \in 1 .. Len(t)
                   PROVE  t[k] <= i + 1
        OBVIOUS
      <4>1. CASE k \in 1 .. Len(s)
        <5>1. t[k] <= i /\ t[k] \in Int
          BY <3>7, <4>1
        <5> QED  BY <5>1
      <4>2. CASE k = Len(s) + 1
        BY <3>1, <4>2
      <4> QED  BY <3>5, <4>1, <4>2
    <3>9. \A a \in Part(i + 1) : \E k \in 1 .. Len(t) : t[k] = a
      <4>1. \A a \in Part(i) : \E k \in 1 .. Len(t) : t[k] = a
        BY <2>1, <3>1, <3>6
      <4> QED  BY <3>1, <3>2, <3>6, <4>1
    <3>10. \A j, k \in 1 .. Len(t) : t[j] = t[k] => j = k
      <4> SUFFICES ASSUME NEW j \in 1 .. Len(t), NEW k \in 1 .. Len(t), t[j] = t[k]
                   PROVE  j = k
        OBVIOUS
      <4>1. CASE j \in 1 .. Len(s) /\ k \in 1 .. Len(s)
        BY <2>1, <3>1, <4>1
      <4>2. CASE j \in 1 .. Len(s) /\ k = Len(s) + 1
        BY <3>1, <3>7, <4>2
      <4>3. CASE j = Len(s) + 1 /\ k \in 1 .. Len(s)
        BY <3>1, <3>7, <4>3
      <4> QED  BY <3>5, <4>1, <4>2, <4>3
    <3> QED  BY <2>1, <3>1, <3>4, <3>8, <3>9, <3>10 DEF t
  <2>4. CASE i + 1 \notin T
    <3>1. t = s
      BY <2>2, <2>4
    <3>2. Part(i + 1) = Part(i)
      <4>1. \A a \in T : a <= i + 1 <=> a <= i \/ a = i + 1
        BY <1>8
      <4>2. \A a \in T : a <= i + 1 <=> a <= i
        BY <2>4, <4>1
      <4> QED  BY <4>2
    <3> HIDE DEF Part
    <3>3. \A k \in 1 .. Len(s) : s[k] <= i + 1
      <4>1. ASSUME NEW k \in 1 .. Len(s)
            PROVE  s[k] <= i + 1
        <5>1. s[k] <= i /\ s[k] \in T
          BY <2>1
        <5>2. s[k] \in Int
          BY <1>8, <5>1, Zenon
        <5> QED  BY <5>1, <5>2
      <4> QED  BY <4>1
    <3> QED  BY <2>1, <3>1, <3>2, <3>3 DEF t
  <2> QED  BY <2>3, <2>4
<1> HIDE DEF Sound
<1>11. n \in Upto
  <2>1. 0 \in Upto
    BY <1>9
  <2>2. \A i \in Upto : i + 1 \in Upto
    <3>1. ASSUME NEW i \in Upto, i + 1 <= n
          PROVE  Sound(i + 1)
      <4>1. i \in Nat /\ Sound(i)
        BY <3>1
      <4> QED  BY <1>10, <3>1, <4>1
    <3> QED  BY <3>1
  <2>3. Upto \in SUBSET Nat
    OBVIOUS
  <2> HIDE DEF Upto
  <2> QED  BY <2>1, <2>2, <2>3, SetInduction
<1>12. Part(n) = T
  BY <1>7
<1> HIDE DEF Part
<1>13. Sound(n)
  BY <1>11
<1> QED  BY <1>1, <1>12, <1>13 DEF Sound, Lists, T

(* The lengths of the blocks have beginnings, and every block of a buffer  *)
(* lies between two of them.                                               *)
LEMMA BeginsExist ==
  ASSUME NEW size \in [Source -> Nat]
  PROVE  \E f : /\ Begins(f, size)
                /\ \A i, j \in Nat : i <= j => f[i] <= f[j]
                /\ \A buffer : Blocks(buffer, size) = [d \in Source |-> SubSeq(buffer, f[d - 1] + 1, f[d])]
BY BlockOffsets DEF Begins

(* Cutting undoes flattening. *)
LEMMA CutFlat ==
  ASSUME NEW X, NEW seqs \in [Source -> Seq(X)], NEW size \in [Source -> Nat],
         \A d \in Source : Len(seqs[d]) = size[d]
  PROVE  Blocks(FlattenSeq(seqs), size) = seqs
<1> DEFINE flat == FlattenSeq(seqs)
<1>1. PICK f :
        /\ Begins(f, size)
        /\ \A i, j \in Nat : i <= j => f[i] <= f[j]
        /\ \A buffer : Blocks(buffer, size) = [d \in Source |-> SubSeq(buffer, f[d - 1] + 1, f[d])]
  BY BeginsExist
<1>3. flat \in Seq(X) /\ MadeOf(flat, seqs, f)
  BY <1>1, FlattenedAt DEF Sized
<1> HIDE DEF flat
<1>4. ASSUME NEW d \in Source
      PROVE  SubSeq(flat, f[d - 1] + 1, f[d]) = seqs[d]
  <2> DEFINE a == f[d - 1]
             m == size[d]
             block == seqs[d]
  <2>1. a \in Nat /\ m \in Nat /\ f[d] = a + m
    BY <1>1, SourceNumbers DEF Begins
  <2>2. block \in Seq(X) /\ Len(block) = m
    OBVIOUS
  <2>3. \A k \in 1 .. m : flat[a + k] = block[k]
    BY <1>3, <2>2 DEF MadeOf
  <2> HIDE DEF a, m, block
  <2>4. SubSeq(flat, a + 1, a + m) = [i \in 1 .. m |-> flat[a + i]]
    BY <2>1
  <2>5. block = [i \in 1 .. m |-> block[i]]
    BY <2>2
  <2>6. SubSeq(flat, a + 1, a + m) = block
    BY <2>3, <2>4, <2>5
  <2> QED  BY <2>1, <2>6 DEF a, block
<1>5. Blocks(flat, size) = [d \in Source |-> SubSeq(flat, f[d - 1] + 1, f[d])]
  BY <1>1
<1>6. seqs = [d \in Source |-> seqs[d]]
  OBVIOUS
<1>7. Blocks(flat, size) = seqs
  BY <1>4, <1>5, <1>6
<1> QED  BY <1>7 DEF flat

(* Every assignment of 1 .. n goes to a rank. *)
Homed(ids, n) == DOMAIN ids = 1 .. n /\ \A a \in 1 .. n : HomeOf(ids[a]) \in Source

(* There are finitely many of them.                                        *)
LEMMA BoundSets ==
  ASSUME NEW n \in Nat, NEW ids, Homed(ids, n)
  PROVE  \A d : /\ Bound(ids, d) \subseteq 1 .. n /\ IsFiniteSet(Bound(ids, d))
                /\ Cardinality(Bound(ids, d)) \in Nat
<1> SUFFICES ASSUME NEW d
             PROVE  /\ Bound(ids, d) \subseteq 1 .. n /\ IsFiniteSet(Bound(ids, d))
                    /\ Cardinality(Bound(ids, d)) \in Nat
  OBVIOUS
<1>1. Bound(ids, d) \subseteq 1 .. n
  BY DEF Bound, Homed
<1>2. IsFiniteSet(1 .. n)
  BY FS_Interval
<1> QED  BY <1>1, <1>2, FS_Subset, FS_CardinalityType

(* The parts of a batch for the ranks have the batch's length together.    *)
LEMMA PartsTotal ==
  ASSUME NEW n \in Nat, NEW ids, Homed(ids, n),
         NEW f, Begins(f, [d \in Source |-> Cardinality(Bound(ids, d))])
  PROVE  f[NumSources] = n
<1> DEFINE Until(i) == {a \in 1 .. n : HomeOf(ids[a]) <= i}
           Upto == {i \in Nat : i <= NumSources => f[i] = Cardinality(Until(i))}
<1>1. \A a \in 1 .. n : HomeOf(ids[a]) \in Source
  BY DEF Homed
<1>2. \A d : Bound(ids, d) = {a \in 1 .. n : HomeOf(ids[a]) = d}
  BY DEF Bound, Homed
<1>3. f[0] = 0 /\ \A d \in Source : f[d] = f[d - 1] + Cardinality(Bound(ids, d))
  BY DEF Begins
<1>4. 0 \in Upto
  <2>1. ASSUME NEW a \in 1 .. n
        PROVE  ~(HomeOf(ids[a]) <= 0)
    <3>1. HomeOf(ids[a]) \in Source
      BY <1>1
    <3> QED  BY <3>1, SourceNumbers
  <2>2. Until(0) = {}
    BY <2>1
  <2> QED  BY <1>3, <2>2, FS_EmptySet
<1>5. ASSUME NEW i \in Upto
      PROVE  i + 1 \in Upto
  <2> SUFFICES ASSUME i + 1 <= NumSources
               PROVE  f[i + 1] = Cardinality(Until(i + 1))
    OBVIOUS
  <2>1. i \in Nat /\ i <= NumSources /\ i + 1 \in Source /\ i + 1 - 1 = i
    BY SourceNumbers
  <2>2. f[i] = Cardinality(Until(i)) /\ f[i + 1] = f[i] + Cardinality(Bound(ids, i + 1))
    <3> DEFINE j == i + 1
    <3>1. j \in Source /\ j - 1 = i
      BY <2>1
    <3> HIDE DEF j
    <3>2. f[j] = f[i] + Cardinality(Bound(ids, j))
      BY <1>3, <3>1
    <3> QED  BY <2>1, <3>2 DEF j
  <2>3. \A a \in 1 .. n : /\ HomeOf(ids[a]) <= i + 1 <=> HomeOf(ids[a]) <= i \/ HomeOf(ids[a]) = i + 1
                          /\ ~(HomeOf(ids[a]) <= i /\ HomeOf(ids[a]) = i + 1)
    <3>1. ASSUME NEW h \in Source
          PROVE  /\ h <= i + 1 <=> h <= i \/ h = i + 1
                 /\ ~(h <= i /\ h = i + 1)
      BY <2>1, SourceNumbers
    <3> QED  BY <1>1, <3>1
  <2>4. Until(i + 1) = Until(i) \cup Bound(ids, i + 1) /\ Until(i) \cap Bound(ids, i + 1) = {}
    BY <1>2, <2>3, Zenon
  <2>5. IsFiniteSet(Until(i)) /\ IsFiniteSet(Bound(ids, i + 1))
    <3>1. Until(i) \subseteq 1 .. n /\ Bound(ids, i + 1) \subseteq 1 .. n
      BY <1>2
    <3>2. IsFiniteSet(1 .. n)
      BY FS_Interval
    <3> HIDE DEF Until
    <3> QED  BY <3>1, <3>2, FS_Subset
  <2> HIDE DEF Until
  <2>6. Cardinality(Until(i + 1)) = Cardinality(Until(i)) + Cardinality(Bound(ids, i + 1)) - Cardinality({})
    BY <2>4, <2>5, FS_Union
  <2>7. Cardinality({}) = 0 /\ Cardinality(Until(i)) \in Nat /\ Cardinality(Bound(ids, i + 1)) \in Nat
    BY <2>5, FS_EmptySet, FS_CardinalityType
  <2> QED  BY <2>2, <2>6, <2>7
<1>6. NumSources \in Upto
  <2>1. Upto \in SUBSET Nat
    OBVIOUS
  <2> HIDE DEF Upto
  <2> QED  BY <1>4, <1>5, <2>1, SetInduction, SourceNumbers
<1>7. Until(NumSources) = 1 .. n
  <2>1. \A a \in 1 .. n : HomeOf(ids[a]) <= NumSources
    BY <1>1, SourceNumbers
  <2> QED  BY <2>1
<1>8. Cardinality(1 .. n) = n
  BY FS_Interval
<1>9. f[NumSources] = Cardinality(Until(NumSources))
  BY <1>6, SourceNumbers
<1> QED  BY <1>7, <1>8, <1>9

(* How many assignments go to each rank. *)
PartSizes(ids) == [d \in Source |-> Cardinality(Bound(ids, d))]

(* What a rank sends of its values, one block for every rank.              *)
Parcels(values, ids) ==
  [d \in Source |-> [k \in 1 .. Cardinality(Bound(ids, d)) |-> values[SentTo(ids, d)[k]]]]

(* The split vector holds the lengths of the lists.                        *)
LEMMA PartSizesAre ==
  ASSUME NEW n \in Nat, NEW ids, Homed(ids, n)
  PROVE  /\ PartSizes(ids) \in [Source -> Nat] /\ SplitVector(ids) = PartSizes(ids)
         /\ \A d : /\ SentTo(ids, d) \in Seq(1 .. n) /\ Len(SentTo(ids, d)) = Cardinality(Bound(ids, d))
                   /\ \A a \in Bound(ids, d) : \E k \in 1 .. Cardinality(Bound(ids, d)) : SentTo(ids, d)[k] = a
                   /\ \A k \in 1 .. Cardinality(Bound(ids, d)) : SentTo(ids, d)[k] \in Bound(ids, d)
<1>1. \A d : Cardinality(Bound(ids, d)) \in Nat /\ Bound(ids, d) \subseteq 1 .. n
  BY BoundSets
<1>2. ASSUME NEW d
      PROVE  Lists(SentTo(ids, d), Bound(ids, d))
  BY SentToLists DEF Homed
<1>3. ASSUME NEW d
      PROVE  /\ SentTo(ids, d) \in Seq(1 .. n) /\ Len(SentTo(ids, d)) = Cardinality(Bound(ids, d))
             /\ \A a \in Bound(ids, d) : \E k \in 1 .. Cardinality(Bound(ids, d)) : SentTo(ids, d)[k] = a
             /\ \A k \in 1 .. Cardinality(Bound(ids, d)) : SentTo(ids, d)[k] \in Bound(ids, d)
  <2> DEFINE s == SentTo(ids, d)
             T == Bound(ids, d)
             U == 1 .. n
  <2>1. s \in Seq(T) /\ Len(s) = Cardinality(T) /\ \A a \in T : \E k \in 1 .. Len(s) : s[k] = a
    BY <1>2 DEF Lists
  <2>2. T \subseteq U
    BY <1>1
  <2> HIDE DEF s, T, U
  <2>3. s \in Seq(U) /\ \A k \in 1 .. Len(s) : s[k] \in T
    BY <2>1, <2>2
  <2> QED  BY <2>1, <2>3 DEF s, T, U
<1>4. PartSizes(ids) \in [Source -> Nat]
  BY <1>1 DEF PartSizes
<1>5. SplitVector(ids) = PartSizes(ids)
  BY DEF SplitVector, PartSizes, Bound
<1> QED  BY <1>3, <1>4, <1>5

(* The order of packing lists every assignment, those of a rank together.  *)
LEMMA PackOrderLists ==
  ASSUME NEW n \in Nat, NEW ids, Homed(ids, n),
         NEW f, Begins(f, PartSizes(ids)), \A i, j \in Nat : i <= j => f[i] <= f[j]
  PROVE  /\ Len(PackOrder(ids)) = n /\ f[NumSources] = n
         /\ \A d \in Source : \A k \in 1 .. Cardinality(Bound(ids, d)) :
              PackOrder(ids)[f[d - 1] + k] = SentTo(ids, d)[k]
         /\ \A a \in 1 .. n : \E x \in 1 .. n : PackOrder(ids)[x] = a
<1> DEFINE seqs == [d \in Source |-> SentTo(ids, d)]
<1>1. /\ \A d : SentTo(ids, d) \in Seq(1 .. n) /\ Len(SentTo(ids, d)) = Cardinality(Bound(ids, d))
      /\ \A d : \A a \in Bound(ids, d) : \E k \in 1 .. Cardinality(Bound(ids, d)) : SentTo(ids, d)[k] = a
  BY PartSizesAre
<1>2. seqs \in [Source -> Seq(1 .. n)] /\ PartSizes(ids) = [d \in Source |-> Len(seqs[d])]
  BY <1>1 DEF PartSizes
<1>3. MadeOf(FlattenSeq(seqs), seqs, f)
  <2> HIDE DEF seqs
  <2>1. Sized(seqs, PartSizes(ids))
    BY <1>2 DEF Sized
  <2> QED  BY <1>2, <2>1, FlattenedAt
<1>4. PackOrder(ids) = FlattenSeq(seqs)
  BY DEF PackOrder
<1>5. f[NumSources] = n
  BY PartsTotal DEF PartSizes
<1>6. ASSUME NEW d \in Source, NEW k \in 1 .. Cardinality(Bound(ids, d))
      PROVE  PackOrder(ids)[f[d - 1] + k] = SentTo(ids, d)[k]
  <2>1. seqs[d] = SentTo(ids, d) /\ Len(seqs[d]) = Cardinality(Bound(ids, d))
    BY <1>1
  <2> HIDE DEF seqs
  <2> QED  BY <1>3, <1>4, <2>1 DEF MadeOf
<1>7. ASSUME NEW a \in 1 .. n
      PROVE  \E x \in 1 .. n : PackOrder(ids)[x] = a
  <2> DEFINE d == HomeOf(ids[a])
             m == Cardinality(Bound(ids, d))
  <2>1. d \in Source /\ a \in Bound(ids, d)
    BY DEF Homed, Bound
  <2>2. PICK k \in 1 .. m : SentTo(ids, d)[k] = a
    BY <1>1, <2>1
  <2>3. m \in Nat
    BY BoundSets
  <2>4. PackOrder(ids)[f[d - 1] + k] = a
    BY <1>6, <2>1, <2>2
  <2>5. f[d - 1] \in Nat /\ f[d] = f[d - 1] + m /\ f[d] <= f[NumSources]
    BY <2>1, SourceNumbers DEF Begins, PartSizes
  <2> HIDE DEF d, m
  <2>6. f[d - 1] + k \in 1 .. n
    BY <1>5, <2>3, <2>5
  <2> QED  BY <2>4, <2>6
<1> QED  BY <1>3, <1>4, <1>5, <1>6, <1>7 DEF MadeOf

(* p holds the values that go to rank d, in order.                         *)
IsParcel(p, values, ids, d, n) ==
  /\ p \in Seq({values[a] : a \in 1 .. n}) /\ Len(p) = PartSizes(ids)[d]
  /\ PartSizes(ids)[d] = Cardinality(Bound(ids, d)) /\ PartSizes(ids)[d] \in Nat
  /\ \A k \in 1 .. PartSizes(ids)[d] :
       /\ p[k] = values[SentTo(ids, d)[k]]
       /\ SentTo(ids, d)[k] \in Bound(ids, d) /\ SentTo(ids, d)[k] \in 1 .. n

(* A parcel is a sequence of the values that go to its rank, in order.     *)
LEMMA ParcelAt ==
  ASSUME NEW n \in Nat, NEW ids, Homed(ids, n), NEW values, NEW d \in Source
  PROVE  IsParcel(Parcels(values, ids)[d], values, ids, d, n)
<1> DEFINE X == {values[a] : a \in 1 .. n}
           p == Parcels(values, ids)[d]
           m == Cardinality(Bound(ids, d))
           s == SentTo(ids, d)
<1>1. m \in Nat /\ PartSizes(ids)[d] = m /\ Bound(ids, d) \subseteq 1 .. n
  BY BoundSets DEF PartSizes
<1>2. p = [k \in 1 .. m |-> values[s[k]]]
  BY DEF Parcels
<1>3. \A k \in 1 .. m : s[k] \in Bound(ids, d)
  BY PartSizesAre
<1> HIDE DEF m, s, p
<1>4. \A k \in 1 .. m : s[k] \in 1 .. n /\ values[s[k]] \in X
  BY <1>1, <1>3
<1> HIDE DEF X
<1>5. p \in Seq(X) /\ Len(p) = m /\ \A k \in 1 .. m : p[k] = values[s[k]]
  BY <1>1, <1>2, <1>4
<1> QED  BY <1>1, <1>3, <1>4, <1>5 DEF m, s, p, X, IsParcel

(* What is packed and cut are the parcels.                                 *)
LEMMA PackedParcels ==
  ASSUME NEW n \in Nat, NEW ids, Homed(ids, n), NEW values
  PROVE  /\ Packed(values, ids) = FlattenSeq(Parcels(values, ids))
         /\ Blocks(Packed(values, ids), SplitVector(ids)) = Parcels(values, ids)
<1> DEFINE X == {values[a] : a \in 1 .. n}
           parcels == Parcels(values, ids)
           flat == FlattenSeq(parcels)
           order == PackOrder(ids)
<1>1. /\ PartSizes(ids) \in [Source -> Nat] /\ SplitVector(ids) = PartSizes(ids)
      /\ \A d : /\ SentTo(ids, d) \in Seq(1 .. n)
                /\ Len(SentTo(ids, d)) = Cardinality(Bound(ids, d))
  BY PartSizesAre
<1>2. /\ parcels \in [Source -> Seq(X)]
      /\ \A d \in Source : Len(parcels[d]) = PartSizes(ids)[d]
      /\ \A d \in Source : PartSizes(ids)[d] = Cardinality(Bound(ids, d))
      /\ \A d \in Source : \A k \in 1 .. PartSizes(ids)[d] : parcels[d][k] = values[SentTo(ids, d)[k]]
  <2>1. parcels = [d \in Source |-> parcels[d]]
    BY DEF Parcels
  <2>2. \A d \in Source : IsParcel(parcels[d], values, ids, d, n)
    BY ParcelAt
  <2> HIDE DEF parcels
  <2> QED  BY <2>1, <2>2 DEF IsParcel
<1> HIDE DEF parcels, X, order
<1>3. Blocks(flat, PartSizes(ids)) = parcels
  BY <1>1, <1>2, CutFlat
<1>4. PICK f : Begins(f, PartSizes(ids)) /\ \A i, j \in Nat : i <= j => f[i] <= f[j]
  BY <1>1, BeginsExist
<1>5. /\ Len(order) = n /\ f[NumSources] = n
      /\ \A d \in Source : \A k \in 1 .. PartSizes(ids)[d] : order[f[d - 1] + k] = SentTo(ids, d)[k]
  BY <1>2, <1>4, PackOrderLists DEF order
<1>6. flat \in Seq(X) /\ MadeOf(flat, parcels, f)
  <2>1. Sized(parcels, PartSizes(ids))
    BY <1>2 DEF Sized
  <2> QED  BY <1>2, <1>4, <2>1, FlattenedAt
<1> HIDE DEF flat
<1>7. ASSUME NEW x \in 1 .. n
      PROVE  flat[x] = values[order[x]]
  <2>1. PICK d \in Source : \E k \in 1 .. PartSizes(ids)[d] : x = f[d - 1] + k
    BY <1>4, <1>5, BeginsCover
  <2>2. PICK k \in 1 .. PartSizes(ids)[d] : x = f[d - 1] + k
    BY <2>1
  <2>3. order[x] = SentTo(ids, d)[k]
    BY <1>5, <2>2
  <2>4. flat[x] = parcels[d][k] /\ parcels[d][k] = values[SentTo(ids, d)[k]]
    BY <1>2, <1>6, <2>2 DEF MadeOf
  <2> QED  BY <2>3, <2>4
<1>8. Packed(values, ids) = [x \in 1 .. n |-> values[order[x]]]
  BY DEF Packed, Homed, order
<1>9. flat = [x \in 1 .. n |-> flat[x]]
  BY <1>5, <1>6 DEF MadeOf
<1>10. Packed(values, ids) = flat
  BY <1>7, <1>8, <1>9
<1> QED  BY <1>1, <1>3, <1>10 DEF flat, parcels

(* What comes back in the order of packing is put where it belongs.        *)
LEMMA RestoredParcels ==
  ASSUME NEW ids, BatchSize * TopK \in Nat, Homed(ids, BatchSize * TopK), NEW values
  PROVE  Restored(FlattenSeq(Parcels(values, ids)), ids) = [a \in Assignments |-> values[a]]
<1> DEFINE n == BatchSize * TopK
           order == PackOrder(ids)
           packed == Packed(values, ids)
<1>1. packed = FlattenSeq(Parcels(values, ids))
  BY PackedParcels
<1>2. packed = [x \in 1 .. n |-> values[order[x]]]
  BY DEF Packed, Homed
<1>3. PartSizes(ids) \in [Source -> Nat]
  BY PartSizesAre
<1>4. PICK f : Begins(f, PartSizes(ids)) /\ \A i, j \in Nat : i <= j => f[i] <= f[j]
  BY <1>3, BeginsExist
<1>5. \A a \in 1 .. n : \E x \in 1 .. n : order[x] = a
  BY <1>4, PackOrderLists
<1> HIDE DEF packed, order
<1>6. ASSUME NEW a \in 1 .. n
      PROVE  packed[CHOOSE x \in 1 .. n : order[x] = a] = values[a]
  <2> DEFINE x == CHOOSE x \in 1 .. n : order[x] = a
  <2>1. x \in 1 .. n /\ order[x] = a
    BY <1>5
  <2> HIDE DEF x
  <2>2. packed[x] = values[a]
    BY <1>2, <2>1
  <2> QED  BY <2>2 DEF x
<1>7. Restored(packed, ids) = [a \in 1 .. n |-> packed[CHOOSE x \in 1 .. n : order[x] = a]]
  BY DEF Restored, Assignments, order
<1> QED  BY <1>1, <1>6, <1>7 DEF Assignments

(* An expert is at home with one rank, under a number of its own.          *)
LEMMA ExpertsAtHome ==
  ASSUME NEW e \in Expert
  PROVE  /\ HomeOf(e) \in Source /\ LocalId(e) \in LocalExpert
         /\ \A d : HomeOf(e) = d => (d - 1) * ExpertsPerRank + LocalId(e) = e
<1> DEFINE m == NumSources * ExpertsPerRank
<1>1. ExpertsPerRank \in Nat \ {0} /\ NumSources \in Nat \ {0} /\ m \in Nat
  BY ExchangeAssumption, SourceNumbers
<1>2. e \in Nat /\ e < NumSources * ExpertsPerRank
  <2>1. e \in 0 .. m - 1
    BY DEF Expert
  <2> HIDE DEF m
  <2>2. e \in Nat /\ e < m
    BY <1>1, <2>1
  <2> QED  BY <2>2 DEF m
<1> HIDE DEF m
<1>3. /\ e \div ExpertsPerRank \in Nat /\ e % ExpertsPerRank \in 0 .. ExpertsPerRank - 1
      /\ e = (e \div ExpertsPerRank) * ExpertsPerRank + (e % ExpertsPerRank)
  BY <1>1, <1>2, Quotient
<1>4. e \div ExpertsPerRank < NumSources
  BY <1>1, <1>2, QuotientCompares
<1>5. HomeOf(e) \in 1 .. NumSources
  BY <1>1, <1>3, <1>4 DEF HomeOf
<1>6. HomeOf(e) - 1 = e \div ExpertsPerRank
  BY <1>3 DEF HomeOf
<1> QED  BY <1>3, <1>5, <1>6, SourceNumbers DEF LocalExpert, LocalId

(* What all ranks send to rank d, in the order in which it arrives. *)
Arrivals(values, ids, d) == [s \in Source |-> Parcels(values[s], ids[s])[d]]

(* The experts of n assignments of every rank. *)
AllHomed(ids, n) ==
  \A s \in Source : DOMAIN ids[s] = 1 .. n /\ \A a \in 1 .. n : ids[s][a] \in Expert

(* Experts have ranks, so their assignments do.                            *)
LEMMA AllHomedAre ==
  ASSUME NEW n, NEW ids, AllHomed(ids, n)
  PROVE  \A s \in Source : Homed(ids[s], n)
BY ExpertsAtHome DEF AllHomed, Homed

(* What arrives at rank d, position by position.                           *)
Made(flat, values, ids, d, n, f) ==
  /\ Len(flat) = f[NumSources]
  /\ flat \in Seq(UNION {{values[s][a] : a \in 1 .. n} : s \in Source})
  /\ \A s \in Source : \A k \in 1 .. PartSizes(ids[s])[d] :
       flat[f[s - 1] + k] = values[s][SentTo(ids[s], d)[k]]

(* Arrivals are made of the parcels of the ranks, the same positions       *)
(* whatever is sent.                                                       *)
LEMMA ArrivalsAt ==
  ASSUME NEW n \in Nat, NEW ids, AllHomed(ids, n), NEW d \in Source,
         NEW size \in [Source -> Nat], \A s \in Source : size[s] = PartSizes(ids[s])[d],
         NEW f, Begins(f, size), NEW values
  PROVE  /\ Made(FlattenSeq(Arrivals(values, ids, d)), values, ids, d, n, f)
         /\ Blocks(FlattenSeq(Arrivals(values, ids, d)), size) = Arrivals(values, ids, d)
<1> DEFINE X == UNION {{values[s][a] : a \in 1 .. n} : s \in Source}
           seqs == Arrivals(values, ids, d)
<1>1. ASSUME NEW s \in Source
      PROVE  /\ seqs[s] \in Seq(X) /\ Len(seqs[s]) = size[s]
             /\ size[s] = PartSizes(ids[s])[d]
             /\ \A k \in 1 .. size[s] : seqs[s][k] = values[s][SentTo(ids[s], d)[k]]
  <2> DEFINE Y == {values[s][a] : a \in 1 .. n}
             p == Parcels(values[s], ids[s])[d]
  <2>1. seqs[s] = p
    BY DEF Arrivals
  <2>2. Homed(ids[s], n)
    BY AllHomedAre
  <2>3. /\ p \in Seq(Y) /\ Len(p) = PartSizes(ids[s])[d]
        /\ \A k \in 1 .. PartSizes(ids[s])[d] : p[k] = values[s][SentTo(ids[s], d)[k]]
    <3>1. IsParcel(p, values[s], ids[s], d, n)
      BY <2>2, ParcelAt
    <3> HIDE DEF p
    <3> QED  BY <3>1 DEF IsParcel
  <2>4. \A y \in Y : y \in X
    OBVIOUS
  <2> HIDE DEF X, Y, p, seqs
  <2>5. p \in Seq(X)
    BY <2>3, <2>4
  <2> QED  BY <2>1, <2>3, <2>5
<1>2. seqs = [s \in Source |-> seqs[s]]
  BY DEF Arrivals
<1> HIDE DEF X, seqs
<1>3. seqs \in [Source -> Seq(X)] /\ Sized(seqs, size)
  BY <1>1, <1>2 DEF Sized
<1>4. FlattenSeq(seqs) \in Seq(X) /\ MadeOf(FlattenSeq(seqs), seqs, f)
  BY <1>3, FlattenedAt
<1>5. ASSUME NEW s \in Source, NEW k \in 1 .. PartSizes(ids[s])[d]
      PROVE  FlattenSeq(seqs)[f[s - 1] + k] = values[s][SentTo(ids[s], d)[k]]
  <2>1. k \in 1 .. Len(seqs[s]) /\ seqs[s][k] = values[s][SentTo(ids[s], d)[k]]
    BY <1>1
  <2> QED  BY <1>4, <2>1 DEF MadeOf
<1>6. Blocks(FlattenSeq(seqs), size) = seqs
  BY <1>1, <1>3, CutFlat
<1>7. Made(FlattenSeq(seqs), values, ids, d, n, f)
  BY <1>4, <1>5 DEF MadeOf, Made, X
<1> QED  BY <1>6, <1>7 DEF seqs

(* What is sent as expert ids, and what the experts make of the values.    *)
Locals(ids, n) == [s \in Source |-> [a \in 1 .. n |-> [local |-> LocalId(ids[s][a])]]]
Answers(values, ids, n) == [s \in Source |-> [a \in 1 .. n |-> Through(values[s][a], ids[s][a])]]

(* The experts of rank d answer what arrives, position by position, and    *)
(* cutting their output gives every rank the answers to what it sent.      *)
LEMMA ExpertsAnswer ==
  ASSUME NEW n \in Nat, NEW ids, AllHomed(ids, n), NEW d \in Source, NEW values,
         NEW size \in [Source -> Nat], \A s \in Source : size[s] = PartSizes(ids[s])[d]
  PROVE  Blocks(ExpertOutput(d, FlattenSeq(Arrivals(values, ids, d)),
                                FlattenSeq(Arrivals(Locals(ids, n), ids, d))), size)
           = Arrivals(Answers(values, ids, n), ids, d)
<1> DEFINE answers == Answers(values, ids, n)
           locals == Locals(ids, n)
           V == FlattenSeq(Arrivals(values, ids, d))
           L == FlattenSeq(Arrivals(locals, ids, d))
           W == FlattenSeq(Arrivals(answers, ids, d))
<1>1. PICK f : Begins(f, size)
  BY BeginsExist
<1>2. /\ Made(V, values, ids, d, n, f) /\ Made(L, locals, ids, d, n, f)
      /\ Made(W, answers, ids, d, n, f)
      /\ Blocks(W, size) = Arrivals(answers, ids, d)
  <2> HIDE DEF answers, locals
  <2> QED  BY <1>1, ArrivalsAt
<1>4. /\ Len(V) = f[NumSources] /\ Len(W) = f[NumSources]
      /\ V \in Seq(UNION {{values[s][a] : a \in 1 .. n} : s \in Source})
      /\ W \in Seq(UNION {{answers[s][a] : a \in 1 .. n} : s \in Source})
      /\ \A s \in Source : \A k \in 1 .. PartSizes(ids[s])[d] :
           /\ V[f[s - 1] + k] = values[s][SentTo(ids[s], d)[k]]
           /\ L[f[s - 1] + k] = locals[s][SentTo(ids[s], d)[k]]
           /\ W[f[s - 1] + k] = answers[s][SentTo(ids[s], d)[k]]
  <2> HIDE DEF V, L, W, answers, locals
  <2> QED  BY <1>2 DEF Made
<1>5. ASSUME NEW s \in Source, NEW k \in 1 .. PartSizes(ids[s])[d]
      PROVE  LET a == SentTo(ids[s], d)[k]
             IN  /\ answers[s][a] = Through(values[s][a], ids[s][a])
                 /\ locals[s][a].local = LocalId(ids[s][a])
                 /\ (d - 1) * ExpertsPerRank + LocalId(ids[s][a]) = ids[s][a]
  <2> DEFINE a == SentTo(ids[s], d)[k]
  <2>1. Homed(ids[s], n)
    BY AllHomedAre
  <2>2. a \in Bound(ids[s], d) /\ a \in 1 .. n
    <3>1. IsParcel(Parcels(values[s], ids[s])[d], values[s], ids[s], d, n)
      BY <2>1, ParcelAt
    <3> QED  BY <3>1 DEF IsParcel
  <2>3. ids[s][a] \in Expert /\ HomeOf(ids[s][a]) = d
    BY <2>2 DEF AllHomed, Bound
  <2> HIDE DEF a
  <2>4. (d - 1) * ExpertsPerRank + LocalId(ids[s][a]) = ids[s][a]
    BY <2>3, ExpertsAtHome
  <2>5. answers[s][a] = Through(values[s][a], ids[s][a]) /\ locals[s][a].local = LocalId(ids[s][a])
    BY <2>2 DEF Answers, Locals
  <2> QED  BY <2>4, <2>5 DEF a
<1> HIDE DEF V, W, L, answers, locals
<1>6. ASSUME NEW x \in 1 .. f[NumSources]
      PROVE  Through(V[x], (d - 1) * ExpertsPerRank + L[x].local) = W[x]
  <2>1. PICK s \in Source : \E k \in 1 .. size[s] : x = f[s - 1] + k
    BY <1>1, BeginsCover
  <2>2. PICK k \in 1 .. PartSizes(ids[s])[d] : x = f[s - 1] + k
    BY <2>1
  <2> DEFINE a == SentTo(ids[s], d)[k]
  <2>3. V[x] = values[s][a] /\ L[x] = locals[s][a] /\ W[x] = answers[s][a]
    BY <1>4, <2>2
  <2>4. /\ answers[s][a] = Through(values[s][a], ids[s][a])
        /\ locals[s][a].local = LocalId(ids[s][a])
        /\ (d - 1) * ExpertsPerRank + LocalId(ids[s][a]) = ids[s][a]
    BY <1>5
  <2> HIDE DEF a
  <2> QED  BY <2>3, <2>4
<1>7. DOMAIN V = 1 .. f[NumSources] /\ W = [x \in 1 .. f[NumSources] |-> W[x]]
  BY <1>4
<1>8. ExpertOutput(d, V, L) = W
  BY <1>6, <1>7 DEF ExpertOutput
<1> QED  BY <1>2, <1>8 DEF V, L, W, answers, locals

(* The k-th assignment of a slot, and which one of its slot a is.          *)
Nth(i, k) == (i - 1) * TopK + k
Turn(a) == ((a - 1) % TopK) + 1

(* The assignments of a batch are those of its slots, in order.            *)
LEMMA AssignmentSlots ==
  /\ BatchSize * TopK \in Nat /\ Assignments = 1 .. BatchSize * TopK
  /\ \A a \in Assignments : SlotOf(a) \in Slot /\ Turn(a) \in 1 .. TopK
  /\ \A i \in Slot : \A k \in 1 .. TopK :
       Nth(i, k) \in Assignments /\ SlotOf(Nth(i, k)) = i /\ Turn(Nth(i, k)) = k
<1> DEFINE n == BatchSize * TopK
<1>1. BatchSize \in Nat \ {0} /\ TopK \in Nat \ {0} /\ n \in Nat
  BY PlanAssumption, ExchangeAssumption
<1>2. ASSUME NEW a \in Assignments
      PROVE  SlotOf(a) \in Slot /\ Turn(a) \in 1 .. TopK
  <2>1. a - 1 \in Nat /\ a - 1 < BatchSize * TopK
    <3>1. a \in 1 .. n
      BY DEF Assignments
    <3> HIDE DEF n
    <3>2. a - 1 \in Nat /\ a - 1 < n
      BY <1>1, <3>1
    <3> QED  BY <3>2 DEF n
  <2>2. (a - 1) \div TopK \in Nat /\ (a - 1) % TopK \in 0 .. TopK - 1
    BY <1>1, <2>1, Quotient
  <2>3. (a - 1) \div TopK < BatchSize
    BY <1>1, <2>1, QuotientCompares
  <2> QED  BY <1>1, <2>2, <2>3 DEF SlotOf, Slot, Turn
<1>3. ASSUME NEW i \in Slot, NEW k \in 1 .. TopK
      PROVE  Nth(i, k) \in Assignments /\ SlotOf(Nth(i, k)) = i /\ Turn(Nth(i, k)) = k
  <2> DEFINE q == i - 1
             m == k - 1
             base == q * TopK
             x == base + m
  <2>1. q \in Nat /\ q + 1 <= BatchSize /\ q + 1 = i /\ m \in 0 .. TopK - 1 /\ m + 1 = k /\ q + 1 \in Nat
    BY <1>1 DEF Slot
  <2>2. base \in Nat /\ base + TopK <= n
    <3>1. (q + 1) * TopK = q * TopK + TopK /\ q * TopK \in Nat
      BY <1>1, <2>1, ProductMonotone
    <3>2. (q + 1) * TopK <= BatchSize * TopK
      BY <1>1, <2>1, ProductMonotone
    <3> QED  BY <3>1, <3>2
  <2>3. x \in Nat /\ x = q * TopK + m
    BY <1>1, <2>1, <2>2
  <2>4. x \div TopK = q
    BY <1>1, <2>1, <2>3, QuotientIs
  <2>5. /\ x % TopK \in 0 .. TopK - 1
        /\ x = (x \div TopK) * TopK + (x % TopK)
    BY <1>1, <2>3, Quotient
  <2>6. x = base + (x % TopK)
    BY <2>4, <2>5
  <2>7. Nth(i, k) = base + k
    BY DEF Nth
  <2> HIDE DEF base, n, q
  <2>8. base + k = x + 1
    BY <2>1, <2>2
  <2> HIDE DEF x, m
  <2>9. x % TopK = m
    BY <1>1, <2>1, <2>2, <2>5, <2>6 DEF x
  <2>10. x + 1 \in 1 .. n
    BY <1>1, <2>1, <2>2 DEF x
  <2> DEFINE y == x + 1
  <2>11. y - 1 = x
    BY <2>3
  <2> HIDE DEF y
  <2>12. SlotOf(y) = (y - 1) \div TopK + 1 /\ Turn(y) = ((y - 1) % TopK) + 1
    BY DEF SlotOf, Turn
  <2>13. SlotOf(y) = q + 1 /\ Turn(y) = m + 1
    BY <2>4, <2>9, <2>11, <2>12, Zenon
  <2> USE DEF y
  <2> QED  BY <2>1, <2>7, <2>8, <2>10, <2>13 DEF n, Assignments
<1> QED  BY <1>1, <1>2, <1>3 DEF Assignments

-----------------------------------------------------------------------------
(* Position x of what arrives at rank d holds assignment y[2] of rank y[1]. *)
Holds(x, y, ids, d, f) ==
  \E k \in 1 .. PartSizes(ids[y[1]])[d] : x = f[y[1] - 1] + k /\ SentTo(ids[y[1]], d)[k] = y[2]

(* The positions with local expert e, and the assignments for it. *)
Positions(flat, e) == {x \in DOMAIN flat : flat[x].local = e}
Wanted(ids, d, n, e) ==
  {y \in Source \X (1 .. n) : HomeOf(ids[y[1]][y[2]]) = d /\ LocalId(ids[y[1]][y[2]]) = e}

(* What arrives is counted by what was sent: there is one position for     *)
(* every assignment.                                                       *)
LEMMA ArrivalsCount ==
  ASSUME NEW n \in Nat, NEW ids, AllHomed(ids, n), NEW d \in Source,
         NEW size \in [Source -> Nat], \A s \in Source : size[s] = PartSizes(ids[s])[d],
         NEW f, Begins(f, size), \A i, j \in Nat : i <= j => f[i] <= f[j],
         NEW flat, Made(flat, Locals(ids, n), ids, d, n, f), NEW e
  PROVE  Cardinality(Positions(flat, e)) = Cardinality(Wanted(ids, d, n, e))
<1> DEFINE P == Positions(flat, e)
           Q == Wanted(ids, d, n, e)
           g == [x \in P |-> CHOOSE y \in Q : Holds(x, y, ids, d, f)]
<1>1. /\ DOMAIN flat = 1 .. f[NumSources]
      /\ \A s \in Source : \A k \in 1 .. PartSizes(ids[s])[d] :
           flat[f[s - 1] + k] = Locals(ids, n)[s][SentTo(ids[s], d)[k]]
  BY DEF Made
<1>2. ASSUME NEW s \in Source
      PROVE  /\ PartSizes(ids[s])[d] = Cardinality(Bound(ids[s], d)) /\ PartSizes(ids[s])[d] \in Nat
             /\ Bound(ids[s], d) = {a \in 1 .. n : HomeOf(ids[s][a]) = d}
             /\ \A k \in 1 .. PartSizes(ids[s])[d] : SentTo(ids[s], d)[k] \in Bound(ids[s], d)
             /\ \A a \in Bound(ids[s], d) : \E k \in 1 .. PartSizes(ids[s])[d] : SentTo(ids[s], d)[k] = a
             /\ \A j, k \in 1 .. PartSizes(ids[s])[d] :
                  SentTo(ids[s], d)[j] = SentTo(ids[s], d)[k] => j = k
  <2>1. Homed(ids[s], n) /\ DOMAIN ids[s] = 1 .. n
    BY AllHomedAre DEF AllHomed
  <2>2. PartSizes(ids[s])[d] = Cardinality(Bound(ids[s], d)) /\ PartSizes(ids[s])[d] \in Nat
    BY <2>1, BoundSets DEF PartSizes
  <2>3. /\ \A k \in 1 .. Cardinality(Bound(ids[s], d)) : SentTo(ids[s], d)[k] \in Bound(ids[s], d)
        /\ \A a \in Bound(ids[s], d) :
             \E k \in 1 .. Cardinality(Bound(ids[s], d)) : SentTo(ids[s], d)[k] = a
    BY <2>1, PartSizesAre
  <2>4. Lists(SentTo(ids[s], d), Bound(ids[s], d))
    BY <2>1, SentToLists
  <2>5. \A j, k \in 1 .. Cardinality(Bound(ids[s], d)) :
          SentTo(ids[s], d)[j] = SentTo(ids[s], d)[k] => j = k
    BY <2>4 DEF Lists
  <2>6. Bound(ids[s], d) = {a \in 1 .. n : HomeOf(ids[s][a]) = d}
    BY <2>1 DEF Bound
  <2> QED  BY <2>2, <2>3, <2>5, <2>6
<1>3. ASSUME NEW s \in Source, NEW a \in 1 .. n
      PROVE  Locals(ids, n)[s][a].local = LocalId(ids[s][a])
  BY DEF Locals
<1>4. ASSUME NEW x \in P
      PROVE  \E y \in Q : Holds(x, y, ids, d, f)
  <2>1. x \in 1 .. f[NumSources] /\ flat[x].local = e
    BY <1>1 DEF Positions
  <2>2. PICK s \in Source : \E k \in 1 .. size[s] : x = f[s - 1] + k
    BY <2>1, BeginsCover
  <2>3. PICK k \in 1 .. PartSizes(ids[s])[d] : x = f[s - 1] + k
    BY <2>2
  <2> DEFINE a == SentTo(ids[s], d)[k]
             y == <<s, a>>
  <2>4. a \in 1 .. n /\ HomeOf(ids[s][a]) = d
    BY <1>2
  <2>5. LocalId(ids[s][a]) = e
    <3>1. flat[x] = Locals(ids, n)[s][a]
      BY <1>1, <2>3
    <3> HIDE DEF a
    <3> QED  BY <1>3, <2>1, <2>4, <3>1
  <2>6. y[1] = s /\ y[2] = a
    OBVIOUS
  <2>7. Holds(x, y, ids, d, f)
    BY <2>3, <2>6 DEF Holds
  <2>8. y \in Source \X (1 .. n)
    BY <2>4
  <2> HIDE DEF y, a
  <2>9. y \in Q
    BY <2>4, <2>5, <2>6, <2>8 DEF Wanted
  <2> QED  BY <2>7, <2>9
<1>5. ASSUME NEW x, NEW y \in Q, NEW z \in Q, Holds(x, y, ids, d, f), Holds(x, z, ids, d, f)
      PROVE  y = z
  <2>1. y \in Source \X (1 .. n) /\ z \in Source \X (1 .. n)
    BY DEF Wanted
  <2>2. y[1] \in Source /\ z[1] \in Source /\ y = <<y[1], y[2]>> /\ z = <<z[1], z[2]>>
    BY <2>1
  <2>3. PICK j \in 1 .. PartSizes(ids[y[1]])[d] : x = f[y[1] - 1] + j /\ SentTo(ids[y[1]], d)[j] = y[2]
    BY <1>5 DEF Holds
  <2>4. PICK k \in 1 .. PartSizes(ids[z[1]])[d] : x = f[z[1] - 1] + k /\ SentTo(ids[z[1]], d)[k] = z[2]
    BY <1>5 DEF Holds
  <2>5. j \in 1 .. size[y[1]] /\ k \in 1 .. size[z[1]] /\ f[y[1] - 1] + j = f[z[1] - 1] + k
    BY <2>2, <2>3, <2>4
  <2>6. y[1] = z[1] /\ j = k
    BY <2>2, <2>5, BeginsApart
  <2> QED  BY <2>2, <2>3, <2>4, <2>6
<1>6. ASSUME NEW x, NEW z, NEW y \in Q, Holds(x, y, ids, d, f), Holds(z, y, ids, d, f)
      PROVE  x = z
  <2>1. y[1] \in Source
    BY DEF Wanted
  <2>2. PICK j \in 1 .. PartSizes(ids[y[1]])[d] : x = f[y[1] - 1] + j /\ SentTo(ids[y[1]], d)[j] = y[2]
    BY <1>6 DEF Holds
  <2>3. PICK k \in 1 .. PartSizes(ids[y[1]])[d] : z = f[y[1] - 1] + k /\ SentTo(ids[y[1]], d)[k] = y[2]
    BY <1>6 DEF Holds
  <2>4. j = k
    BY <1>2, <2>1, <2>2, <2>3
  <2> QED  BY <2>2, <2>3, <2>4
<1>7. ASSUME NEW y \in Q
      PROVE  \E x \in P : Holds(x, y, ids, d, f)
  <2> DEFINE s == y[1]
             a == y[2]
             m == PartSizes(ids[s])[d]
  <2>1. s \in Source /\ a \in 1 .. n /\ HomeOf(ids[s][a]) = d /\ LocalId(ids[s][a]) = e
    BY DEF Wanted
  <2> HIDE DEF s, a
  <2>2. a \in Bound(ids[s], d) /\ m \in Nat
    BY <1>2, <2>1
  <2>3. PICK k \in 1 .. m : SentTo(ids[s], d)[k] = a
    BY <1>2, <2>1, <2>2
  <2>4. flat[f[s - 1] + k].local = e
    <3>1. flat[f[s - 1] + k] = Locals(ids, n)[s][a]
      BY <1>1, <2>1, <2>3
    <3> QED  BY <1>3, <2>1, <3>1
  <2>5. f[s - 1] \in Nat /\ f[s] = f[s - 1] + m /\ f[s] <= f[NumSources] /\ f[NumSources] \in Nat
    BY <2>1, SourceNumbers DEF Begins
  <2>6. f[s - 1] + k \in 1 .. f[NumSources]
    <3> HIDE DEF m
    <3> QED  BY <2>2, <2>5
  <2>7. f[s - 1] + k \in P
    BY <1>1, <2>4, <2>6 DEF Positions
  <2>8. Holds(f[s - 1] + k, y, ids, d, f)
    BY <2>3 DEF Holds, s, a
  <2> QED  BY <2>7, <2>8
<1>8. IsFiniteSet(P)
  <2>1. P \subseteq 1 .. f[NumSources]
    BY <1>1 DEF Positions
  <2>2. f[NumSources] \in Nat
    BY SourceNumbers DEF Begins
  <2> HIDE DEF P
  <2>3. IsFiniteSet(1 .. f[NumSources])
    BY <2>2, FS_Interval
  <2> QED  BY <2>1, <2>3, FS_Subset
<1> HIDE DEF P, Q
<1>9. \A x \in P : g[x] \in Q /\ Holds(x, g[x], ids, d, f)
  BY <1>4
<1>10. g \in [P -> Q]
  BY <1>9
<1> HIDE DEF g
<1>11. g \in Bijection(P, Q)
  <2>1. \A x, z \in P : g[x] = g[z] => x = z
    BY <1>6, <1>9
  <2>2. \A y \in Q : \E x \in P : g[x] = y
    BY <1>5, <1>7, <1>9
  <2> QED  BY <1>10, <2>1, <2>2 DEF Bijection, Injection, Surjection, IsInjective
<1>12. Cardinality(Q) = Cardinality(P)
  BY <1>8, <1>11, FS_Bijection DEF ExistsBijection
<1> QED  BY <1>12 DEF P, Q
(* Flattening goes through the sequences one by one.                       *)
LEMMA FlatSteps ==
  ASSUME NEW seqs, DOMAIN seqs = Source
  PROVE  \E flat : /\ FlattenSeq(seqs) = flat[NumSources]
                   /\ \A i \in 1 .. NumSources : flat[i] = IF i = 1 THEN seqs[i] ELSE flat[i - 1] \o seqs[i]
<1> DEFINE Flat(g) == [i \in 1 .. Len(seqs) |-> IF i = 1 THEN seqs[i] ELSE g[i - 1] \o seqs[i]]
           flat == CHOOSE g : g = Flat(g)
<1>1. Len(seqs) = NumSources /\ NumSources \in Nat \ {0}
  BY SourceNumbers
<1>2. \E g : g = Flat(g)
  <2>1. \A g : Flat(g) = [i \in 1 .. NumSources |-> IF i = 1 THEN seqs[i] ELSE g[i - 1] \o seqs[i]]
    BY <1>1
  <2> HIDE DEF Flat
  <2> QED  BY <2>1, FlattenedExists
<1>3. flat = Flat(flat)
  <2> HIDE DEF Flat
  <2> QED  BY <1>2
<1>4. FlattenSeq(seqs) = flat[NumSources]
  BY <1>1 DEF FlattenSeq
<1> HIDE DEF flat
<1>5. \A i \in 1 .. NumSources : flat[i] = IF i = 1 THEN seqs[i] ELSE flat[i - 1] \o seqs[i]
  BY <1>1, <1>3
<1> QED  BY <1>4, <1>5

(* The first four of the ranks, when there are four.                       *)
LEMMA FourFlat ==
  ASSUME NumSources = 4, NEW seqs, DOMAIN seqs = Source
  PROVE  FlattenSeq(seqs) = seqs[1] \o seqs[2] \o seqs[3] \o seqs[4]
<1>1. PICK flat : /\ FlattenSeq(seqs) = flat[4]
                  /\ \A i \in 1 .. 4 : flat[i] = IF i = 1 THEN seqs[i] ELSE flat[i - 1] \o seqs[i]
  BY FlatSteps
<1>2. ASSUME NEW i \in 1 .. 3, NEW j \in 1 .. 4, j = i + 1
      PROVE  flat[j] = flat[i] \o seqs[j]
  <2>1. j # 1 /\ j - 1 = i
    BY <1>2
  <2>2. flat[j] = flat[j - 1] \o seqs[j]
    BY <1>1, <2>1
  <2> QED  BY <2>1, <2>2
<1>3. flat[1] = seqs[1]
  BY <1>1, 1 \in 1 .. 4
<1>4. flat[2] = flat[1] \o seqs[2]
  BY <1>2, 1 \in 1 .. 3, 2 \in 1 .. 4, 2 = 1 + 1
<1>5. flat[3] = flat[2] \o seqs[3]
  BY <1>2, 2 \in 1 .. 3, 3 \in 1 .. 4, 3 = 2 + 1
<1>6. flat[4] = flat[3] \o seqs[4]
  BY <1>2, 3 \in 1 .. 3, 4 \in 1 .. 4, 4 = 3 + 1
<1> QED  BY <1>1, <1>3, <1>4, <1>5, <1>6

(* What a rank packs and cuts by its splits is what arrives from it.       *)
LEMMA HandedIn ==
  ASSUME NEW n \in Nat, NEW ids, AllHomed(ids, n), NEW s \in Source, NEW d \in Source, NEW values
  PROVE  Blocks(Packed(values[s], ids[s]), SplitVector(ids[s]))[d] = Arrivals(values, ids, d)[s]
<1>1. Homed(ids[s], n)
  BY AllHomedAre
<1>2. Blocks(Packed(values[s], ids[s]), SplitVector(ids[s])) = Parcels(values[s], ids[s])
  BY <1>1, PackedParcels
<1> QED  BY <1>2 DEF Arrivals

(* The order of packing is one of the assignments.                         *)
LEMMA PackOrderWithin ==
  ASSUME NEW n \in Nat, NEW ids, Homed(ids, n)
  PROVE  \A x \in 1 .. n : PackOrder(ids)[x] \in 1 .. n
<1>1. /\ PartSizes(ids) \in [Source -> Nat]
      /\ \A d : SentTo(ids, d) \in Seq(1 .. n) /\ Len(SentTo(ids, d)) = Cardinality(Bound(ids, d))
  BY PartSizesAre
<1>2. PICK f : Begins(f, PartSizes(ids)) /\ \A i, j \in Nat : i <= j => f[i] <= f[j]
  BY <1>1, BeginsExist
<1>3. /\ f[NumSources] = n
      /\ \A d \in Source : \A k \in 1 .. Cardinality(Bound(ids, d)) :
           PackOrder(ids)[f[d - 1] + k] = SentTo(ids, d)[k]
  BY <1>2, PackOrderLists
<1>4. ASSUME NEW x \in 1 .. n
      PROVE  PackOrder(ids)[x] \in 1 .. n
  <2>1. PICK d \in Source : \E k \in 1 .. PartSizes(ids)[d] : x = f[d - 1] + k
    BY <1>2, <1>3, BeginsCover
  <2>2. PICK k \in 1 .. Cardinality(Bound(ids, d)) : x = f[d - 1] + k
    BY <2>1 DEF PartSizes
  <2>3. PackOrder(ids)[x] = SentTo(ids, d)[k]
    BY <1>3, <2>2
  <2>4. k \in 1 .. Len(SentTo(ids, d)) /\ SentTo(ids, d) \in Seq(1 .. n)
    BY <1>1
  <2>5. SentTo(ids, d)[k] \in 1 .. n
    <3> DEFINE q == SentTo(ids, d)
    <3>1. k \in 1 .. Len(q) /\ q \in Seq(1 .. n)
      BY <2>4
    <3> HIDE DEF q
    <3>2. q[k] \in 1 .. n
      BY <3>1
    <3> QED  BY <3>2 DEF q
  <2> QED  BY <2>3, <2>5
<1> QED  BY <1>4

(* The tokens, each with the rank and the slot it comes from and the       *)
(* expert it is meant for; and the bare numbers of the experts.            *)
Tagged(ids, n) ==
  [s \in Source |-> [a \in 1 .. n |-> [rank |-> s, slot |-> a, expert |-> ids[s][a]]]]
Numbered(ids, n) == [s \in Source |-> [a \in 1 .. n |-> LocalId(ids[s][a])]]

(* What is read off a packed token is the packing of what is read off it.  *)
LEMMA TagsPacked ==
  ASSUME NEW n \in Nat, NEW ids, AllHomed(ids, n), NEW s \in Source,
         NEW tags, tags = Packed(Tagged(ids, n)[s], ids[s])
  PROVE  /\ [x \in DOMAIN tags |-> LocalId(tags[x].expert)] = Packed(Numbered(ids, n)[s], ids[s])
         /\ [x \in DOMAIN tags |-> Through(tags[x], tags[x].expert)]
              = Packed(Answers(Tagged(ids, n), ids, n)[s], ids[s])
<1> DEFINE order == PackOrder(ids[s])
           tagged == Tagged(ids, n)
<1>1. Homed(ids[s], n) /\ DOMAIN ids[s] = 1 .. n
  BY AllHomedAre DEF Homed
<1>2. \A x \in 1 .. n : order[x] \in 1 .. n
  BY <1>1, PackOrderWithin
<1>3. \A values : Packed(values, ids[s]) = [x \in 1 .. n |-> values[order[x]]]
  BY <1>1 DEF Packed
<1>4. tags = [x \in 1 .. n |-> tagged[s][order[x]]]
  BY <1>3
<1>5. \A a \in 1 .. n : /\ tagged[s][a].expert = ids[s][a]
                        /\ Numbered(ids, n)[s][a] = LocalId(ids[s][a])
  BY DEF Tagged, Numbered
<1>6. \A a \in 1 .. n : Answers(tagged, ids, n)[s][a] = Through(tagged[s][a], ids[s][a])
  BY DEF Answers
<1> HIDE DEF order, tagged
<1>7. \A x \in 1 .. n : /\ LocalId(tags[x].expert) = Numbered(ids, n)[s][order[x]]
                        /\ Through(tags[x], tags[x].expert) = Answers(tagged, ids, n)[s][order[x]]
  BY <1>2, <1>4, <1>5, <1>6
<1>8. DOMAIN tags = 1 .. n
  BY <1>4
<1>9. [x \in DOMAIN tags |-> LocalId(tags[x].expert)] = [x \in 1 .. n |-> Numbered(ids, n)[s][order[x]]]
  BY <1>7, <1>8
<1>10. [x \in DOMAIN tags |-> Through(tags[x], tags[x].expert)]
         = [x \in 1 .. n |-> Answers(tagged, ids, n)[s][order[x]]]
  BY <1>7, <1>8
<1> QED  BY <1>3, <1>9, <1>10 DEF tagged

(* The experts take the numbers as they arrive.                            *)
LEMMA NumbersLabelled ==
  ASSUME NEW n \in Nat, NEW ids, AllHomed(ids, n), NEW d \in Source,
         NEW size \in [Source -> Nat], \A s \in Source : size[s] = PartSizes(ids[s])[d],
         NEW flat, flat = FlattenSeq(Arrivals(Numbered(ids, n), ids, d))
  PROVE  [x \in DOMAIN flat |-> [local |-> flat[x]]] = FlattenSeq(Arrivals(Locals(ids, n), ids, d))
<1> DEFINE numbers == Numbered(ids, n)
           locals == Locals(ids, n)
           L == FlattenSeq(Arrivals(locals, ids, d))
<1>1. PICK f : Begins(f, size)
  BY BeginsExist
<1>2. Made(flat, numbers, ids, d, n, f) /\ Made(L, locals, ids, d, n, f)
  <2> HIDE DEF numbers, locals
  <2>1. Made(FlattenSeq(Arrivals(numbers, ids, d)), numbers, ids, d, n, f)
    BY <1>1, ArrivalsAt
  <2>2. Made(L, locals, ids, d, n, f)
    BY <1>1, ArrivalsAt
  <2> QED  BY <2>1, <2>2 DEF numbers
<1>3. /\ Len(flat) = f[NumSources] /\ Len(L) = f[NumSources]
      /\ flat \in Seq(UNION {{numbers[s][a] : a \in 1 .. n} : s \in Source})
      /\ L \in Seq(UNION {{locals[s][a] : a \in 1 .. n} : s \in Source})
      /\ \A s \in Source : \A k \in 1 .. PartSizes(ids[s])[d] :
           /\ flat[f[s - 1] + k] = numbers[s][SentTo(ids[s], d)[k]]
           /\ L[f[s - 1] + k] = locals[s][SentTo(ids[s], d)[k]]
  <2> HIDE DEF L, locals, numbers
  <2> QED  BY <1>2 DEF Made
<1>4. ASSUME NEW s \in Source, NEW k \in 1 .. PartSizes(ids[s])[d]
      PROVE  locals[s][SentTo(ids[s], d)[k]] = [local |-> numbers[s][SentTo(ids[s], d)[k]]]
  <2>1. Homed(ids[s], n)
    BY AllHomedAre
  <2>2. SentTo(ids[s], d)[k] \in 1 .. n
    <3>1. IsParcel(Parcels(locals[s], ids[s])[d], locals[s], ids[s], d, n)
      BY <2>1, ParcelAt
    <3> QED  BY <3>1 DEF IsParcel
  <2> QED  BY <2>2 DEF Locals, Numbered
<1> HIDE DEF L, locals, numbers
<1>5. ASSUME NEW x \in 1 .. f[NumSources]
      PROVE  L[x] = [local |-> flat[x]]
  <2>1. PICK s \in Source : \E k \in 1 .. size[s] : x = f[s - 1] + k
    BY <1>1, BeginsCover
  <2>2. PICK k \in 1 .. PartSizes(ids[s])[d] : x = f[s - 1] + k
    BY <2>1
  <2> QED  BY <1>3, <1>4, <2>2
<1>6. DOMAIN flat = 1 .. f[NumSources] /\ L = [x \in 1 .. f[NumSources] |-> L[x]]
  <2> DEFINE X == UNION {{numbers[s][a] : a \in 1 .. n} : s \in Source}
             Y == UNION {{locals[s][a] : a \in 1 .. n} : s \in Source}
  <2>1. flat \in Seq(X) /\ L \in Seq(Y)
    BY <1>3
  <2> HIDE DEF X, Y
  <2> QED  BY <1>3, <2>1
<1>7. DOMAIN flat = 1 .. f[NumSources]
  BY <1>6
<1>8. [x \in DOMAIN flat |-> [local |-> flat[x]]] = [x \in 1 .. f[NumSources] |-> L[x]]
  BY <1>5, <1>7
<1> QED  BY <1>6, <1>8 DEF L, locals

=============================================================================
