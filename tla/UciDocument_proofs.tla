--------------------------- MODULE UciDocument_proofs ---------------------------
(***************************************************************************)
(* The parser reads back what the renderer writes, for every document:     *)
(* any number of packages, sections and entries, any names and any values  *)
(* on one line, quotes and backslashes and blanks among their symbols.     *)
(*                                                                         *)
(* Rendering and parsing are recursive functions, so the facts about them  *)
(* are proved by induction over sequences; the induction is over a SET of  *)
(* sequences, which takes no operator as a parameter.                      *)
(***************************************************************************)
EXTENDS UciDocument, TLAPS, FiniteSetTheorems, SequenceTheorems, WellFoundedInduction

-----------------------------------------------------------------------------
(***************************************************************************)
(* Naturals and sequences.                                                 *)
(***************************************************************************)

(* A set of naturals has a smallest element, if it has any: Min.           *)
LEMMA MinIs ==
  ASSUME NEW T \in SUBSET Nat, T # {}
  PROVE  Min(T) \in T /\ \A y \in T : Min(T) <= y
<1> DEFINE R == OpToRel(<, Nat)
<1>1. IsWellFoundedOn(R, Nat)
  BY NatLessThanWellFounded, Zenon
<1>2. PICK x \in T : \A y \in T : ~ (<<y, x>> \in R)
  <2> HIDE DEF R
  <2> QED
    BY <1>1, WFMin
<1>3. \A y \in T : ~ (y < x)
  BY <1>2 DEF OpToRel
<1>4. \E z \in T : \A y \in T : z <= y
  BY <1>3
<1>5. QED
  BY <1>4 DEF Min

(* Induction, over the set of the naturals of which something holds.       *)
LEMMA Induction ==
  ASSUME NEW S \in SUBSET Nat, 0 \in S, \A n \in Nat : n \in S => n + 1 \in S
  PROVE  \A n \in Nat : n \in S
<1> SUFFICES ASSUME Nat \ S # {} PROVE FALSE
  OBVIOUS
<1> DEFINE m == Min(Nat \ S)
<1>1. m \in Nat \ S /\ \A y \in Nat \ S : m <= y
  BY MinIs
<1> HIDE DEF m
<1>2. m # 0 /\ m - 1 \in Nat /\ m - 1 \notin Nat \ S
  BY <1>1
<1>3. (m - 1) + 1 \in S
  BY <1>2
<1>4. (m - 1) + 1 = m
  BY <1>1
<1>5. QED
  BY <1>1, <1>3, <1>4

(* What holds of the empty sequence, and of a sequence with one element    *)
(* more, at its end or at its beginning, holds of every sequence.          *)
LEMMA AppendInduction ==
  ASSUME NEW T, NEW S, <<>> \in S, \A s \in Seq(T), e \in T : s \in S => Append(s, e) \in S
  PROVE  \A s \in Seq(T) : s \in S
<1> DEFINE N == {n \in Nat : \A s \in Seq(T) : Len(s) = n => s \in S}
<1>1. 0 \in N
  <2>1. \A s \in Seq(T) : Len(s) = 0 => s = <<>>
    OBVIOUS
  <2>2. QED
    BY <2>1
<1>2. ASSUME NEW n \in Nat, n \in N PROVE n + 1 \in N
  <2> SUFFICES ASSUME NEW s \in Seq(T), Len(s) = n + 1 PROVE s \in S
    OBVIOUS
  <2>1. s # <<>>
    OBVIOUS
  <2>2. PICK r \in Seq(T) : \E e \in T : s = Append(r, e)
    BY <2>1, SequenceEmptyOrAppend
  <2>3. PICK e \in T : s = Append(r, e)
    BY <2>2
  <2>4. Len(r) = n
    BY <2>3
  <2>5. QED
    BY <1>2, <2>3, <2>4
<1>3. \A n \in Nat : n \in N
  <2> HIDE DEF N
  <2>1. N \in SUBSET Nat
    BY DEF N
  <2>2. QED
    BY <1>1, <1>2, <2>1, Induction
<1>4. \A s \in Seq(T) : Len(s) \in Nat
  OBVIOUS
<1>5. QED
  BY <1>3, <1>4

LEMMA FrontInduction ==
  ASSUME NEW T, NEW S, <<>> \in S, \A s \in Seq(T), e \in T : s \in S => <<e>> \o s \in S
  PROVE  \A s \in Seq(T) : s \in S
<1> DEFINE N == {n \in Nat : \A s \in Seq(T) : Len(s) = n => s \in S}
<1>1. 0 \in N
  <2>1. \A s \in Seq(T) : Len(s) = 0 => s = <<>>
    OBVIOUS
  <2>2. QED
    BY <2>1
<1>2. ASSUME NEW n \in Nat, n \in N PROVE n + 1 \in N
  <2> SUFFICES ASSUME NEW s \in Seq(T), Len(s) = n + 1 PROVE s \in S
    OBVIOUS
  <2>1. s # <<>>
    OBVIOUS
  <2>2. Head(s) \in T /\ Tail(s) \in Seq(T) /\ Len(Tail(s)) = n
    BY <2>1
  <2>3. s = <<Head(s)>> \o Tail(s)
    BY <2>1
  <2>4. QED
    BY <1>2, <2>2, <2>3
<1>3. \A n \in Nat : n \in N
  <2> HIDE DEF N
  <2>1. N \in SUBSET Nat
    BY DEF N
  <2>2. QED
    BY <1>1, <1>2, <2>1, Induction
<1>4. \A s \in Seq(T) : Len(s) \in Nat
  OBVIOUS
<1>5. QED
  BY <1>3, <1>4

LEMMA FunctionIsSeq ==
  ASSUME NEW T, NEW n \in Nat, NEW f \in [1 .. n -> T]
  PROVE  f \in Seq(T) /\ Len(f) = n
<1>1. f \in Seq(T)
  BY SeqDef
<1>2. QED
  BY <1>1

LEMMA FrontIs ==
  ASSUME NEW T, NEW e \in T, NEW t \in Seq(T)
  PROVE  /\ <<e>> \o t \in Seq(T) /\ <<e>> \o t # <<>> /\ Len(<<e>> \o t) = Len(t) + 1
         /\ Len(t) \in Nat /\ (<<e>> \o t)[1] = e
         /\ \A i \in 1 .. Len(t) : (<<e>> \o t)[i + 1] = t[i]
         /\ Tail(<<e>> \o t) = t
<1> DEFINE long == <<e>> \o t
<1>1. /\ long \in Seq(T) /\ Len(long) = Len(t) + 1 /\ Len(t) \in Nat /\ long[1] = e
      /\ \A i \in 1 .. Len(t) : long[i + 1] = t[i]
  OBVIOUS
<1> HIDE DEF long
<1>2. long # <<>>
  BY <1>1
<1>3. Tail(long) = t
  <2>1. /\ Tail(long) \in Seq(T) /\ Len(Tail(long)) = Len(long) - 1
        /\ \A i \in 1 .. Len(Tail(long)) : Tail(long)[i] = long[i + 1]
    BY <1>1, <1>2, HeadTailProperties
  <2>2. QED
    BY <1>1, <2>1, SeqEqual
<1>4. QED
  BY <1>1, <1>2, <1>3 DEF long

LEMMA LastOf ==
  ASSUME NEW T, NEW s \in Seq(T), NEW t \in Seq(T), t # <<>>
  PROVE  /\ s \o t \in Seq(T) /\ s \o t # <<>>
         /\ (s \o t)[Len(s \o t)] = t[Len(t)]
         /\ s # <<>> => (s \o t)[1] = s[1]
<1>1. /\ s \o t \in Seq(T) /\ Len(s \o t) = Len(s) + Len(t)
      /\ \A i \in 1 .. Len(s) + Len(t) : (s \o t)[i] = IF i <= Len(s) THEN s[i] ELSE t[i - Len(s)]
  BY ConcatProperties
<1>2. Len(s) \in Nat /\ Len(t) \in Nat \ {0} /\ (s # <<>> => Len(s) # 0)
  BY EmptySeq
<1>3. QED
  BY <1>1, <1>2

LEMMA OnlyOne ==
  ASSUME NEW T, NEW e \in T
  PROVE  <<e>> \in Seq(T) /\ Len(<<e>>) = 1 /\ <<e>>[1] = e /\ <<e>> # <<>>
OBVIOUS

LEMMA AppendToConcat ==
  ASSUME NEW T, NEW s \in Seq(T), NEW t \in Seq(T), NEW e \in T
  PROVE  s \o Append(t, e) = Append(s \o t, e)
OBVIOUS

-----------------------------------------------------------------------------
(***************************************************************************)
(* Sequences one after the other: FlattenSeq.                              *)
(***************************************************************************)
FlatTo(seqs, f, i) == IF i = 1 THEN seqs[i] ELSE f[i - 1] \o seqs[i]
IsFlat(seqs, m, f) == f = [i \in 1 .. m |-> FlatTo(seqs, f, i)]

LEMMA FlatExists ==
  ASSUME NEW seqs
  PROVE  \A m \in Nat : \E f : IsFlat(seqs, m, f)
<1> DEFINE S == {m \in Nat : \E f : IsFlat(seqs, m, f)}
<1>1. 0 \in S
  <2>1. IsFlat(seqs, 0, [i \in 1 .. 0 |-> <<>>])
    BY DEF IsFlat
  <2>2. QED
    BY <2>1
<1>2. ASSUME NEW m \in Nat, m \in S PROVE m + 1 \in S
  <2>1. PICK f : IsFlat(seqs, m, f)
    BY <1>2
  <2> DEFINE g == [i \in 1 .. m + 1 |-> IF i = m + 1 THEN FlatTo(seqs, f, i) ELSE f[i]]
  <2>2. ASSUME NEW i \in 1 .. m + 1 PROVE g[i] = FlatTo(seqs, g, i)
    <3>1. i # 1 => g[i - 1] = f[i - 1]
      OBVIOUS
    <3>2. FlatTo(seqs, g, i) = FlatTo(seqs, f, i)
      BY <3>1 DEF FlatTo
    <3>3. i # m + 1 => f[i] = FlatTo(seqs, f, i)
      BY <2>1 DEF IsFlat
    <3>4. QED
      BY <3>2, <3>3
  <2>3. g = [i \in 1 .. m + 1 |-> FlatTo(seqs, g, i)]
    <3>1. g = [i \in 1 .. m + 1 |-> g[i]]
      OBVIOUS
    <3> HIDE DEF g
    <3>2. QED
      BY <2>2, <3>1
  <2>4. IsFlat(seqs, m + 1, g)
    BY <2>3 DEF IsFlat
  <2>5. QED
    BY <2>4
<1>3. QED
  <2> HIDE DEF S
  <2>1. S \in SUBSET Nat
    BY DEF S
  <2>2. \A m \in Nat : m \in S
    BY <1>1, <1>2, <2>1, Induction
  <2>3. QED
    BY <2>2 DEF S

LEMMA FlatValue ==
  ASSUME NEW seqs, NEW m \in Nat, NEW f, IsFlat(seqs, m, f), NEW i \in 1 .. m
  PROVE  f[i] = FlatTo(seqs, f, i)
BY Zenon DEF IsFlat

(* Two that flatten sequences that agree at first agree there.             *)
AgreeTo(seqs, more, m, k) == m <= k /\ \A i \in 1 .. m : seqs[i] = more[i]

LEMMA FlatAgrees ==
  ASSUME NEW seqs, NEW more, NEW m \in Nat, NEW k \in Nat, NEW f, NEW g,
         IsFlat(seqs, m, f), IsFlat(more, k, g), AgreeTo(seqs, more, m, k)
  PROVE  \A i \in 1 .. m : f[i] = g[i]
<1> DEFINE S == {n \in Nat : n \in 1 .. m => f[n] = g[n]}
<1>1. 0 \in S
  OBVIOUS
<1>2. ASSUME NEW n \in Nat, n \in S PROVE n + 1 \in S
  <2> SUFFICES ASSUME n + 1 \in 1 .. m PROVE f[n + 1] = g[n + 1]
    OBVIOUS
  <2>1. f[n + 1] = FlatTo(seqs, f, n + 1) /\ g[n + 1] = FlatTo(more, g, n + 1)
    <3>1. n + 1 \in 1 .. k
      BY DEF AgreeTo
    <3>2. f[n + 1] = FlatTo(seqs, f, n + 1)
      BY FlatValue
    <3>3. g[n + 1] = FlatTo(more, g, n + 1)
      BY <3>1, FlatValue
    <3>4. QED
      BY <3>2, <3>3
  <2>2. seqs[n + 1] = more[n + 1]
    BY DEF AgreeTo
  <2>3. n # 0 => f[n] = g[n]
    BY <1>2
  <2>4. (n + 1) - 1 = n /\ (n + 1 = 1 <=> n = 0)
    OBVIOUS
  <2>5. QED
    BY <2>1, <2>2, <2>3, <2>4 DEF FlatTo
<1>3. QED
  <2> HIDE DEF S
  <2>1. S \in SUBSET Nat
    BY DEF S
  <2>2. \A n \in Nat : n \in S
    BY <1>1, <1>2, <2>1, Induction
  <2>3. QED
    BY <2>2 DEF S

LEMMA FlattenIs ==
  ASSUME NEW T, NEW seqs \in Seq(T), seqs # <<>>
  PROVE  \E f : IsFlat(seqs, Len(seqs), f) /\ FlattenSeq(seqs) = f[Len(seqs)]
<1>1. Len(seqs) \in Nat /\ Len(seqs) # 0
  OBVIOUS
<1>2. \E f : IsFlat(seqs, Len(seqs), f)
  BY <1>1, FlatExists
<1> DEFINE f == CHOOSE f : f = [i \in 1 .. Len(seqs) |-> IF i = 1 THEN seqs[i] ELSE f[i - 1] \o seqs[i]]
<1>3. IsFlat(seqs, Len(seqs), f)
  BY <1>2 DEF IsFlat, FlatTo
<1>4. FlattenSeq(seqs) = f[Len(seqs)]
  BY <1>1 DEF FlattenSeq
<1>5. QED
  BY <1>3, <1>4

(* The two equations of FlattenSeq. *)
LEMMA FlattenEmpty == FlattenSeq(<<>>) = <<>>
BY DEF FlattenSeq

LEMMA FlattenAppend ==
  ASSUME NEW T, NEW seqs \in Seq(Seq(T)), NEW s \in Seq(T)
  PROVE  FlattenSeq(Append(seqs, s)) = FlattenSeq(seqs) \o s
<1> DEFINE more == Append(seqs, s)
           m == Len(seqs)
<1>1. /\ more \in Seq(Seq(T)) /\ more # <<>> /\ Len(more) = m + 1 /\ m \in Nat
      /\ more[m + 1] = s /\ \A i \in 1 .. m : seqs[i] = more[i]
  BY AppendProperties, LenProperties
<1> HIDE DEF more
<1>2. PICK g : IsFlat(more, Len(more), g) /\ FlattenSeq(more) = g[Len(more)]
  BY <1>1, FlattenIs
<1>3. g[m + 1] = FlatTo(more, g, m + 1)
  <2>1. m + 1 \in 1 .. m + 1 /\ m + 1 \in Nat /\ IsFlat(more, m + 1, g)
    BY <1>1, <1>2
  <2>2. QED
    BY <2>1, FlatValue
<1>4. CASE seqs = <<>>
  <2>1. m = 0
    BY <1>4
  <2>2. FlattenSeq(more) = s
    BY <1>1, <1>2, <1>3, <2>1 DEF FlatTo
  <2>3. FlattenSeq(seqs) \o s = s
    BY <1>4, FlattenEmpty
  <2>4. QED
    BY <2>2, <2>3 DEF more
<1>5. CASE seqs # <<>>
  <2>1. PICK f : IsFlat(seqs, m, f) /\ FlattenSeq(seqs) = f[m]
    BY <1>5, FlattenIs
  <2>2. m # 0
    BY <1>5
  <2>3. \A i \in 1 .. m : f[i] = g[i]
    <3> DEFINE k == m + 1
    <3>1. m \in Nat /\ k \in Nat /\ m <= k /\ IsFlat(more, k, g)
      BY <1>1, <1>2
    <3>2. AgreeTo(seqs, more, m, k)
      BY <1>1 DEF AgreeTo
    <3>3. IsFlat(seqs, m, f)
      BY <2>1
    <3> HIDE DEF m, k
    <3>4. QED
      BY <3>1, <3>2, <3>3, FlatAgrees
  <2>4. f[m] = g[m]
    BY <1>1, <2>2, <2>3
  <2>5. g[m + 1] = g[m] \o s
    <3>1. (m + 1) - 1 = m /\ m + 1 # 1
      BY <1>1, <2>2
    <3>2. QED
      BY <1>1, <1>3, <3>1 DEF FlatTo
  <2>6. QED
    BY <1>1, <1>2, <2>1, <2>4, <2>5 DEF more
<1>6. QED
  BY <1>4, <1>5

LEMMA FlattenType ==
  ASSUME NEW T, NEW seqs \in Seq(Seq(T))
  PROVE  FlattenSeq(seqs) \in Seq(T)
<1> DEFINE S == {ss \in Seq(Seq(T)) : FlattenSeq(ss) \in Seq(T)}
<1>1. <<>> \in S
  <2>1. <<>> \in Seq(Seq(T)) /\ <<>> \in Seq(T)
    BY EmptySeq
  <2>2. FlattenSeq(<<>>) \in Seq(T)
    BY <2>1, FlattenEmpty
  <2>3. QED
    BY <2>1, <2>2
<1>2. ASSUME NEW ss \in Seq(Seq(T)), NEW s \in Seq(T), ss \in S PROVE Append(ss, s) \in S
  <2>1. FlattenSeq(Append(ss, s)) = FlattenSeq(ss) \o s
    BY FlattenAppend
  <2>2. FlattenSeq(ss) \in Seq(T) /\ Append(ss, s) \in Seq(Seq(T))
    BY <1>2, AppendProperties
  <2>3. FlattenSeq(ss) \o s \in Seq(T)
    BY <2>2
  <2>4. FlattenSeq(Append(ss, s)) \in Seq(T)
    BY <2>1, <2>3
  <2>5. QED
    BY <2>2, <2>4
<1>3. QED
  <2> HIDE DEF S
  <2>1. \A ss \in Seq(Seq(T)) : ss \in S
    BY <1>1, <1>2, AppendInduction
  <2>2. QED
    BY <2>1 DEF S

(* And from the front. *)
LEMMA FlattenFront ==
  ASSUME NEW T, NEW first \in Seq(T), NEW seqs \in Seq(Seq(T))
  PROVE  FlattenSeq(<<first>> \o seqs) = first \o FlattenSeq(seqs)
<1> DEFINE S == {ss \in Seq(Seq(T)) : FlattenSeq(<<first>> \o ss) = first \o FlattenSeq(ss)}
<1>1. <<>> \in S
  <2>1. <<first>> \o <<>> = Append(<<>>, first) /\ <<>> \in Seq(Seq(T))
    OBVIOUS
  <2>2. FlattenSeq(Append(<<>>, first)) = FlattenSeq(<<>>) \o first
    BY <2>1, FlattenAppend
  <2>3. FlattenSeq(<<>>) \o first = first /\ first \o FlattenSeq(<<>>) = first
    BY FlattenEmpty
  <2>4. QED
    BY <2>1, <2>2, <2>3
<1>2. ASSUME NEW ss \in Seq(Seq(T)), NEW s \in Seq(T), ss \in S PROVE Append(ss, s) \in S
  <2>1. <<first>> \o Append(ss, s) = Append(<<first>> \o ss, s) /\ <<first>> \o ss \in Seq(Seq(T))
    OBVIOUS
  <2>2. FlattenSeq(Append(<<first>> \o ss, s)) = FlattenSeq(<<first>> \o ss) \o s
    BY <2>1, FlattenAppend
  <2>3. FlattenSeq(Append(ss, s)) = FlattenSeq(ss) \o s
    BY FlattenAppend
  <2>4. FlattenSeq(<<first>> \o ss) = first \o FlattenSeq(ss)
    BY <1>2
  <2>5. FlattenSeq(ss) \in Seq(T)
    BY FlattenType
  <2>6. (first \o FlattenSeq(ss)) \o s = first \o (FlattenSeq(ss) \o s)
    BY <2>5, ConcatAssociative
  <2>7. FlattenSeq(<<first>> \o Append(ss, s)) = first \o FlattenSeq(Append(ss, s))
    BY <2>1, <2>2, <2>3, <2>4, <2>6
  <2>8. Append(ss, s) \in Seq(Seq(T))
    BY AppendProperties
  <2>9. QED
    BY <2>7, <2>8
<1>3. QED
  <2> HIDE DEF S
  <2>1. \A ss \in Seq(Seq(T)) : ss \in S
    BY <1>1, <1>2, AppendInduction
  <2>2. QED
    BY <2>1 DEF S

-----------------------------------------------------------------------------
(***************************************************************************)
(* Reading symbol by symbol: After.                                        *)
(***************************************************************************)
ReadTo(state, text, f, n) == IF n = 0 THEN state ELSE Take(f[n - 1], text[n])
IsReading(state, text, m, f) == f = [n \in 0 .. m |-> ReadTo(state, text, f, n)]

LEMMA ReadingExists ==
  ASSUME NEW state, NEW text
  PROVE  \A m \in Nat : \E f : IsReading(state, text, m, f)
<1> DEFINE S == {m \in Nat : \E f : IsReading(state, text, m, f)}
<1>1. 0 \in S
  <2>1. IsReading(state, text, 0, [n \in 0 .. 0 |-> state])
    BY DEF IsReading, ReadTo
  <2>2. QED
    BY <2>1
<1>2. ASSUME NEW m \in Nat, m \in S PROVE m + 1 \in S
  <2>1. PICK f : IsReading(state, text, m, f)
    BY <1>2
  <2> DEFINE g == [n \in 0 .. m + 1 |-> IF n = m + 1 THEN ReadTo(state, text, f, n) ELSE f[n]]
  <2>2. ASSUME NEW n \in 0 .. m + 1 PROVE g[n] = ReadTo(state, text, g, n)
    <3>1. n # 0 => g[n - 1] = f[n - 1]
      OBVIOUS
    <3>2. ReadTo(state, text, g, n) = ReadTo(state, text, f, n)
      BY <3>1 DEF ReadTo
    <3>3. n # m + 1 => f[n] = ReadTo(state, text, f, n)
      BY <2>1 DEF IsReading
    <3>4. QED
      BY <3>2, <3>3
  <2>3. g = [n \in 0 .. m + 1 |-> ReadTo(state, text, g, n)]
    <3>1. g = [n \in 0 .. m + 1 |-> g[n]]
      OBVIOUS
    <3> HIDE DEF g
    <3>2. QED
      BY <2>2, <3>1
  <2>4. IsReading(state, text, m + 1, g)
    BY <2>3 DEF IsReading
  <2>5. QED
    BY <2>4
<1>3. QED
  <2> HIDE DEF S
  <2>1. S \in SUBSET Nat
    BY DEF S
  <2>2. \A m \in Nat : m \in S
    BY <1>1, <1>2, <2>1, Induction
  <2>3. QED
    BY <2>2 DEF S

LEMMA ReadingValue ==
  ASSUME NEW state, NEW text, NEW m \in Nat, NEW f, IsReading(state, text, m, f),
         NEW n \in 0 .. m
  PROVE  f[n] = ReadTo(state, text, f, n)
BY Zenon DEF IsReading

(* Two that read texts that agree at first agree there. *)
LEMMA ReadingAgrees ==
  ASSUME NEW state, NEW text, NEW more, NEW m \in Nat, NEW k \in Nat, NEW f, NEW g,
         IsReading(state, text, m, f), IsReading(state, more, k, g), AgreeTo(text, more, m, k)
  PROVE  \A n \in 0 .. m : f[n] = g[n]
<1> DEFINE S == {n \in Nat : n \in 0 .. m => f[n] = g[n]}
<1>1. 0 \in S
  <2>1. 0 \in 0 .. m /\ 0 \in 0 .. k
    OBVIOUS
  <2>2. f[0] = ReadTo(state, text, f, 0)
    BY <2>1, ReadingValue
  <2>3. g[0] = ReadTo(state, more, g, 0)
    BY <2>1, ReadingValue
  <2>4. QED
    BY <2>2, <2>3 DEF ReadTo
<1>2. ASSUME NEW n \in Nat, n \in S PROVE n + 1 \in S
  <2> SUFFICES ASSUME n + 1 \in 0 .. m PROVE f[n + 1] = g[n + 1]
    OBVIOUS
  <2>1. f[n + 1] = ReadTo(state, text, f, n + 1) /\ g[n + 1] = ReadTo(state, more, g, n + 1)
    <3>1. n + 1 \in 0 .. k
      BY DEF AgreeTo
    <3>2. f[n + 1] = ReadTo(state, text, f, n + 1)
      BY ReadingValue
    <3>3. g[n + 1] = ReadTo(state, more, g, n + 1)
      BY <3>1, ReadingValue
    <3>4. QED
      BY <3>2, <3>3
  <2>2. text[n + 1] = more[n + 1]
    BY DEF AgreeTo
  <2>3. f[n] = g[n]
    BY <1>2
  <2>4. (n + 1) - 1 = n /\ n + 1 # 0
    OBVIOUS
  <2>5. QED
    BY <2>1, <2>2, <2>3, <2>4 DEF ReadTo
<1>3. QED
  <2> HIDE DEF S
  <2>1. S \in SUBSET Nat
    BY DEF S
  <2>2. \A n \in Nat : n \in S
    BY <1>1, <1>2, <2>1, Induction
  <2>3. QED
    BY <2>2 DEF S

LEMMA AfterIs ==
  ASSUME NEW state, NEW text, Len(text) \in Nat
  PROVE  \E f : IsReading(state, text, Len(text), f) /\ After(state, text) = f[Len(text)]
<1>1. \E f : IsReading(state, text, Len(text), f)
  BY ReadingExists
<1> DEFINE f == CHOOSE f : f = [n \in 0 .. Len(text) |->
                                  IF n = 0 THEN state ELSE Take(f[n - 1], text[n])]
<1>2. IsReading(state, text, Len(text), f)
  BY <1>1 DEF IsReading, ReadTo
<1>3. After(state, text) = f[Len(text)]
  BY DEF After
<1>4. QED
  BY <1>2, <1>3

(* The two equations of After. *)
LEMMA AfterEmpty ==
  ASSUME NEW state
  PROVE  After(state, <<>>) = state
<1>1. Len(<<>>) = 0
  OBVIOUS
<1>2. PICK f : IsReading(state, <<>>, 0, f) /\ After(state, <<>>) = f[0]
  BY <1>1, AfterIs
<1>3. f[0] = ReadTo(state, <<>>, f, 0)
  BY <1>2, ReadingValue
<1>4. QED
  BY <1>2, <1>3 DEF ReadTo

LEMMA AfterAppend ==
  ASSUME NEW T, NEW state, NEW text \in Seq(T), NEW c \in T
  PROVE  After(state, Append(text, c)) = Take(After(state, text), c)
<1> DEFINE more == Append(text, c)
           m == Len(text)
           k == m + 1
<1>1. /\ Len(more) = k /\ m \in Nat /\ k \in Nat /\ more[k] = c
      /\ \A i \in 1 .. m : text[i] = more[i]
  BY AppendProperties, LenProperties
<1>2. AgreeTo(text, more, m, k)
  BY <1>1 DEF AgreeTo
<1>3. k # 0 /\ k - 1 = m /\ m \in 0 .. m /\ k \in 0 .. k
  BY <1>1
<1> HIDE DEF more, m, k
<1>4. PICK f : IsReading(state, text, m, f) /\ After(state, text) = f[m]
  BY <1>1, AfterIs DEF m
<1>5. PICK g : IsReading(state, more, k, g) /\ After(state, more) = g[k]
  BY <1>1, AfterIs
<1>6. \A n \in 0 .. m : f[n] = g[n]
  BY <1>1, <1>2, <1>4, <1>5, ReadingAgrees
<1>7. g[k] = ReadTo(state, more, g, k)
  BY <1>1, <1>3, <1>5, ReadingValue
<1>8. g[k] = Take(g[m], c)
  BY <1>1, <1>3, <1>7 DEF ReadTo
<1>9. f[m] = g[m]
  BY <1>3, <1>6
<1>10. QED
  BY <1>4, <1>5, <1>8, <1>9 DEF more

(* A text is read in parts. *)
LEMMA AfterConcat ==
  ASSUME NEW T, NEW state, NEW text \in Seq(T), NEW rest \in Seq(T)
  PROVE  After(state, text \o rest) = After(After(state, text), rest)
<1> DEFINE S == {r \in Seq(T) : After(state, text \o r) = After(After(state, text), r)}
<1>1. <<>> \in S
  <2>1. text \o <<>> = text
    OBVIOUS
  <2>2. After(After(state, text), <<>>) = After(state, text)
    BY AfterEmpty
  <2>3. QED
    BY <2>1, <2>2, EmptySeq
<1>2. ASSUME NEW r \in Seq(T), NEW c \in T, r \in S PROVE Append(r, c) \in S
  <2>1. text \o Append(r, c) = Append(text \o r, c) /\ text \o r \in Seq(T)
    BY AppendToConcat
  <2>2. After(state, Append(text \o r, c)) = Take(After(state, text \o r), c)
    <3> DEFINE whole == text \o r
    <3>1. whole \in Seq(T)
      BY <2>1
    <3> HIDE DEF whole
    <3>2. After(state, Append(whole, c)) = Take(After(state, whole), c)
      BY <3>1, AfterAppend
    <3>3. QED
      BY <3>2 DEF whole
  <2>3. After(After(state, text), Append(r, c)) = Take(After(After(state, text), r), c)
    BY AfterAppend
  <2>4. After(state, text \o r) = After(After(state, text), r)
    BY <1>2
  <2>5. After(state, text \o Append(r, c)) = After(After(state, text), Append(r, c))
    BY <2>1, <2>2, <2>3, <2>4
  <2>6. QED
    BY <2>5, AppendProperties
<1>3. QED
  <2> HIDE DEF S
  <2>1. \A r \in Seq(T) : r \in S
    BY <1>1, <1>2, AppendInduction
  <2>2. QED
    BY <2>1 DEF S

-----------------------------------------------------------------------------
(***************************************************************************)
(* Lines: reading one that has no break in it, and the break.              *)
(***************************************************************************)
AnySymbol == Symbols \cup Keywords \cup {Break}
OnALine   == Symbols \cup Keywords
At(line, sofar) == [line |-> line, sofar |-> sofar]

LEMMA SymbolsAre ==
  /\ Letters \subseteq Symbols /\ Symbols \subseteq OnALine /\ OnALine \subseteq AnySymbol
  /\ {" ", Tab, "'", "\\"} \subseteq Symbols
  /\ Keywords \subseteq OnALine /\ Keywords \cap Symbols = {}
  /\ Break \in AnySymbol /\ Break \notin OnALine
BY LettersAssumption DEF Symbols, OnALine, AnySymbol, Keywords, Package, Config, Option, List, Break, Tab

LEMMA TextsAre ==
  /\ \A t \in Seq(Letters) : t \in Seq(Symbols)
  /\ \A t \in Seq(Symbols) : t \in Seq(OnALine)
  /\ \A t \in Seq(OnALine) : t \in Seq(AnySymbol)
BY SymbolsAre, SeqMonotonic

LEMMA AfterPiece ==
  ASSUME NEW line \in Seq(OnALine), NEW sofar, NEW text \in Seq(OnALine)
  PROVE  After(At(line, sofar), text) = At(line \o text, sofar)
<1> DEFINE S == {t \in Seq(OnALine) : After(At(line, sofar), t) = At(line \o t, sofar)}
<1>1. <<>> \in S
  <2>1. line \o <<>> = line
    OBVIOUS
  <2>2. QED
    BY <2>1, AfterEmpty, EmptySeq
<1>2. ASSUME NEW t \in Seq(OnALine), NEW c \in OnALine, t \in S PROVE Append(t, c) \in S
  <2>1. After(At(line, sofar), Append(t, c)) = Take(After(At(line, sofar), t), c)
    BY AfterAppend
  <2>2. After(At(line, sofar), t) = At(line \o t, sofar)
    BY <1>2
  <2>3. Take(At(line \o t, sofar), c) = At(Append(line \o t, c), sofar)
    BY SymbolsAre DEF Take, At
  <2>4. line \o Append(t, c) = Append(line \o t, c)
    BY AppendToConcat
  <2>5. After(At(line, sofar), Append(t, c)) = At(line \o Append(t, c), sofar)
    BY <2>1, <2>2, <2>3, <2>4
  <2>6. QED
    BY <2>5, AppendProperties
<1>3. QED
  <2> HIDE DEF S
  <2>1. \A t \in Seq(OnALine) : t \in S
    BY <1>1, <1>2, AppendInduction
  <2>2. QED
    BY <2>1 DEF S

LEMMA AfterLine ==
  ASSUME NEW sofar, NEW text \in Seq(OnALine)
  PROVE  After(At(<<>>, sofar), text \o <<Break>>) = At(<<>>, LineDone(sofar, text))
<1>1. text \in Seq(AnySymbol) /\ Break \in AnySymbol /\ <<>> \in Seq(OnALine)
  BY TextsAre, SymbolsAre, EmptySeq
<1>2. text \o <<Break>> = Append(text, Break)
  BY <1>1, AppendIsConcat
<1>3. After(At(<<>>, sofar), Append(text, Break)) = Take(After(At(<<>>, sofar), text), Break)
  <2>1. ASSUME NEW c \in AnySymbol, NEW state
        PROVE  After(state, Append(text, c)) = Take(After(state, text), c)
    BY <1>1, AfterAppend
  <2>2. QED
    BY <1>1, <2>1
<1>4. After(At(<<>>, sofar), text) = At(<<>> \o text, sofar)
  BY <1>1, AfterPiece
<1>5. <<>> \o text = text
  OBVIOUS
<1>6. Take(At(text, sofar), Break) = At(<<>>, LineDone(sofar, text))
  BY DEF Take, At
<1>7. QED
  BY <1>2, <1>3, <1>4, <1>5, <1>6

-----------------------------------------------------------------------------
(***************************************************************************)
(* Trim.                                                                   *)
(***************************************************************************)
LEMMA TrimHead ==
  ASSUME NEW T, NEW text \in Seq(T), NEW m \in 1 .. Len(text), ~Blank(text[m]),
         \A i \in 1 .. m - 1 : Blank(text[i])
  PROVE  /\ Min(Solid(text)) = m /\ Solid(text) # {}
         /\ Trim(text) # <<>> /\ Trim(text)[1] = text[m]
<1> DEFINE S == Solid(text)
           k == Max(S)
<1>1. S \in SUBSET Nat /\ m \in S /\ \A y \in S : m <= y /\ y <= Len(text)
  BY DEF Solid
<1>2. Min(S) = m
  <2>1. Min(S) \in S /\ \A y \in S : Min(S) <= y
    BY <1>1, MinIs
  <2>2. Min(S) <= m /\ m <= Min(S) /\ Min(S) \in Nat /\ m \in Nat
    BY <1>1, <2>1
  <2>3. QED
    BY <2>2
<1>3. k \in S
  <2> DEFINE D == {Len(text) - y : y \in S}
  <2>1. D \in SUBSET Nat /\ D # {}
    BY <1>1
  <2>2. Min(D) \in D /\ \A d \in D : Min(D) <= d
    <3> HIDE DEF D
    <3>1. QED
      BY <2>1, MinIs
  <2>3. PICK x \in S : Min(D) = Len(text) - x
    BY <2>2
  <2>4. ASSUME NEW y \in S PROVE y <= x
    <3>1. Len(text) - x <= Len(text) - y
      BY <2>2, <2>3
    <3>2. QED
      BY <1>1, <3>1
  <2>5. \E x0 \in S : \A y \in S : y <= x0
    BY <2>4
  <2>6. QED
    <3> HIDE DEF S
    <3>1. QED
      BY <2>5 DEF Max
<1>4. Trim(text) = SubSeq(text, m, k)
  BY <1>1, <1>2 DEF Trim
<1>5. m \in Int /\ k \in Int /\ m <= k /\ k <= Len(text) /\ m >= 1
  BY <1>1, <1>3
<1>6. SubSeq(text, m, k) # <<>> /\ SubSeq(text, m, k)[1] = text[m]
  <2> HIDE DEF k
  <2>1. \A i \in m .. k : text[i] \in T
    BY <1>5
  <2>2. /\ Len(SubSeq(text, m, k)) = k - m + 1
        /\ \A i \in 1 .. k - m + 1 : SubSeq(text, m, k)[i] = text[m + i - 1]
    BY <1>5, <2>1, SubSeqProperties
  <2>3. Len(SubSeq(text, m, k)) # 0 /\ Len(<<>>) = 0
    BY <1>5, <2>2
  <2>4. SubSeq(text, m, k)[1] = text[m]
    BY <1>5, <2>2
  <2>5. QED
    BY <2>3, <2>4
<1>7. QED
  BY <1>1, <1>2, <1>4, <1>6

LEMMA TrimIs ==
  ASSUME NEW T, NEW text \in Seq(T), NEW m \in 1 .. Len(text), ~Blank(text[m]),
         \A i \in 1 .. m - 1 : Blank(text[i]), ~Blank(text[Len(text)])
  PROVE  Trim(text) = SubSeq(text, m, Len(text))
<1> DEFINE S == Solid(text)
<1>1. Min(S) = m /\ S # {}
  BY TrimHead
<1>2. Len(text) \in S /\ \A y \in S : y \in Nat /\ y <= Len(text)
  BY DEF Solid
<1>3. Max(S) = Len(text)
  <2> HIDE DEF S
  <2>1. Max(S) \in S /\ \A y \in S : y <= Max(S)
    BY <1>2 DEF Max
  <2>2. Max(S) <= Len(text) /\ Len(text) <= Max(S) /\ Max(S) \in Nat /\ Len(text) \in Nat
    BY <1>2, <2>1
  <2>3. QED
    BY <2>2
<1>4. QED
  BY <1>1, <1>3 DEF Trim

(* No blanks around it. *)
LEMMA TrimWhole ==
  ASSUME NEW T, NEW text \in Seq(T), text # <<>>, ~Blank(text[1]), ~Blank(text[Len(text)])
  PROVE  Trim(text) = text
<1>1. 1 \in 1 .. Len(text) /\ \A i \in 1 .. 1 - 1 : Blank(text[i])
  OBVIOUS
<1>2. Trim(text) = SubSeq(text, 1, Len(text))
  BY <1>1, TrimIs
<1>3. QED
  BY <1>2, SubSeqFull

(* One blank before it. *)
LEMMA TrimBlank ==
  ASSUME NEW T, NEW b \in T, Blank(b), NEW text \in Seq(T), text # <<>>,
         ~Blank(text[1]), ~Blank(text[Len(text)])
  PROVE  Trim(<<b>> \o text) = text
<1> DEFINE long == <<b>> \o text
<1>1. /\ long \in Seq(T) /\ Len(long) = Len(text) + 1 /\ Len(text) \in Nat \ {0}
      /\ long[1] = b /\ \A i \in 1 .. Len(text) : long[i + 1] = text[i]
  OBVIOUS
<1> HIDE DEF long
<1>2. ~Blank(long[2]) /\ ~Blank(long[Len(long)]) /\ \A i \in 1 .. 2 - 1 : Blank(long[i])
  BY <1>1
<1>3. Trim(long) = SubSeq(long, 2, Len(long))
  <2>1. 2 \in 1 .. Len(long)
    BY <1>1
  <2>2. QED
    BY <1>1, <1>2, <2>1, TrimIs
<1>4. SubSeq(long, 2, Len(long)) = text
  <2>1. \A i \in 2 .. Len(long) : long[i] \in T
    BY <1>1
  <2>2. /\ SubSeq(long, 2, Len(long)) \in Seq(T)
        /\ Len(SubSeq(long, 2, Len(long))) = Len(long) - 1
        /\ \A i \in 1 .. Len(long) - 1 : SubSeq(long, 2, Len(long))[i] = long[i + 1]
    BY <1>1
  <2>3. QED
    BY <1>1, <2>2, SeqEqual
<1>5. QED
  BY <1>3, <1>4 DEF long

LEMMA TrimEmpty == Trim(<<>>) = <<>>
BY DEF Trim, Solid

-----------------------------------------------------------------------------
(***************************************************************************)
(* Quoting: Unescape undoes what Escape does, symbol by symbol.            *)
(***************************************************************************)
RestTo(inner, f, n) ==
  LET i == Len(inner) - n + 1
  IN  IF n = 0 THEN <<>>
      ELSE IF n >= 4 /\ SubSeq(inner, i, i + 3) = Escaped THEN <<"'">> \o f[n - 4]
      ELSE <<inner[i]>> \o f[n - 1]
IsRest(inner, m, f) == f = [n \in 0 .. m |-> RestTo(inner, f, n)]

LEMMA RestExists ==
  ASSUME NEW inner
  PROVE  \A m \in Nat : \E f : IsRest(inner, m, f)
<1> DEFINE S == {m \in Nat : \E f : IsRest(inner, m, f)}
<1>1. 0 \in S
  <2>1. IsRest(inner, 0, [n \in 0 .. 0 |-> <<>>])
    BY DEF IsRest, RestTo
  <2>2. QED
    BY <2>1
<1>2. ASSUME NEW m \in Nat, m \in S PROVE m + 1 \in S
  <2>1. PICK f : IsRest(inner, m, f)
    BY <1>2
  <2> DEFINE g == [n \in 0 .. m + 1 |-> IF n = m + 1 THEN RestTo(inner, f, n) ELSE f[n]]
  <2>2. ASSUME NEW n \in 0 .. m + 1 PROVE g[n] = RestTo(inner, g, n)
    <3>1. (n # 0 => g[n - 1] = f[n - 1]) /\ (n >= 4 => g[n - 4] = f[n - 4])
      OBVIOUS
    <3>2. RestTo(inner, g, n) = RestTo(inner, f, n)
      BY <3>1 DEF RestTo
    <3>3. n # m + 1 => f[n] = RestTo(inner, f, n)
      BY <2>1 DEF IsRest
    <3>4. QED
      BY <3>2, <3>3
  <2>3. g = [n \in 0 .. m + 1 |-> RestTo(inner, g, n)]
    <3>1. g = [n \in 0 .. m + 1 |-> g[n]]
      OBVIOUS
    <3> HIDE DEF g
    <3>2. QED
      BY <2>2, <3>1
  <2>4. IsRest(inner, m + 1, g)
    BY <2>3 DEF IsRest
  <2>5. QED
    BY <2>4
<1>3. QED
  <2> HIDE DEF S
  <2>1. S \in SUBSET Nat
    BY DEF S
  <2>2. \A m \in Nat : m \in S
    BY <1>1, <1>2, <2>1, Induction
  <2>3. QED
    BY <2>2 DEF S

LEMMA RestValue ==
  ASSUME NEW inner, NEW m \in Nat, NEW f, IsRest(inner, m, f), NEW n \in 0 .. m
  PROVE  f[n] = RestTo(inner, f, n)
BY Zenon DEF IsRest

LEMMA UnescapeIs ==
  ASSUME NEW inner, Len(inner) \in Nat
  PROVE  \E f : IsRest(inner, Len(inner), f) /\ Unescape(inner) = f[Len(inner)]
<1>1. \E f : IsRest(inner, Len(inner), f)
  BY RestExists
<1> DEFINE f == CHOOSE f : f = [n \in 0 .. Len(inner) |->
                  LET i == Len(inner) - n + 1
                  IN  IF n = 0 THEN <<>>
                      ELSE IF n >= 4 /\ SubSeq(inner, i, i + 3) = Escaped THEN <<"'">> \o f[n - 4]
                      ELSE <<inner[i]>> \o f[n - 1]]
<1>2. IsRest(inner, Len(inner), f)
  BY <1>1 DEF IsRest, RestTo
<1>3. Unescape(inner) = f[Len(inner)]
  BY DEF Unescape
<1>4. QED
  BY <1>2, <1>3

(* What the last symbols stand for does not depend on those before them.   *)
LEMMA RestAgrees ==
  ASSUME NEW x \in Seq(Symbols), NEW t \in Seq(Symbols), NEW f, NEW g,
         IsRest(t, Len(t), f), IsRest(x \o t, Len(x \o t), g)
  PROVE  g[Len(t)] = f[Len(t)]
<1> DEFINE long == x \o t
           m == Len(t)
           k == Len(long)
           N == {n \in Nat : \A j \in 0 .. n : j <= m => f[j] = g[j]}
<1>1. /\ m \in Nat /\ k \in Nat /\ m <= k /\ k = Len(x) + m /\ Len(x) \in Nat
      /\ \A i \in 1 .. m : long[Len(x) + i] = t[i]
  OBVIOUS
<1>2. IsRest(t, m, f) /\ IsRest(long, k, g)
  OBVIOUS
<1>3. ASSUME NEW n \in 0 .. m, n # 0 => f[n - 1] = g[n - 1], n >= 4 => f[n - 4] = g[n - 4]
      PROVE  f[n] = g[n]
  <2> DEFINE i == m - n + 1
             j == k - n + 1
  <2>1. f[n] = RestTo(t, f, n)
    BY <1>1, <1>2, RestValue
  <2>2. g[n] = RestTo(long, g, n)
    <3>1. n \in 0 .. k
      BY <1>1
    <3> HIDE DEF long, k
    <3>2. QED
      BY <1>1, <1>2, <3>1, RestValue
  <2>3. j = Len(x) + i /\ (n # 0 => i \in 1 .. m) /\ (n >= 4 => i + 3 \in 1 .. m)
    BY <1>1
  <2>4. n # 0 => long[j] = t[i]
    BY <1>1, <2>3
  <2>5. n >= 4 => SubSeq(long, j, j + 3) = SubSeq(t, i, i + 3)
    <3> SUFFICES ASSUME n >= 4 PROVE SubSeq(long, j, j + 3) = SubSeq(t, i, i + 3)
      OBVIOUS
    <3>1. /\ j \in Len(x) + 1 .. Len(x) + Len(t) /\ j + 3 \in Len(x) + 1 .. Len(x) + Len(t)
          /\ j - Len(x) = i /\ (j + 3) - Len(x) = i + 3
      BY <1>1, <2>3
    <3> DEFINE last == j + 3
    <3>2. SubSeq(x \o t, j, last) = SubSeq(t, j - Len(x), last - Len(x))
      <4> HIDE DEF i, j, last
      <4>1. j \in Len(x) + 1 .. Len(x) + Len(t) /\ last \in Len(x) + 1 .. Len(x) + Len(t)
        BY <3>1 DEF last
      <4>2. QED
        BY <4>1, SubSeqOfConcat2
    <3> HIDE DEF i, j
    <3>3. QED
      BY <3>1, <3>2
  <2> HIDE DEF long
  <2>6. QED
    BY <1>3, <2>1, <2>2, <2>4, <2>5 DEF RestTo
<1>4. 0 \in N
  <2>1. 0 \in 0 .. m
    BY <1>1
  <2>2. f[0] = g[0]
    BY <1>3, <2>1
  <2>3. QED
    BY <2>2
<1>5. ASSUME NEW n \in Nat, n \in N PROVE n + 1 \in N
  <2> SUFFICES ASSUME n + 1 <= m PROVE f[n + 1] = g[n + 1]
    BY <1>5
  <2>1. \A j \in 0 .. n : f[j] = g[j]
    BY <1>1, <1>5
  <2>2. n + 1 \in 0 .. m /\ n + 1 # 0
    BY <1>1
  <2>3. f[(n + 1) - 1] = g[(n + 1) - 1] /\ (n + 1 >= 4 => f[(n + 1) - 4] = g[(n + 1) - 4])
    BY <2>1
  <2>4. QED
    BY <1>3, <2>2, <2>3
<1>6. QED
  <2> HIDE DEF N
  <2>1. N \in SUBSET Nat
    BY DEF N
  <2>2. \A n \in Nat : n \in N
    BY <1>4, <1>5, <2>1, Induction
  <2>3. m \in N /\ m \in 0 .. m
    BY <1>1, <2>2
  <2>4. QED
    BY <1>1, <2>3 DEF N

LEMMA EscapeIs ==
  ASSUME NEW c \in Symbols
  PROVE  Escape(c) \in Seq(Symbols)
<1>1. "'" \in Symbols /\ "\\" \in Symbols
  BY SymbolsAre
<1>2. Escaped \in Seq(Symbols)
  BY <1>1 DEF Escaped
<1>3. <<c>> \in Seq(Symbols)
  OBVIOUS
<1>4. QED
  BY <1>2, <1>3 DEF Escape

LEMMA UnescapeOne ==
  ASSUME NEW c \in Symbols, NEW t \in Seq(Symbols)
  PROVE  Unescape(Escape(c) \o t) = <<c>> \o Unescape(t)
<1> DEFINE x == Escape(c)
           long == x \o t
           m == Len(t)
           k == Len(long)
<1>1. x \in Seq(Symbols) /\ long \in Seq(Symbols) /\ m \in Nat /\ k \in Nat /\ k = Len(x) + m
  <2>1. x \in Seq(Symbols)
    BY EscapeIs
  <2> HIDE DEF x
  <2>2. QED
    BY <2>1, ConcatProperties, LenProperties
<1>2. PICK f : IsRest(t, m, f) /\ Unescape(t) = f[m]
  BY <1>1, UnescapeIs
<1>3. PICK g : IsRest(long, k, g) /\ Unescape(long) = g[k]
  <2> HIDE DEF long
  <2>1. QED
    BY <1>1, UnescapeIs
<1>4. g[m] = f[m]
  <2> HIDE DEF x
  <2>1. QED
    BY <1>1, <1>2, <1>3, RestAgrees
<1>5. g[k] = RestTo(long, g, k)
  <2>1. k \in 0 .. k
    BY <1>1
  <2> HIDE DEF long, k
  <2>2. QED
    BY <1>1, <1>3, <2>1, RestValue
<1>6. CASE c = "'"
  <2>1. x = Escaped /\ Len(x) = 4 /\ k = m + 4
    BY <1>1, <1>6 DEF Escape, Escaped
  <2>2. SubSeq(long, 1, 4) = Escaped
    <3>1. SubSeq(x \o t, 1, 4) = SubSeq(x, 1, 4)
      <4>1. 1 \in 1 .. Len(x) /\ 4 \in 1 .. Len(x)
        BY <2>1
      <4> HIDE DEF x
      <4>2. QED
        BY <1>1, <4>1, SubSeqOfConcat1
    <3>2. SubSeq(x, 1, 4) = x
      <4> HIDE DEF x
      <4>1. QED
        BY <1>1, <2>1, SubSeqFull
    <3>3. QED
      BY <2>1, <3>1, <3>2
  <2>3. k # 0 /\ k >= 4 /\ k - k + 1 = 1 /\ 1 + 3 = 4 /\ k - 4 = m
    BY <1>1, <2>1
  <2> HIDE DEF long
  <2>4. g[k] = <<"'">> \o g[m]
    BY <1>5, <2>2, <2>3 DEF RestTo
  <2>5. QED
    BY <1>2, <1>3, <1>4, <1>6, <2>4 DEF long
<1>7. CASE c # "'"
  <2>1. x = <<c>> /\ Len(x) = 1 /\ k = m + 1 /\ long[1] = c
    BY <1>1, <1>7 DEF Escape
  <2>2. k >= 4 => SubSeq(long, 1, 4) # Escaped
    <3> SUFFICES ASSUME k >= 4, SubSeq(long, 1, 4) = Escaped PROVE FALSE
      OBVIOUS
    <3>1. \A i \in 1 .. 4 : long[i] \in Symbols
      <4> HIDE DEF long
      <4>1. QED
        BY <1>1
    <3>2. SubSeq(long, 1, 4)[1] = long[1]
      <4> HIDE DEF long
      <4>1. QED
        BY <3>1, SubSeqProperties
    <3>3. Escaped[1] = "'"
      BY DEF Escaped
    <3>4. QED
      BY <1>7, <2>1, <3>2, <3>3
  <2>3. k # 0 /\ k - k + 1 = 1 /\ 1 + 3 = 4 /\ k - 1 = m
    BY <1>1, <2>1
  <2> HIDE DEF long
  <2>4. g[k] = <<long[1]>> \o g[m]
    BY <1>5, <2>2, <2>3 DEF RestTo
  <2>5. QED
    BY <1>2, <1>3, <1>4, <2>1, <2>4 DEF long
<1>8. QED
  BY <1>6, <1>7

LEMMA UnescapeEmpty == Unescape(<<>>) = <<>>
<1>1. Len(<<>>) = 0
  OBVIOUS
<1>2. PICK f : IsRest(<<>>, 0, f) /\ Unescape(<<>>) = f[0]
  BY <1>1, UnescapeIs
<1>3. f[0] = RestTo(<<>>, f, 0)
  BY <1>2, RestValue
<1>4. QED
  BY <1>2, <1>3 DEF RestTo

Escapes(value) == [i \in DOMAIN value |-> Escape(value[i])]

LEMMA EscapesAre ==
  ASSUME NEW value \in Seq(Symbols)
  PROVE  Escapes(value) \in Seq(Seq(Symbols)) /\ Len(Escapes(value)) = Len(value)
<1>1. Len(value) \in Nat /\ DOMAIN value = 1 .. Len(value)
  OBVIOUS
<1>2. \A i \in 1 .. Len(value) : Escape(value[i]) \in Seq(Symbols)
  BY EscapeIs
<1>3. Escapes(value) \in [1 .. Len(value) -> Seq(Symbols)]
  BY <1>1, <1>2 DEF Escapes
<1>4. QED
  BY <1>1, <1>3, FunctionIsSeq

LEMMA EscapesFront ==
  ASSUME NEW c \in Symbols, NEW value \in Seq(Symbols)
  PROVE  Escapes(<<c>> \o value) = <<Escape(c)>> \o Escapes(value)
<1> DEFINE long == <<c>> \o value
           left == Escapes(long)
           right == <<Escape(c)>> \o Escapes(value)
           n == Len(value)
<1>1. /\ long \in Seq(Symbols) /\ Len(long) = n + 1 /\ n \in Nat
      /\ long[1] = c /\ \A i \in 1 .. n + 1 : i # 1 => long[i] = value[i - 1]
  OBVIOUS
<1>2. left \in Seq(Seq(Symbols)) /\ Len(left) = n + 1
  <2> HIDE DEF long
  <2>1. QED
    BY <1>1, EscapesAre
<1>3. /\ right \in Seq(Seq(Symbols)) /\ Len(right) = n + 1 /\ right[1] = Escape(c)
      /\ \A i \in 1 .. n + 1 : i # 1 => right[i] = Escapes(value)[i - 1]
  <2>1. Escape(c) \in Seq(Symbols) /\ Escapes(value) \in Seq(Seq(Symbols)) /\ Len(Escapes(value)) = n
    BY EscapeIs, EscapesAre
  <2>2. QED
    BY <1>1, <2>1
<1>4. ASSUME NEW i \in 1 .. n + 1 PROVE left[i] = right[i]
  <2>1. left[i] = Escape(long[i])
    <3>1. i \in DOMAIN long
      BY <1>1
    <3> HIDE DEF long
    <3>2. QED
      BY <3>1 DEF Escapes
  <2>2. i # 1 => Escapes(value)[i - 1] = Escape(value[i - 1])
    BY DEF Escapes
  <2> HIDE DEF left, right, long
  <2>3. QED
    BY <1>1, <1>3, <2>1, <2>2
<1> HIDE DEF left, right
<1>5. left = right
  BY <1>2, <1>3, <1>4, SeqEqual
<1>6. QED
  BY <1>5 DEF left, right

LEMMA UnescapeAll ==
  ASSUME NEW value \in Seq(Symbols)
  PROVE  Unescape(FlattenSeq(Escapes(value))) = value
<1> DEFINE S == {v \in Seq(Symbols) : Unescape(FlattenSeq(Escapes(v))) = v}
<1>1. <<>> \in S
  <2>1. <<>> \in Seq(Symbols) /\ Len(<<>>) = 0
    OBVIOUS
  <2>2. Escapes(<<>>) \in Seq(Seq(Symbols)) /\ Len(Escapes(<<>>)) = 0
    BY <2>1, EscapesAre
  <2>3. Escapes(<<>>) = <<>>
    BY <2>2
  <2>4. Unescape(FlattenSeq(Escapes(<<>>))) = <<>>
    BY <2>3, FlattenEmpty, UnescapeEmpty
  <2>5. QED
    BY <2>1, <2>4
<1>2. ASSUME NEW v \in Seq(Symbols), NEW c \in Symbols, v \in S PROVE <<c>> \o v \in S
  <2>1. Escapes(<<c>> \o v) = <<Escape(c)>> \o Escapes(v)
    BY EscapesFront
  <2>2. Escape(c) \in Seq(Symbols) /\ Escapes(v) \in Seq(Seq(Symbols))
    BY EscapeIs, EscapesAre
  <2>3. FlattenSeq(<<Escape(c)>> \o Escapes(v)) = Escape(c) \o FlattenSeq(Escapes(v))
    BY <2>2, FlattenFront
  <2>4. FlattenSeq(Escapes(v)) \in Seq(Symbols)
    BY <2>2, FlattenType
  <2>5. Unescape(Escape(c) \o FlattenSeq(Escapes(v))) = <<c>> \o Unescape(FlattenSeq(Escapes(v)))
    BY <2>4, UnescapeOne
  <2>6. Unescape(FlattenSeq(Escapes(v))) = v
    BY <1>2
  <2>7. Unescape(FlattenSeq(Escapes(<<c>> \o v))) = <<c>> \o v
    BY <2>1, <2>3, <2>5, <2>6
  <2>8. <<c>> \o v \in Seq(Symbols)
    OBVIOUS
  <2>9. QED
    BY <2>7, <2>8
<1>3. QED
  <2> HIDE DEF S
  <2>1. \A v \in Seq(Symbols) : v \in S
    BY <1>1, <1>2, FrontInduction
  <2>2. QED
    BY <2>1 DEF S

(* A quoted token is well quoted, has no blanks around it, and stands for  *)
(* the value.                                                              *)
LEMMA QuoteIs ==
  ASSUME NEW value \in Seq(Symbols)
  PROVE  LET token == Quote(value)
         IN  /\ token \in Seq(Symbols) /\ token # <<>>
             /\ ~Blank(token[1]) /\ ~Blank(token[Len(token)])
             /\ WellQuoted(token) /\ Unquote(token) = value
<1> DEFINE inner == FlattenSeq(Escapes(value))
           token == <<"'">> \o inner \o <<"'">>
           m == Len(inner)
<1>1. inner \in Seq(Symbols) /\ Unescape(inner) = value
  <2>1. Escapes(value) \in Seq(Seq(Symbols))
    BY EscapesAre
  <2>2. QED
    BY <2>1, FlattenType, UnescapeAll
<1>2. Quote(value) = token
  BY DEF Quote, Escapes
<1> HIDE DEF inner
<1>3. "'" \in Symbols
  BY SymbolsAre
<1>4. /\ token \in Seq(Symbols) /\ Len(token) = m + 2 /\ m \in Nat
      /\ token[1] = "'" /\ token[m + 2] = "'"
      /\ \A i \in 1 .. m : token[i + 1] = inner[i]
  BY <1>1, <1>3
<1> HIDE DEF token
<1>5. SubSeq(token, 2, m + 1) = inner
  <2>1. \A i \in 2 .. m + 1 : token[i] \in Symbols
    BY <1>4
  <2>2. /\ SubSeq(token, 2, m + 1) \in Seq(Symbols) /\ Len(SubSeq(token, 2, m + 1)) = m
        /\ \A i \in 1 .. m : SubSeq(token, 2, m + 1)[i] = token[i + 1]
    BY <1>4, <2>1
  <2>3. QED
    BY <1>1, <1>4, <2>2, SeqEqual
<1>6. token # <<>> /\ Quoted(token)
  <2>1. token # <<>>
    BY <1>4
  <2>2. QED
    BY <1>4, <2>1 DEF Quoted
<1>7. ~Blank(token[1]) /\ ~Blank(token[Len(token)])
  BY <1>4 DEF Blank, Tab
<1>8. WellQuoted(token)
  BY <1>4, <1>6 DEF WellQuoted
<1>9. Unquote(token) = value
  <2>1. Len(token) - 1 = m + 1
    BY <1>4
  <2>2. QED
    BY <1>1, <1>5, <1>6, <2>1 DEF Unquote
<1>10. QED
  BY <1>2, <1>4, <1>6, <1>7, <1>8, <1>9

-----------------------------------------------------------------------------
(***************************************************************************)
(* Words: what the splitting into a word and a rest finds.                 *)
(***************************************************************************)
LEMMA WordIs ==
  ASSUME NEW w \in Word
  PROVE  /\ w \in Seq(Letters) /\ w \in Seq(Symbols) /\ Len(w) \in Nat \ {0} /\ w # <<>>
         /\ \A i \in 1 .. Len(w) : ~Blank(w[i]) /\ w[i] # "'"
         /\ Blanks(w) = {}
<1>1. w \in Seq(Letters) /\ w # <<>> /\ Len(w) \in Nat \ {0}
  BY DEF Word
<1>2. \A i \in 1 .. Len(w) : ~Blank(w[i]) /\ w[i] # "'"
  <2>1. ASSUME NEW c \in Letters PROVE ~Blank(c) /\ c # "'"
    BY LettersAssumption DEF Blank
  <2>2. \A i \in 1 .. Len(w) : w[i] \in Letters
    BY <1>1
  <2>3. QED
    BY <2>1, <2>2
<1>3. Blanks(w) = {}
  BY <1>1, <1>2 DEF Blanks
<1>4. QED
  BY <1>1, <1>2, <1>3, TextsAre

LEMMA FirstOnly ==
  ASSUME NEW w \in Word
  PROVE  FirstWord(w) = w /\ Rest(w) = <<>>
<1>1. FirstWord(w) = w
  BY WordIs DEF FirstWord
<1>2. SubSeq(w, Len(w) + 1, Len(w)) = <<>>
  BY WordIs, SubSeqEmpty
<1>3. QED
  BY <1>1, <1>2, TrimEmpty DEF Rest

LEMMA PartsOf ==
  ASSUME NEW T, NEW s \in Seq(T), NEW t \in Seq(T), s # <<>>, t # <<>>
  PROVE  /\ SubSeq(s \o t, 1, Len(s)) = s
         /\ SubSeq(s \o t, Len(s) + 1, Len(s \o t)) = t
<1> DEFINE m == Len(s)
           n == Len(t)
           first == m + 1
           last == m + n
<1>1. m \in Nat \ {0} /\ n \in Nat \ {0} /\ Len(s \o t) = last
  BY EmptySeq, ConcatProperties
<1>2. SubSeq(s \o t, 1, m) = s
  <2>1. 1 \in 1 .. Len(s) /\ m \in 1 .. Len(s)
    BY <1>1
  <2>2. SubSeq(s \o t, 1, m) = SubSeq(s, 1, m)
    BY <2>1, SubSeqOfConcat1
  <2>3. QED
    BY <2>2, SubSeqFull
<1>3. SubSeq(s \o t, first, last) = t
  <2>1. first \in Len(s) + 1 .. Len(s) + Len(t) /\ last \in Len(s) + 1 .. Len(s) + Len(t)
    BY <1>1
  <2>2. first - Len(s) = 1 /\ last - Len(s) = n
    BY <1>1
  <2> HIDE DEF first, last
  <2>3. SubSeq(s \o t, first, last) = SubSeq(t, first - Len(s), last - Len(s))
    BY <2>1, SubSeqOfConcat2
  <2>4. SubSeq(t, 1, n) = t
    BY SubSeqFull
  <2>5. QED
    BY <2>2, <2>3, <2>4
<1>4. QED
  BY <1>1, <1>2, <1>3

LEMMA FirstAndRest ==
  ASSUME NEW w \in Word, NEW rest \in Seq(Symbols), rest # <<>>,
         ~Blank(rest[1]), ~Blank(rest[Len(rest)])
  PROVE  LET text == w \o Spaced(rest) IN FirstWord(text) = w /\ Rest(text) = rest
<1> DEFINE after == Spaced(rest)
           text == w \o after
           m == Len(w)
<1>1. w \in Seq(Symbols) /\ m \in Nat \ {0} /\ w # <<>> /\ \A i \in 1 .. m : ~Blank(w[i])
  BY WordIs
<1>2. " " \in Symbols /\ Blank(" ")
  BY SymbolsAre DEF Blank
<1>3. Trim(after) = rest
  BY <1>2, TrimBlank DEF Spaced
<1> DEFINE n == Len(after)
<1>4. after \in Seq(Symbols) /\ n \in Nat \ {0} /\ after[1] = " " /\ after # <<>>
  <2> DEFINE b == " "
             long == <<b>> \o rest
  <2>1. b \in Symbols
    BY <1>2
  <2>2. /\ long \in Seq(Symbols) /\ long # <<>>
        /\ Len(long) = Len(rest) + 1 /\ Len(rest) \in Nat /\ long[1] = b
    <3> HIDE DEF b
    <3>1. QED
      BY <2>1, FrontIs
  <2> HIDE DEF b, long
  <2>3. Len(long) \in Nat \ {0}
    BY <2>2
  <2>4. after = long /\ b = " "
    BY DEF b, long, Spaced
  <2> HIDE DEF after
  <2>5. QED
    BY <2>2, <2>3, <2>4
<1> HIDE DEF after
<1>5. m \in Nat /\ n \in Nat \ {0}
  BY <1>1, <1>4
<1>6. /\ m + 1 \in 1 .. m + n /\ ~(m + 1 <= m) /\ (m + 1) - m = 1
      /\ \A i \in 1 .. m : i \in 1 .. m + n /\ i <= m
  <2> HIDE DEF m, n
  <2>1. QED
    BY <1>5
<1>7. /\ text \in Seq(Symbols) /\ Len(text) = m + n /\ DOMAIN text = 1 .. m + n
      /\ \A i \in 1 .. m : text[i] = w[i]
      /\ text[m + 1] = after[1]
  <2>1. /\ text \in Seq(Symbols) /\ Len(text) = m + n
        /\ \A i \in 1 .. m + n : text[i] = IF i <= m THEN w[i] ELSE after[i - m]
    BY <1>1, <1>4, ConcatProperties
  <2> HIDE DEF text, m, n
  <2>2. DOMAIN text = 1 .. m + n
    BY <2>1, LenProperties
  <2>3. QED
    BY <1>6, <2>1, <2>2
<1>8. /\ SubSeq(text, 1, m) = w
      /\ SubSeq(text, m + 1, Len(text)) = after
  BY <1>1, <1>4, PartsOf
<1> HIDE DEF text, m, n
<1>9. Blanks(text) \in SUBSET Nat /\ m + 1 \in Blanks(text) /\ \A i \in Blanks(text) : m + 1 <= i
  <2>1. \A i \in Blanks(text) : i \in 1 .. Len(text) /\ Blank(text[i])
    BY <1>7 DEF Blanks
  <2>2. m + 1 \in Blanks(text)
    <3>1. Blank(text[m + 1])
      BY <1>2, <1>4, <1>7
    <3>2. m + 1 \in DOMAIN text
      BY <1>6, <1>7
    <3>3. QED
      BY <3>1, <3>2 DEF Blanks
  <2>3. ASSUME NEW i \in Blanks(text) PROVE m + 1 <= i
    <3>1. i \in Nat /\ i >= 1 /\ ~(i \in 1 .. m)
      BY <1>1, <1>7, <2>1
    <3>2. QED
      BY <1>1, <3>1
  <2>4. QED
    BY <2>1, <2>2, <2>3
<1>10. Min(Blanks(text)) = m + 1
  <2>1. Min(Blanks(text)) \in Blanks(text) /\ \A y \in Blanks(text) : Min(Blanks(text)) <= y
    BY <1>9, MinIs
  <2>2. Min(Blanks(text)) <= m + 1 /\ m + 1 <= Min(Blanks(text)) /\ Min(Blanks(text)) \in Nat
    BY <1>9, <2>1
  <2>3. QED
    BY <1>1, <2>2
<1>11. FirstWord(text) = w
  <2>1. (m + 1) - 1 = m
    BY <1>1
  <2>2. QED
    BY <1>8, <1>9, <1>10, <2>1 DEF FirstWord
<1>12. Rest(text) = rest
  BY <1>3, <1>8, <1>11 DEF Rest, m
<1>13. QED
  BY <1>11, <1>12 DEF text, after

LEMMA SpacedIs ==
  ASSUME NEW rest \in Seq(Symbols), rest # <<>>
  PROVE  /\ Spaced(rest) \in Seq(Symbols) /\ Spaced(rest) # <<>>
         /\ Spaced(rest)[Len(Spaced(rest))] = rest[Len(rest)]
<1> DEFINE b == " "
<1>1. b \in Symbols
  BY SymbolsAre
<1>2. Spaced(rest) = <<b>> \o rest
  BY DEF Spaced
<1> HIDE DEF b
<1>3. <<b>> \in Seq(Symbols)
  BY <1>1
<1>4. QED
  BY <1>1, <1>2, <1>3, FrontIs, LastOf

-----------------------------------------------------------------------------
(***************************************************************************)
(* Lines: what each line the renderer writes is read as.                   *)
(***************************************************************************)
LEMMA WordRead ==
  ASSUME NEW w \in Word
  PROVE  WellQuoted(w) /\ Unquote(w) = w /\ Trim(w) = w
<1>1. /\ w \in Seq(Symbols) /\ w # <<>> /\ Len(w) \in Nat \ {0} /\ Blanks(w) = {}
      /\ \A i \in 1 .. Len(w) : ~Blank(w[i]) /\ w[i] # "'"
  BY WordIs
<1>2. ~Blank(w[1]) /\ w[1] # "'" /\ ~Blank(w[Len(w)])
  BY <1>1
<1>3. Trim(w) = w
  BY <1>1, <1>2, TrimWhole
<1>4. QED
  BY <1>1, <1>2, <1>3 DEF WellQuoted, Unquote, Quoted

(* A line that begins with a keyword, and what follows it. *)
LEMMA KeywordLine ==
  ASSUME NEW k \in Keywords, NEW rest \in Seq(Symbols)
  PROVE  LET raw == <<k>> \o rest
         IN  /\ raw \in Seq(OnALine) /\ raw[1] = k /\ ~Blank(k)
             /\ Trim(raw) # <<>> /\ Tail(raw) = rest
<1> DEFINE raw == <<k>> \o rest
<1>1. k \in OnALine /\ rest \in Seq(OnALine)
  BY SymbolsAre, TextsAre
<1>2. /\ raw \in Seq(OnALine) /\ Len(raw) = Len(rest) + 1 /\ Len(rest) \in Nat
      /\ raw[1] = k /\ Tail(raw) = rest
  BY <1>1, FrontIs
<1>3. ~Blank(k)
  BY DEF Keywords, Blank, Tab, Package, Config, Option, List
<1> HIDE DEF raw
<1>4. Trim(raw) # <<>>
  <2>1. 1 \in 1 .. Len(raw) /\ ~Blank(raw[1]) /\ \A i \in 1 .. 1 - 1 : Blank(raw[i])
    BY <1>2, <1>3
  <2>2. QED
    BY <1>2, <2>1, TrimHead
<1>5. QED
  BY <1>2, <1>3, <1>4 DEF raw

LEMMA PackageRead ==
  ASSUME NEW doc, NEW w \in Word
  PROVE  LET raw == <<Package>> \o w
         IN  /\ raw \in Seq(OnALine)
             /\ Line(doc, raw) = Read(Append(doc, [name |-> w, sections |-> <<>>]))
<1> DEFINE raw == <<Package>> \o w
<1>1. w \in Seq(Symbols) /\ w # <<>>
  BY WordIs
<1>2. raw \in Seq(OnALine) /\ raw[1] = Package /\ Trim(raw) # <<>> /\ Tail(raw) = w
  <2>1. Package \in Keywords
    BY DEF Keywords
  <2>2. QED
    BY <1>1, <2>1, KeywordLine
<1> HIDE DEF raw
<1>3. Line(doc, raw) = PackageLine(doc, w)
  BY <1>2, WordRead DEF Line
<1>4. PackageLine(doc, w) = Read(Append(doc, [name |-> w, sections |-> <<>>]))
  BY <1>1, WordRead DEF PackageLine
<1>5. QED
  BY <1>2, <1>3, <1>4 DEF raw

LEMMA HeaderIs ==
  ASSUME NEW s \in ASection
  PROVE  /\ Header(s) \in Seq(Symbols) /\ Trim(Header(s)) = Header(s)
         /\ FirstWord(Header(s)) = s.kind /\ s.kind # <<>>
         /\ s.name = Anonymous => Rest(Header(s)) = <<>>
         /\ s.name # Anonymous => Rest(Header(s)) = Quote(s.name)
<1>1. /\ s.kind \in Word /\ s.kind \in Seq(Symbols) /\ s.kind # <<>>
      /\ Len(s.kind) \in Nat \ {0} /\ \A i \in 1 .. Len(s.kind) : ~Blank(s.kind[i])
  <2>1. s.kind \in Word
    BY DEF ASection
  <2>2. QED
    BY <2>1, WordIs
<1>2. CASE s.name = Anonymous
  <2>1. Header(s) = s.kind
    BY <1>1, <1>2 DEF Header
  <2>2. QED
    BY <1>1, <1>2, <2>1, FirstOnly, WordRead
<1>3. CASE s.name # Anonymous
  <2> DEFINE q == Quote(s.name)
  <2>1. s.name \in Seq(Symbols)
    BY <1>3 DEF ASection
  <2>2. q \in Seq(Symbols) /\ q # <<>> /\ ~Blank(q[1]) /\ ~Blank(q[Len(q)])
    BY <2>1, QuoteIs
  <2>3. Header(s) = s.kind \o Spaced(q)
    BY <1>3 DEF Header
  <2> HIDE DEF q
  <2>4. FirstWord(Header(s)) = s.kind /\ Rest(Header(s)) = q
    BY <1>1, <2>2, <2>3, FirstAndRest
  <2>5. /\ Spaced(q) \in Seq(Symbols) /\ Spaced(q) # <<>>
        /\ Spaced(q)[Len(Spaced(q))] = q[Len(q)]
    BY <2>2, SpacedIs
  <2>6. /\ Header(s) \in Seq(Symbols) /\ Header(s) # <<>>
        /\ Header(s)[Len(Header(s))] = q[Len(q)] /\ Header(s)[1] = s.kind[1]
    BY <1>1, <2>3, <2>5, LastOf
  <2>7. ~Blank(s.kind[1])
    BY <1>1
  <2>8. Trim(Header(s)) = Header(s)
    BY <2>2, <2>6, <2>7, TrimWhole
  <2>9. QED
    BY <1>1, <1>3, <2>4, <2>6, <2>8 DEF q
<1>4. QED
  BY <1>2, <1>3

LEMMA SectionRead ==
  ASSUME NEW doc, doc # <<>>, NEW s \in ASection
  PROVE  LET raw == <<Config>> \o Header(s)
         IN  /\ raw \in Seq(OnALine)
             /\ Line(doc, raw) =
                  Read(AddSection(doc, [kind |-> s.kind, name |-> s.name, entries |-> <<>>]))
<1> DEFINE raw == <<Config>> \o Header(s)
<1>1. /\ Header(s) \in Seq(Symbols) /\ Trim(Header(s)) = Header(s)
      /\ FirstWord(Header(s)) = s.kind /\ s.kind # <<>>
  BY HeaderIs
<1>2. raw \in Seq(OnALine) /\ raw[1] = Config /\ Trim(raw) # <<>> /\ Tail(raw) = Header(s)
  <2>1. Config \in Keywords
    BY DEF Keywords
  <2>2. QED
    BY <1>1, <2>1, KeywordLine
<1> HIDE DEF raw
<1>3. Line(doc, raw) = SectionLine(doc, Header(s))
  <2>1. Config # Package
    BY DEF Config, Package
  <2>2. QED
    BY <1>1, <1>2, <2>1 DEF Line
<1>4. CASE s.name = Anonymous
  <2>1. Rest(Header(s)) = <<>>
    BY <1>4, HeaderIs
  <2>2. WellQuoted(<<>>)
    BY DEF WellQuoted, Quoted, Blanks
  <2>3. SectionLine(doc, Header(s)) =
          Read(AddSection(doc, [kind |-> s.kind, name |-> s.name, entries |-> <<>>]))
    BY <1>1, <1>4, <2>1, <2>2 DEF SectionLine
  <2>4. QED
    BY <1>2, <1>3, <2>3 DEF raw
<1>5. CASE s.name # Anonymous
  <2> DEFINE q == Quote(s.name)
  <2>1. Rest(Header(s)) = q
    BY <1>5, HeaderIs
  <2>2. s.name \in Seq(Symbols)
    BY <1>5 DEF ASection
  <2>3. q # <<>> /\ WellQuoted(q) /\ Unquote(q) = s.name
    BY <2>2, QuoteIs
  <2> HIDE DEF q
  <2>4. SectionLine(doc, Header(s)) =
          Read(AddSection(doc, [kind |-> s.kind, name |-> s.name, entries |-> <<>>]))
    BY <1>1, <2>1, <2>3 DEF SectionLine
  <2>5. QED
    BY <1>2, <1>3, <2>4 DEF raw
<1>6. QED
  BY <1>4, <1>5

LEMMA AssignmentIs ==
  ASSUME NEW e \in AnEntry
  PROVE  LET body == e.key \o Spaced(Quote(e.value))
         IN  /\ e.kind \in {Option, List} /\ e.kind \in Keywords /\ ~Blank(e.kind)
             /\ body \in Seq(Symbols) /\ Assignment(e) \in Seq(OnALine)
             /\ Assignment(e) # <<>> /\ Assignment(e)[1] = e.kind /\ Tail(Assignment(e)) = body
             /\ ~Blank(Assignment(e)[Len(Assignment(e))])
             /\ FirstWord(body) = e.key /\ e.key # <<>> /\ Rest(body) = Quote(e.value)
             /\ Quote(e.value) # <<>> /\ WellQuoted(Quote(e.value))
             /\ Unquote(Quote(e.value)) = e.value
<1> DEFINE q == Quote(e.value)
           tail == Spaced(q)
           body == e.key \o tail
<1>1. e.kind \in {Option, List} /\ e.key \in Word /\ e.value \in Seq(Symbols)
  BY DEF AnEntry
<1>2. e.kind \in Keywords
  BY <1>1 DEF Keywords
<1>3. /\ q \in Seq(Symbols) /\ q # <<>> /\ ~Blank(q[1]) /\ ~Blank(q[Len(q)])
      /\ WellQuoted(q) /\ Unquote(q) = e.value
  BY <1>1, QuoteIs
<1>4. e.key \in Seq(Symbols) /\ e.key # <<>>
  BY <1>1, WordIs
<1> HIDE DEF q
<1>5. FirstWord(body) = e.key /\ Rest(body) = q
  BY <1>1, <1>3, FirstAndRest
<1>6. tail \in Seq(Symbols) /\ tail # <<>> /\ tail[Len(tail)] = q[Len(q)]
  BY <1>3, SpacedIs
<1> HIDE DEF tail
<1>7. body \in Seq(Symbols) /\ body # <<>> /\ body[Len(body)] = q[Len(q)]
  BY <1>4, <1>6, LastOf
<1> HIDE DEF body
<1>8. Assignment(e) = <<e.kind>> \o body
  BY DEF Assignment, body, tail, q
<1>9. ~Blank(e.kind) /\ Assignment(e) \in Seq(OnALine) /\ Assignment(e)[1] = e.kind
      /\ Tail(Assignment(e)) = body
  BY <1>2, <1>7, <1>8, KeywordLine
<1>10. Assignment(e) # <<>> /\ Assignment(e)[Len(Assignment(e))] = q[Len(q)]
  <2>1. <<e.kind>> \in Seq(OnALine) /\ body \in Seq(OnALine)
    <3>1. e.kind \in OnALine
      BY <1>2, SymbolsAre
    <3>2. body \in Seq(OnALine)
      BY <1>7, TextsAre
    <3>3. QED
      BY <3>1, <3>2
  <2>2. QED
    BY <1>7, <1>8, <2>1, LastOf
<1>11. QED
  BY <1>1, <1>2, <1>3, <1>4, <1>5, <1>7, <1>9, <1>10 DEF body, tail, q

LEMMA EntryRead ==
  ASSUME NEW doc, doc # <<>>, Last(doc).sections # <<>>, NEW e \in AnEntry,
         NEW indent \in {Tab, " "}
  PROVE  LET raw == <<indent>> \o Assignment(e)
         IN  raw \in Seq(OnALine) /\ Line(doc, raw) = Read(AddEntry(doc, e))
<1> DEFINE body == e.key \o Spaced(Quote(e.value))
           raw == <<indent>> \o Assignment(e)
<1>1. /\ e.kind \in {Option, List}
      /\ body \in Seq(Symbols) /\ Assignment(e) \in Seq(OnALine) /\ ~Blank(e.kind)
      /\ Assignment(e) # <<>> /\ Assignment(e)[1] = e.kind /\ Tail(Assignment(e)) = body
      /\ ~Blank(Assignment(e)[Len(Assignment(e))])
  BY AssignmentIs
<1>2. indent \in OnALine /\ Blank(indent) /\ indent # Package /\ indent # Config
  <2>1. indent \in OnALine
    BY SymbolsAre
  <2>2. QED
    BY <2>1 DEF Blank, Tab, Package, Config
<1>3. raw \in Seq(OnALine) /\ raw[1] = indent
  BY <1>1, <1>2, FrontIs
<1>4. Trim(raw) = Assignment(e)
  BY <1>1, <1>2, TrimBlank
<1> HIDE DEF raw, body
<1>5. Line(doc, raw) = EntryLine(doc, e.kind, body)
  BY <1>1, <1>2, <1>3, <1>4 DEF Line
<1>6. EntryLine(doc, e.kind, body) =
        Read(AddEntry(doc, [kind |-> e.kind, key |-> e.key, value |-> e.value]))
  <2>1. /\ FirstWord(body) = e.key /\ e.key # <<>> /\ Rest(body) = Quote(e.value)
        /\ Quote(e.value) # <<>> /\ WellQuoted(Quote(e.value))
        /\ Unquote(Quote(e.value)) = e.value
    BY AssignmentIs DEF body
  <2>2. QED
    BY <2>1 DEF EntryLine
<1>7. e = [kind |-> e.kind, key |-> e.key, value |-> e.value]
  BY DEF AnEntry
<1>8. QED
  BY <1>3, <1>5, <1>6, <1>7 DEF raw

(* The empty line after a header and after a section. *)
LEMMA EmptyRead ==
  ASSUME NEW doc
  PROVE  Line(doc, <<>>) = Read(doc)
BY TrimEmpty DEF Line

-----------------------------------------------------------------------------
(***************************************************************************)
(* The texts of the parts of a document, one after the other.              *)
(***************************************************************************)
Mapped(F, s) == [i \in DOMAIN s |-> F[s[i]]]
Gives(F, T, U) == F \in [T -> U]

LEMMA MappedIs ==
  ASSUME NEW T, NEW U, NEW F, Gives(F, T, U), NEW s \in Seq(T)
  PROVE  /\ Mapped(F, s) \in Seq(U) /\ Len(Mapped(F, s)) = Len(s)
         /\ \A i \in 1 .. Len(s) : Mapped(F, s)[i] = F[s[i]]
<1>1. DOMAIN s = 1 .. Len(s) /\ Len(s) \in Nat /\ \A i \in 1 .. Len(s) : s[i] \in T
  OBVIOUS
<1>2. Mapped(F, s) \in [1 .. Len(s) -> U]
  BY <1>1 DEF Mapped, Gives
<1>3. QED
  BY <1>1, <1>2, FunctionIsSeq DEF Mapped

LEMMA MappedAppend ==
  ASSUME NEW T, NEW U, NEW F, Gives(F, T, U), NEW s \in Seq(T), NEW e \in T
  PROVE  Mapped(F, Append(s, e)) = Append(Mapped(F, s), F[e])
<1> DEFINE more == Append(s, e)
           left == Mapped(F, more)
           right == Append(Mapped(F, s), F[e])
           n == Len(s)
<1>1. /\ more \in Seq(T) /\ Len(more) = n + 1 /\ n \in Nat /\ more[n + 1] = e
      /\ \A i \in 1 .. n : more[i] = s[i]
  BY AppendProperties, LenProperties
<1> HIDE DEF more
<1>2. /\ left \in Seq(U) /\ Len(left) = n + 1 /\ \A i \in 1 .. n + 1 : left[i] = F[more[i]]
  BY <1>1, MappedIs
<1>3. Mapped(F, s) \in Seq(U) /\ Len(Mapped(F, s)) = n /\ \A i \in 1 .. n : Mapped(F, s)[i] = F[s[i]]
  BY MappedIs
<1>4. /\ right \in Seq(U) /\ Len(right) = n + 1 /\ right[n + 1] = F[e]
      /\ \A i \in 1 .. n : right[i] = F[s[i]]
  <2>1. F[e] \in U
    BY DEF Gives
  <2>2. QED
    BY <1>3, <2>1, AppendProperties
<1> HIDE DEF left, right
<1>5. \A i \in 1 .. n + 1 : left[i] = right[i]
  <2> SUFFICES ASSUME NEW i \in 1 .. n + 1 PROVE left[i] = right[i]
    OBVIOUS
  <2>1. CASE i = n + 1
    BY <1>1, <1>2, <1>4, <2>1
  <2>2. CASE i # n + 1
    <3>1. i \in 1 .. n
      BY <1>1, <2>2
    <3>2. QED
      BY <1>1, <1>2, <1>4, <3>1
  <2>3. QED
    BY <2>1, <2>2
<1>6. left = right
  BY <1>2, <1>4, <1>5, SeqEqual
<1>7. QED
  BY <1>6 DEF left, right, more

(* The texts of the elements of s, when F gives the text of each. *)
Flattens(F, T, U) ==
  /\ FlattenSeq(Mapped(F, <<>>)) = <<>>
  /\ \A s \in Seq(T) : FlattenSeq(Mapped(F, s)) \in Seq(U)
  /\ \A s \in Seq(T), e \in T :
       FlattenSeq(Mapped(F, Append(s, e))) = FlattenSeq(Mapped(F, s)) \o F[e]

LEMMA FlattenMapped ==
  ASSUME NEW T, NEW U, NEW F, Gives(F, T, Seq(U))
  PROVE  Flattens(F, T, U)
<1>1. FlattenSeq(Mapped(F, <<>>)) = <<>>
  <2>1. <<>> \in Seq(T) /\ Len(<<>>) = 0
    BY EmptySeq
  <2>2. ASSUME NEW s \in Seq(T), Len(s) = 0 PROVE Mapped(F, s) = <<>>
    <3>1. Mapped(F, s) \in Seq(Seq(U)) /\ Len(Mapped(F, s)) = Len(s)
      BY MappedIs
    <3>2. QED
      BY <2>2, <3>1
  <2>3. Mapped(F, <<>>) = <<>>
    BY <2>1, <2>2
  <2>4. QED
    BY <2>3, FlattenEmpty
<1>2. ASSUME NEW s \in Seq(T) PROVE FlattenSeq(Mapped(F, s)) \in Seq(U)
  <2>1. Mapped(F, s) \in Seq(Seq(U))
    BY MappedIs
  <2>2. QED
    BY <2>1, FlattenType
<1>3. ASSUME NEW s \in Seq(T), NEW e \in T
      PROVE  FlattenSeq(Mapped(F, Append(s, e))) = FlattenSeq(Mapped(F, s)) \o F[e]
  <2>1. Mapped(F, s) \in Seq(Seq(U)) /\ F[e] \in Seq(U)
    BY MappedIs DEF Gives
  <2>2. Mapped(F, Append(s, e)) = Append(Mapped(F, s), F[e])
    BY MappedAppend
  <2>3. FlattenSeq(Append(Mapped(F, s), F[e])) = FlattenSeq(Mapped(F, s)) \o F[e]
    BY <2>1, FlattenAppend
  <2>4. QED
    BY <2>2, <2>3
<1>4. QED
  BY <1>1, <1>2, <1>3 DEF Flattens

(* Entries. *)
LEMMA RenderEntryIs ==
  ASSUME NEW e \in AnEntry, NEW indent \in {Tab, " "}
  PROVE  RenderEntry(e, indent) \in Seq(AnySymbol)
<1>1. Assignment(e) \in Seq(AnySymbol) /\ indent \in AnySymbol /\ Break \in AnySymbol
  BY AssignmentIs, TextsAre, SymbolsAre
<1>2. <<indent>> \in Seq(AnySymbol) /\ <<Break>> \in Seq(AnySymbol)
  BY <1>1, OnlyOne
<1>3. <<indent>> \o Assignment(e) \in Seq(AnySymbol)
  BY <1>1, <1>2, ConcatProperties
<1>4. (<<indent>> \o Assignment(e)) \o <<Break>> \in Seq(AnySymbol)
  BY <1>2, <1>3, ConcatProperties
<1>5. QED
  BY <1>4 DEF RenderEntry

LEMMA EntriesAre ==
  ASSUME NEW indent \in {Tab, " "}
  PROVE  /\ RenderEntries(<<>>, indent) = <<>>
         /\ \A es \in Seq(AnEntry) : RenderEntries(es, indent) \in Seq(AnySymbol)
         /\ \A es \in Seq(AnEntry), e \in AnEntry :
              RenderEntries(Append(es, e), indent) =
                RenderEntries(es, indent) \o RenderEntry(e, indent)
<1> DEFINE F == [e \in AnEntry |-> RenderEntry(e, indent)]
<1>1. Gives(F, AnEntry, Seq(AnySymbol)) /\ \A e \in AnEntry : F[e] = RenderEntry(e, indent)
  BY RenderEntryIs DEF Gives
<1>2. ASSUME NEW es \in Seq(AnEntry)
      PROVE  RenderEntries(es, indent) = FlattenSeq(Mapped(F, es))
  <2>1. [i \in DOMAIN es |-> RenderEntry(es[i], indent)] = Mapped(F, es)
    <3> HIDE DEF F
    <3>0. \A i \in DOMAIN es : es[i] \in AnEntry
      BY ElementOfSeq, LenProperties
    <3>1. \A i \in DOMAIN es : F[es[i]] = RenderEntry(es[i], indent)
      BY <1>1, <3>0
    <3>2. QED
      BY <3>1 DEF Mapped
  <2>2. QED
    BY <2>1 DEF RenderEntries
<1> HIDE DEF F
<1>3. <<>> \in Seq(AnEntry)
  BY EmptySeq
<1>4. /\ FlattenSeq(Mapped(F, <<>>)) = <<>>
      /\ \A es \in Seq(AnEntry) : FlattenSeq(Mapped(F, es)) \in Seq(AnySymbol)
      /\ \A es \in Seq(AnEntry), e \in AnEntry :
           FlattenSeq(Mapped(F, Append(es, e))) = FlattenSeq(Mapped(F, es)) \o F[e]
  <2>1. Flattens(F, AnEntry, AnySymbol)
    BY <1>1, FlattenMapped
  <2>2. QED
    BY <2>1 DEF Flattens
<1>5. \A es \in Seq(AnEntry), e \in AnEntry : Append(es, e) \in Seq(AnEntry)
  BY AppendProperties
<1>6. QED
  BY <1>1, <1>2, <1>3, <1>4, <1>5

(* Sections. *)
LEMMA RenderSectionIs ==
  ASSUME NEW s \in ASection, NEW indent \in {Tab, " "}
  PROVE  /\ RenderSection(s, indent) \in Seq(AnySymbol)
         /\ <<Config>> \o Header(s) \o <<Break>> \in Seq(AnySymbol)
         /\ s.entries \in Seq(AnEntry) /\ RenderEntries(s.entries, indent) \in Seq(AnySymbol)
<1> DEFINE head == <<Config>> \o Header(s)
           es == RenderEntries(s.entries, indent)
<1>1. head \in Seq(OnALine)
  <2>1. Config \in Keywords /\ Header(s) \in Seq(Symbols)
    BY HeaderIs DEF Keywords
  <2>2. QED
    BY <2>1, KeywordLine
<1>2. s.entries \in Seq(AnEntry)
  BY DEF ASection
<1>3. es \in Seq(AnySymbol)
  BY <1>2, EntriesAre
<1> HIDE DEF head, es
<1>4. head \in Seq(AnySymbol) /\ <<Break>> \in Seq(AnySymbol)
  <2>1. Break \in AnySymbol
    BY SymbolsAre
  <2>2. QED
    BY <1>1, <2>1, TextsAre, OnlyOne
<1>5. head \o <<Break>> \in Seq(AnySymbol)
  BY <1>4, ConcatProperties
<1>6. (head \o <<Break>>) \o es \in Seq(AnySymbol)
  BY <1>3, <1>5, ConcatProperties
<1>7. ((head \o <<Break>>) \o es) \o <<Break>> \in Seq(AnySymbol)
  BY <1>4, <1>6, ConcatProperties
<1>8. QED
  BY <1>2, <1>3, <1>5, <1>7 DEF RenderSection, head, es

LEMMA SectionsAre ==
  ASSUME NEW indent \in {Tab, " "}
  PROVE  /\ RenderSections(<<>>, indent) = <<>>
         /\ \A ss \in Seq(ASection) : RenderSections(ss, indent) \in Seq(AnySymbol)
         /\ \A ss \in Seq(ASection), s \in ASection :
              RenderSections(Append(ss, s), indent) = RenderSections(ss, indent) \o RenderSection(s, indent)
<1> DEFINE F == [s \in ASection |-> RenderSection(s, indent)]
<1>1. Gives(F, ASection, Seq(AnySymbol)) /\ \A s \in ASection : F[s] = RenderSection(s, indent)
  BY RenderSectionIs DEF Gives
<1>2. ASSUME NEW ss \in Seq(ASection)
      PROVE  RenderSections(ss, indent) = FlattenSeq(Mapped(F, ss))
  <2>1. [i \in DOMAIN ss |-> RenderSection(ss[i], indent)] = Mapped(F, ss)
    <3> HIDE DEF F
    <3>1. \A i \in DOMAIN ss : ss[i] \in ASection
      BY ElementOfSeq, LenProperties
    <3>2. \A i \in DOMAIN ss : F[ss[i]] = RenderSection(ss[i], indent)
      BY <1>1, <3>1
    <3>3. QED
      BY <3>2 DEF Mapped
  <2>2. QED
    BY <2>1 DEF RenderSections
<1> HIDE DEF F
<1>3. <<>> \in Seq(ASection)
  BY EmptySeq
<1>4. /\ FlattenSeq(Mapped(F, <<>>)) = <<>>
      /\ \A ss \in Seq(ASection) : FlattenSeq(Mapped(F, ss)) \in Seq(AnySymbol)
      /\ \A ss \in Seq(ASection), s \in ASection :
           FlattenSeq(Mapped(F, Append(ss, s))) = FlattenSeq(Mapped(F, ss)) \o F[s]
  <2>1. Flattens(F, ASection, AnySymbol)
    BY <1>1, FlattenMapped
  <2>2. QED
    BY <2>1 DEF Flattens
<1>5. \A ss \in Seq(ASection), s \in ASection : Append(ss, s) \in Seq(ASection)
  BY AppendProperties
<1>6. QED
  BY <1>1, <1>2, <1>3, <1>4, <1>5

(* Packages. *)
LEMMA RenderPackageIs ==
  ASSUME NEW p \in APackage, NEW indent \in {Tab, " "}
  PROVE  /\ RenderPackage(p, indent) \in Seq(AnySymbol)
         /\ <<Package>> \o p.name \o <<Break>> \in Seq(AnySymbol)
         /\ <<Package>> \o p.name \o <<Break>> \o <<Break>> \in Seq(AnySymbol)
         /\ p.sections \in Seq(ASection) /\ RenderSections(p.sections, indent) \in Seq(AnySymbol)
<1> DEFINE head == <<Package>> \o p.name
           ss == RenderSections(p.sections, indent)
<1>1. head \in Seq(OnALine)
  <2>1. Package \in Keywords /\ p.name \in Word
    BY DEF Keywords, APackage
  <2>2. p.name \in Seq(Symbols)
    BY <2>1, WordIs
  <2>3. QED
    BY <2>1, <2>2, KeywordLine
<1>2. p.sections \in Seq(ASection)
  BY DEF APackage
<1>3. ss \in Seq(AnySymbol)
  BY <1>2, SectionsAre
<1> HIDE DEF head, ss
<1>4. head \in Seq(AnySymbol) /\ <<Break>> \in Seq(AnySymbol)
  <2>1. Break \in AnySymbol
    BY SymbolsAre
  <2>2. QED
    BY <1>1, <2>1, TextsAre, OnlyOne
<1>5. head \o <<Break>> \in Seq(AnySymbol)
  BY <1>4, ConcatProperties
<1>6. (head \o <<Break>>) \o <<Break>> \in Seq(AnySymbol)
  BY <1>4, <1>5, ConcatProperties
<1>7. ((head \o <<Break>>) \o <<Break>>) \o ss \in Seq(AnySymbol)
  BY <1>3, <1>6, ConcatProperties
<1>8. QED
  BY <1>2, <1>3, <1>5, <1>6, <1>7 DEF RenderPackage, head, ss

LEMMA PackagesAre ==
  ASSUME NEW indent \in {Tab, " "}
  PROVE  /\ Laid(<<>>, indent) = <<>>
         /\ \A ss \in Seq(APackage) : Laid(ss, indent) \in Seq(AnySymbol)
         /\ \A ss \in Seq(APackage), s \in APackage :
              Laid(Append(ss, s), indent) = Laid(ss, indent) \o RenderPackage(s, indent)
<1> DEFINE F == [s \in APackage |-> RenderPackage(s, indent)]
<1>1. Gives(F, APackage, Seq(AnySymbol)) /\ \A s \in APackage : F[s] = RenderPackage(s, indent)
  BY RenderPackageIs DEF Gives
<1>2. ASSUME NEW ss \in Seq(APackage)
      PROVE  Laid(ss, indent) = FlattenSeq(Mapped(F, ss))
  <2>1. [i \in DOMAIN ss |-> RenderPackage(ss[i], indent)] = Mapped(F, ss)
    <3> HIDE DEF F
    <3>1. \A i \in DOMAIN ss : ss[i] \in APackage
      BY ElementOfSeq, LenProperties
    <3>2. \A i \in DOMAIN ss : F[ss[i]] = RenderPackage(ss[i], indent)
      BY <1>1, <3>1
    <3>3. QED
      BY <3>2 DEF Mapped
  <2>2. QED
    BY <2>1 DEF Laid
<1> HIDE DEF F
<1>3. <<>> \in Seq(APackage)
  BY EmptySeq
<1>4. /\ FlattenSeq(Mapped(F, <<>>)) = <<>>
      /\ \A ss \in Seq(APackage) : FlattenSeq(Mapped(F, ss)) \in Seq(AnySymbol)
      /\ \A ss \in Seq(APackage), s \in APackage :
           FlattenSeq(Mapped(F, Append(ss, s))) = FlattenSeq(Mapped(F, ss)) \o F[s]
  <2>1. Flattens(F, APackage, AnySymbol)
    BY <1>1, FlattenMapped
  <2>2. QED
    BY <2>1 DEF Flattens
<1>5. \A ss \in Seq(APackage), s \in APackage : Append(ss, s) \in Seq(APackage)
  BY AppendProperties
<1>6. QED
  BY <1>1, <1>2, <1>3, <1>4, <1>5

-----------------------------------------------------------------------------
(***************************************************************************)
(* What a line adds to the document.                                       *)
(***************************************************************************)
APkg(w, ss)      == [name |-> w, sections |-> ss]
ASec(k, n, es)   == [kind |-> k, name |-> n, entries |-> es]
Names            == {Anonymous} \cup Seq(Symbols)

(* The document in the middle of a section. *)
Upto(d, w, ss, k, n, es) == Append(d, APkg(w, Append(ss, ASec(k, n, es))))

LEMMA SetLastIs ==
  ASSUME NEW T, NEW s \in Seq(T), NEW a \in T, NEW b \in T
  PROVE  /\ SetLast(Append(s, a), b) = Append(s, b)
         /\ Last(Append(s, a)) = a /\ Append(s, a) # <<>>
<1> DEFINE left == Append(s, a)
           right == Append(s, b)
           n == Len(s) + 1
<1>1. /\ left \in Seq(T) /\ Len(left) = n /\ n \in Nat /\ left[n] = a
      /\ \A i \in 1 .. Len(s) : left[i] = s[i]
  BY AppendProperties, LenProperties
<1>2. /\ right \in Seq(T) /\ Len(right) = n /\ right[n] = b
      /\ \A i \in 1 .. Len(s) : right[i] = s[i]
  BY AppendProperties, LenProperties
<1>3. left # <<>>
  BY AppendProperties
<1> DEFINE set == [left EXCEPT ![n] = b]
<1>4. \A i \in 1 .. n : i # n => i \in 1 .. Len(s)
  BY LenProperties
<1> HIDE DEF left, right
<1>5. set \in Seq(T) /\ Len(set) = n /\ \A i \in 1 .. n : set[i] = IF i = n THEN b ELSE left[i]
  BY <1>1, ExceptSeq
<1> HIDE DEF set, n
<1>6. \A i \in 1 .. n : set[i] = right[i]
  BY <1>1, <1>2, <1>4, <1>5
<1>7. set = right
  BY <1>1, <1>2, <1>5, <1>6, SeqEqual
<1>8. QED
  BY <1>1, <1>3, <1>7 DEF SetLast, Last, left, right, set

SetsLast(T) ==
  \A s \in Seq(T), a, b \in T :
    /\ SetLast(Append(s, a), b) = Append(s, b)
    /\ Last(Append(s, a)) = a /\ Append(s, a) # <<>>

LEMMA SetLastAny == \A T : SetsLast(T)
BY SetLastIs DEF SetsLast

LEMMA PartsAre ==
  /\ \A w \in Word, ss \in Seq(ASection) : APkg(w, ss) \in APackage
  /\ \A k \in Word, n \in Names, es \in Seq(AnEntry) : ASec(k, n, es) \in ASection
  /\ \A p \in APackage : p.name \in Word /\ p.sections \in Seq(ASection)
                           /\ p = APkg(p.name, p.sections)
  /\ \A s \in ASection : s.kind \in Word /\ s.name \in Names /\ s.entries \in Seq(AnEntry)
                           /\ s = ASec(s.kind, s.name, s.entries)
BY DEF APackage, ASection, APkg, ASec, Names

LEMMA PackageWith ==
  ASSUME NEW w, NEW ss, NEW new
  PROVE  APkg(w, ss).sections = ss /\ [APkg(w, ss) EXCEPT !.sections = new] = APkg(w, new)
<1> DEFINE p == [APkg(w, ss) EXCEPT !.sections = new]
<1>1. p.name = w /\ p.sections = new /\ DOMAIN p = {"name", "sections"}
  BY DEF APkg
<1>2. p = [i \in {"name", "sections"} |-> p[i]]
  BY DEF APkg
<1>3. QED
  BY <1>1, <1>2 DEF APkg

WithEntries(s, new) == [s EXCEPT !.entries = new]

LEMMA SectionWith ==
  ASSUME NEW k, NEW n, NEW es, NEW new
  PROVE  /\ ASec(k, n, es).entries = es
         /\ WithEntries(ASec(k, n, es), new) = ASec(k, n, new)
<1> DEFINE s == WithEntries(ASec(k, n, es), new)
<1>1. s.kind = k /\ s.name = n /\ s.entries = new /\ DOMAIN s = {"kind", "name", "entries"}
  BY DEF ASec, WithEntries
<1>2. s = [i \in {"kind", "name", "entries"} |-> s[i]]
  BY DEF ASec, WithEntries
<1>3. QED
  BY <1>1, <1>2 DEF ASec

LEMMA SectionAdded ==
  ASSUME NEW d \in Seq(APackage), NEW w \in Word, NEW ss \in Seq(ASection), NEW s \in ASection
  PROVE  AddSection(Append(d, APkg(w, ss)), s) = Append(d, APkg(w, Append(ss, s)))
<1> DEFINE p == APkg(w, ss)
           q == APkg(w, Append(ss, s))
<1>1. Append(ss, s) \in Seq(ASection)
  BY AppendProperties
<1>2. p \in APackage /\ q \in APackage
  BY <1>1, PartsAre
<1>3. [p EXCEPT !.sections = Append(@, s)] = q
  BY PackageWith
<1> HIDE DEF p, q
<1>4. Last(Append(d, p)) = p /\ SetLast(Append(d, p), q) = Append(d, q)
  BY <1>2, SetLastIs
<1>5. QED
  BY <1>3, <1>4 DEF AddSection, p, q

LEMMA EntryAdded ==
  ASSUME NEW d \in Seq(APackage), NEW w \in Word, NEW ss \in Seq(ASection),
         NEW k \in Word, NEW n \in Names, NEW es \in Seq(AnEntry), NEW e \in AnEntry
  PROVE  /\ Upto(d, w, ss, k, n, es) # <<>> /\ Last(Upto(d, w, ss, k, n, es)).sections # <<>>
         /\ AddEntry(Upto(d, w, ss, k, n, es), e) = Upto(d, w, ss, k, n, Append(es, e))
<1> DEFINE s == ASec(k, n, es)
           t == ASec(k, n, Append(es, e))
           p == APkg(w, Append(ss, s))
           q == APkg(w, Append(ss, t))
           sections == Last(Append(d, p)).sections
<1>1. Append(es, e) \in Seq(AnEntry)
  BY AppendProperties
<1>2. s \in ASection /\ t \in ASection
  BY <1>1, PartsAre
<1>3. WithEntries(s, Append(s.entries, e)) = t
  <2>1. s.entries = es
    BY SectionWith
  <2>2. WithEntries(s, Append(es, e)) = t
    BY SectionWith
  <2>3. QED
    BY <2>1, <2>2
<1> HIDE DEF s, t
<1>4. Append(ss, s) \in Seq(ASection) /\ Append(ss, t) \in Seq(ASection)
  BY <1>2, AppendProperties
<1>5. Last(Append(ss, s)) = s /\ SetLast(Append(ss, s), t) = Append(ss, t) /\ Append(ss, s) # <<>>
  <2> HIDE DEF p, q, sections
  <2>1. SetsLast(ASection)
    BY SetLastAny
  <2>2. QED
    BY <1>2, <2>1 DEF SetsLast
<1>6. p \in APackage /\ q \in APackage
  BY <1>4, PartsAre
<1>7. p.sections = Append(ss, s)
  BY PackageWith
<1>8. [p EXCEPT !.sections = SetLast(p.sections, [Last(p.sections) EXCEPT !.entries = Append(@, e)])] = q
  <2>1. SetLast(p.sections, [Last(p.sections) EXCEPT !.entries = Append(@, e)]) = Append(ss, t)
    <3>1. [s EXCEPT !.entries = Append(@, e)] = t
      BY <1>3 DEF WithEntries
    <3>2. QED
      BY <1>5, <1>7, <3>1
  <2>2. [p EXCEPT !.sections = Append(ss, t)] = q
    BY PackageWith
  <2>3. QED
    BY <2>1, <2>2
<1> HIDE DEF p, q
<1>9. Last(Append(d, p)) = p /\ SetLast(Append(d, p), q) = Append(d, q) /\ Append(d, p) # <<>>
  BY <1>6, SetLastIs
<1>10. AddEntry(Append(d, p), e) = Append(d, q)
  BY <1>8, <1>9 DEF AddEntry
<1>11. QED
  BY <1>5, <1>7, <1>9, <1>10 DEF Upto, p, q, s, t

EntryAdds(d, w, ss, k, n) ==
  \A es \in Seq(AnEntry), e \in AnEntry :
    /\ Upto(d, w, ss, k, n, es) # <<>> /\ Last(Upto(d, w, ss, k, n, es)).sections # <<>>
    /\ AddEntry(Upto(d, w, ss, k, n, es), e) = Upto(d, w, ss, k, n, Append(es, e))

LEMMA EntriesAdded ==
  ASSUME NEW d \in Seq(APackage), NEW w \in Word, NEW ss \in Seq(ASection),
         NEW k \in Word, NEW n \in Names
  PROVE  EntryAdds(d, w, ss, k, n)
<1>1. ASSUME NEW es \in Seq(AnEntry), NEW e \in AnEntry
      PROVE  /\ Upto(d, w, ss, k, n, es) # <<>> /\ Last(Upto(d, w, ss, k, n, es)).sections # <<>>
             /\ AddEntry(Upto(d, w, ss, k, n, es), e) = Upto(d, w, ss, k, n, Append(es, e))
  BY EntryAdded
<1>2. QED
  BY <1>1 DEF EntryAdds

-----------------------------------------------------------------------------
(***************************************************************************)
(* Reading back.  Reads(text, d, d2): a parser that came as far as d has   *)
(* read d2 when it is through the lines of text.                           *)
(***************************************************************************)
Reads(text, d, d2) == After(At(<<>>, Read(d)), text) = At(<<>>, Read(d2))

LEMMA NothingReads == \A d : Reads(<<>>, d, d)
BY AfterEmpty DEF Reads

LEMMA LineReads ==
  ASSUME NEW d, NEW d2, NEW raw \in Seq(OnALine), Line(d, raw) = Read(d2)
  PROVE  Reads(raw \o <<Break>>, d, d2)
<1>1. LineDone(Read(d), raw) = Line(d, raw)
  BY DEF LineDone, Read
<1>2. After(At(<<>>, Read(d)), raw \o <<Break>>) = At(<<>>, LineDone(Read(d), raw))
  BY AfterLine
<1>3. QED
  BY <1>1, <1>2 DEF Reads

LEMMA EmptyLineReads == \A d : Reads(<<Break>>, d, d)
<1> TAKE d
<1>1. <<>> \in Seq(OnALine) /\ Line(d, <<>>) = Read(d)
  BY EmptyRead, EmptySeq
<1>2. Reads(<<>> \o <<Break>>, d, d)
  BY <1>1, LineReads
<1>3. <<>> \o <<Break>> = <<Break>>
  OBVIOUS
<1>4. QED
  BY <1>2, <1>3

LEMMA ConcatReads ==
  ASSUME NEW text \in Seq(AnySymbol), NEW rest \in Seq(AnySymbol), NEW d1, NEW d2, NEW d3,
         Reads(text, d1, d2), Reads(rest, d2, d3)
  PROVE  Reads(text \o rest, d1, d3)
<1>1. After(At(<<>>, Read(d1)), text \o rest) = After(After(At(<<>>, Read(d1)), text), rest)
  BY AfterConcat
<1>2. QED
  BY <1>1 DEF Reads

LEMMA EntriesRead ==
  ASSUME NEW d \in Seq(APackage), NEW w \in Word, NEW ss \in Seq(ASection),
         NEW k \in Word, NEW n \in Names, NEW indent \in {Tab, " "}
  PROVE  \A es \in Seq(AnEntry) :
           Reads(RenderEntries(es, indent), Upto(d, w, ss, k, n, <<>>), Upto(d, w, ss, k, n, es))
<1> DEFINE D(fs) == Upto(d, w, ss, k, n, fs)
           S == {fs \in Seq(AnEntry) : Reads(RenderEntries(fs, indent), D(<<>>), D(fs))}
<1>1. EntryAdds(d, w, ss, k, n)
  BY EntriesAdded
<1>2. <<>> \in S
  BY EntriesAre, NothingReads, EmptySeq
<1>3. ASSUME NEW fs \in Seq(AnEntry), NEW e \in AnEntry, fs \in S PROVE Append(fs, e) \in S
  <2> DEFINE d1 == D(<<>>)
             d2 == D(fs)
             d3 == D(Append(fs, e))
             raw == <<indent>> \o Assignment(e)
  <2>1. Reads(RenderEntries(fs, indent), d1, d2)
    BY <1>3
  <2>2. d2 # <<>> /\ Last(d2).sections # <<>> /\ AddEntry(d2, e) = d3
    BY <1>1 DEF EntryAdds
  <2> HIDE DEF D
  <2>3. raw \in Seq(OnALine) /\ Line(d2, raw) = Read(d3)
    <3> HIDE DEF d2, d3
    <3>1. QED
      BY <2>2, EntryRead
  <2> HIDE DEF raw, d1, d2, d3
  <2>4. Reads(raw \o <<Break>>, d2, d3)
    BY <2>3, LineReads
  <2>5. raw \o <<Break>> = RenderEntry(e, indent)
    BY DEF RenderEntry, raw
  <2>6. RenderEntries(fs, indent) \in Seq(AnySymbol) /\ RenderEntry(e, indent) \in Seq(AnySymbol)
    BY EntriesAre, RenderEntryIs
  <2>7. Reads(RenderEntries(fs, indent) \o RenderEntry(e, indent), d1, d3)
    BY <2>1, <2>4, <2>5, <2>6, ConcatReads
  <2>8. RenderEntries(Append(fs, e), indent) = RenderEntries(fs, indent) \o RenderEntry(e, indent)
    BY EntriesAre
  <2>9. Append(fs, e) \in Seq(AnEntry)
    BY AppendProperties
  <2>10. QED
    BY <2>7, <2>8, <2>9 DEF d1, d3
<1>4. QED
  <2> HIDE DEF S
  <2>1. \A fs \in Seq(AnEntry) : fs \in S
    BY <1>2, <1>3, AppendInduction
  <2>2. QED
    BY <2>1 DEF S

LEMMA SectionReads ==
  ASSUME NEW d \in Seq(APackage), NEW w \in Word, NEW ss \in Seq(ASection), NEW s \in ASection,
         NEW indent \in {Tab, " "}
  PROVE  Reads(RenderSection(s, indent),
               Append(d, APkg(w, ss)), Append(d, APkg(w, Append(ss, s))))
<1> DEFINE k == s.kind
           n == s.name
           raw == <<Config>> \o Header(s)
           es == RenderEntries(s.entries, indent)
           d1 == Append(d, APkg(w, ss))
           d2 == Upto(d, w, ss, k, n, <<>>)
           d3 == Append(d, APkg(w, Append(ss, s)))
<1>1. k \in Word /\ n \in Names /\ s.entries \in Seq(AnEntry) /\ s = ASec(k, n, s.entries)
  BY PartsAre
<1>2. ASec(k, n, <<>>) \in ASection
  BY <1>1, PartsAre, EmptySeq
<1>3. AddSection(d1, ASec(k, n, <<>>)) = d2 /\ d1 # <<>>
  <2>1. APkg(w, ss) \in APackage
    BY PartsAre
  <2>2. d1 # <<>>
    BY <2>1, AppendProperties
  <2>3. QED
    BY <1>2, <2>2, SectionAdded DEF Upto
<1>4. Reads(es, d2, d3)
  BY <1>1, EntriesRead DEF Upto
<1> HIDE DEF d1, d2, d3
<1>5. raw \in Seq(OnALine) /\ Line(d1, raw) = Read(d2)
  <2>1. raw \in Seq(OnALine)
        /\ Line(d1, raw) = Read(AddSection(d1, [kind |-> s.kind, name |-> s.name, entries |-> <<>>]))
    BY <1>3, SectionRead
  <2>2. QED
    BY <1>3, <2>1 DEF ASec
<1>6. raw \o <<Break>> \in Seq(AnySymbol) /\ es \in Seq(AnySymbol)
  BY RenderSectionIs
<1> HIDE DEF k, n, raw, es
<1>7. Reads(raw \o <<Break>>, d1, d2)
  BY <1>5, LineReads
<1> DEFINE head == raw \o <<Break>>
<1> HIDE DEF head
<1>8. Reads(head \o es, d1, d3) /\ head \o es \in Seq(AnySymbol)
  <2>1. head \in Seq(AnySymbol) /\ Reads(head, d1, d2)
    BY <1>6, <1>7 DEF head
  <2>2. Reads(head \o es, d1, d3)
    BY <1>4, <1>6, <2>1, ConcatReads
  <2>3. QED
    BY <1>6, <2>1, <2>2, ConcatProperties
<1>9. Reads((head \o es) \o <<Break>>, d1, d3)
  <2>1. Reads(<<Break>>, d3, d3)
    BY EmptyLineReads
  <2>2. <<Break>> \in Seq(AnySymbol)
    BY SymbolsAre, OnlyOne
  <2> DEFINE body == head \o es
  <2>3. body \in Seq(AnySymbol) /\ Reads(body, d1, d3)
    BY <1>8
  <2> HIDE DEF body
  <2>4. Reads(body \o <<Break>>, d1, d3)
    BY <2>1, <2>2, <2>3, ConcatReads
  <2>5. QED
    BY <2>4 DEF body
<1>10. RenderSection(s, indent) = (head \o es) \o <<Break>>
  BY DEF RenderSection, head, raw, es
<1>11. QED
  BY <1>9, <1>10 DEF d1, d3

LEMMA SectionsRead ==
  ASSUME NEW d \in Seq(APackage), NEW w \in Word, NEW indent \in {Tab, " "},
         NEW ss \in Seq(ASection)
  PROVE  Reads(RenderSections(ss, indent), Append(d, APkg(w, <<>>)), Append(d, APkg(w, ss)))
<1> DEFINE D(ts) == Append(d, APkg(w, ts))
           S == {ts \in Seq(ASection) : Reads(RenderSections(ts, indent), D(<<>>), D(ts))}
<1>1. <<>> \in S
  BY SectionsAre, NothingReads, EmptySeq
<1>2. ASSUME NEW ts \in Seq(ASection), NEW s \in ASection, ts \in S PROVE Append(ts, s) \in S
  <2> DEFINE d1 == D(<<>>)
             d2 == D(ts)
             d3 == D(Append(ts, s))
  <2>1. Reads(RenderSections(ts, indent), d1, d2)
    BY <1>2
  <2>2. Reads(RenderSection(s, indent), d2, d3)
    BY SectionReads
  <2> HIDE DEF D, d1, d2, d3
  <2>3. RenderSections(ts, indent) \in Seq(AnySymbol) /\ RenderSection(s, indent) \in Seq(AnySymbol)
    BY SectionsAre, RenderSectionIs
  <2>4. Reads(RenderSections(ts, indent) \o RenderSection(s, indent), d1, d3)
    BY <2>1, <2>2, <2>3, ConcatReads
  <2>5. RenderSections(Append(ts, s), indent) = RenderSections(ts, indent) \o RenderSection(s, indent)
    BY SectionsAre
  <2>6. Append(ts, s) \in Seq(ASection)
    BY AppendProperties
  <2>7. QED
    BY <2>4, <2>5, <2>6 DEF d1, d3
<1>3. QED
  <2> HIDE DEF S
  <2>1. \A ts \in Seq(ASection) : ts \in S
    BY <1>1, <1>2, AppendInduction
  <2>2. QED
    BY <2>1 DEF S

LEMMA PackageReads ==
  ASSUME NEW d \in Seq(APackage), NEW p \in APackage, NEW indent \in {Tab, " "}
  PROVE  Reads(RenderPackage(p, indent), d, Append(d, p))
<1> DEFINE w == p.name
           raw == <<Package>> \o w
           ss == RenderSections(p.sections, indent)
           d2 == Append(d, APkg(w, <<>>))
           d3 == Append(d, p)
<1>1. w \in Word /\ p.sections \in Seq(ASection) /\ p = APkg(w, p.sections)
  BY PartsAre
<1>2. raw \in Seq(OnALine) /\ Line(d, raw) = Read(d2)
  BY <1>1, PackageRead DEF APkg
<1>3. Reads(ss, d2, d3)
  BY <1>1, SectionsRead
<1>4. /\ raw \o <<Break>> \in Seq(AnySymbol) /\ ss \in Seq(AnySymbol)
      /\ (raw \o <<Break>>) \o <<Break>> \in Seq(AnySymbol)
  BY RenderPackageIs
<1> HIDE DEF d2, d3, raw, ss, w
<1> DEFINE line == raw \o <<Break>>
           head == line \o <<Break>>
<1>5. Reads(line, d, d2) /\ line \in Seq(AnySymbol)
  BY <1>2, <1>4, LineReads
<1>6. head \in Seq(AnySymbol)
  BY <1>4
<1>7. RenderPackage(p, indent) = head \o ss
  BY DEF RenderPackage, raw, ss, w
<1> HIDE DEF line
<1>8. Reads(head, d, d2)
  <2>1. Reads(<<Break>>, d2, d2) /\ <<Break>> \in Seq(AnySymbol)
    BY SymbolsAre, OnlyOne, EmptyLineReads
  <2>2. QED
    BY <1>5, <2>1, ConcatReads
<1> HIDE DEF head
<1>9. Reads(head \o ss, d, d3)
  BY <1>3, <1>4, <1>6, <1>8, ConcatReads
<1>10. QED
  BY <1>7, <1>9 DEF d3

LEMMA DocumentReads ==
  ASSUME NEW indent \in {Tab, " "}, NEW doc \in Seq(APackage)
  PROVE  Reads(Laid(doc, indent), <<>>, doc)
<1> DEFINE S == {d \in Seq(APackage) : Reads(Laid(d, indent), <<>>, d)}
<1>1. <<>> \in S
  BY PackagesAre, NothingReads, EmptySeq
<1>2. ASSUME NEW d \in Seq(APackage), NEW p \in APackage, d \in S PROVE Append(d, p) \in S
  <2> DEFINE none == <<>>
             d3 == Append(d, p)
  <2>1. Reads(Laid(d, indent), none, d)
    BY <1>2
  <2>2. Reads(RenderPackage(p, indent), d, d3)
    BY PackageReads
  <2> HIDE DEF none, d3
  <2>3. Laid(d, indent) \in Seq(AnySymbol) /\ RenderPackage(p, indent) \in Seq(AnySymbol)
    BY PackagesAre, RenderPackageIs
  <2>4. Reads(Laid(d, indent) \o RenderPackage(p, indent), none, d3)
    BY <2>1, <2>2, <2>3, ConcatReads
  <2>5. Laid(Append(d, p), indent) = Laid(d, indent) \o RenderPackage(p, indent)
    BY PackagesAre
  <2>6. Append(d, p) \in Seq(APackage)
    BY AppendProperties
  <2>7. QED
    BY <2>4, <2>5, <2>6 DEF none, d3
<1>3. QED
  <2> HIDE DEF S
  <2>1. \A d \in Seq(APackage) : d \in S
    BY <1>1, <1>2, AppendInduction
  <2>2. QED
    BY <2>1 DEF S

(* What is rendered is read back as it was, indented with a tab or with a  *)
(* blank (parse.rs, document, and render.rs, document).                    *)
THEOREM RoundTrip ==
  ASSUME NEW doc \in Seq(APackage), NEW indent \in {Tab, " "}
  PROVE  Parse(Laid(doc, indent)) = [error |-> "none", doc |-> doc]
<1> DEFINE end == After(At(<<>>, Read(<<>>)), Laid(doc, indent))
<1>1. end = At(<<>>, Read(doc))
  BY DocumentReads DEF Reads
<1>2. Parse(Laid(doc, indent)) = LineDone(end.sofar, end.line)
  BY DEF Parse, At
<1> HIDE DEF end
<1>3. end.sofar = Read(doc) /\ end.line = <<>>
  BY <1>1 DEF At
<1>4. LineDone(Read(doc), <<>>) = Line(doc, <<>>)
  BY DEF LineDone, Read
<1>5. Line(doc, <<>>) = Read(doc)
  BY EmptyRead
<1>6. QED
  BY <1>2, <1>3, <1>4, <1>5 DEF Read

-----------------------------------------------------------------------------
(***************************************************************************)
(* Damage.  A keyword stands at the beginning of a line, or after the      *)
(* blank that indents it; with something else in its place no rule of the  *)
(* grammar takes the line, and an error that was found is kept.            *)
(***************************************************************************)
LEMMA FirstIndex == \A i \in 1 .. 2 - 1 : i = 1
OBVIOUS

LEMMA SecondIndex ==
  ASSUME NEW n \in Nat
  PROVE  1 \in 1 .. n + 1 /\ 2 \in 1 .. (n + 1) + 1 /\ 1 + 1 = 2
OBVIOUS

LEMMA IndexBefore ==
  ASSUME NEW n \in Nat, NEW i \in 1 .. n + 1, i # 1
  PROVE  i - 1 \in 1 .. n /\ i = (i - 1) + 1 /\ 1 + (i - 1) = i
OBVIOUS

LEMMA IndexAfter ==
  ASSUME NEW m \in Nat, NEW n \in Nat \ {0}
  PROVE  m + 1 \in 1 .. m + n /\ ~ (m + 1 <= m) /\ (m + 1) - m = 1
OBVIOUS

Put(s, i, c) == [s EXCEPT ![i] = c]

LEMMA PutIs ==
  ASSUME NEW T, NEW s \in Seq(T), NEW c \in T, NEW i \in 1 .. Len(s)
  PROVE  /\ Put(s, i, c) \in Seq(T) /\ Len(Put(s, i, c)) = Len(s) /\ Put(s, i, c)[i] = c
         /\ \A j \in 1 .. Len(s) : j # i => Put(s, i, c)[j] = s[j]
BY ExceptSeq DEF Put

Joins(T, s, t) ==
  /\ s \o t \in Seq(T) /\ Len(s \o t) = Len(s) + Len(t)
  /\ \A i \in 1 .. Len(s) + Len(t) : (s \o t)[i] = IF i <= Len(s) THEN s[i] ELSE t[i - Len(s)]

LEMMA Joining ==
  ASSUME NEW T, NEW s \in Seq(T), NEW t \in Seq(T)
  PROVE  Joins(T, s, t)
BY ConcatProperties DEF Joins

Fronts(T, e, t) ==
  /\ <<e>> \o t \in Seq(T) /\ Len(<<e>> \o t) = Len(t) + 1 /\ Len(t) \in Nat
  /\ (<<e>> \o t)[1] = e /\ \A i \in 1 .. Len(t) : (<<e>> \o t)[i + 1] = t[i]

LEMMA Fronting ==
  ASSUME NEW T, NEW e \in T, NEW t \in Seq(T)
  PROVE  Fronts(T, e, t)
<1> DEFINE long == <<e>> \o t
<1>1. /\ long \in Seq(T) /\ Len(long) = Len(t) + 1 /\ Len(t) \in Nat /\ long[1] = e
      /\ \A i \in 1 .. Len(t) : long[i + 1] = t[i]
  OBVIOUS
<1> HIDE DEF long
<1>2. QED
  BY <1>1 DEF Fronts, long

Starts(T, s, t) == s \o t \in Seq(T) /\ s \o t # <<>> /\ (s \o t)[1] = s[1]

LEMMA Starting ==
  ASSUME NEW T, NEW s \in Seq(T), NEW t \in Seq(T), s # <<>>
  PROVE  Starts(T, s, t)
<1> DEFINE whole == s \o t
<1>1. Joins(T, s, t)
  BY Joining
<1>2. Len(s) \in Nat \ {0} /\ Len(t) \in Nat
  BY EmptySeq, LenProperties
<1>3. whole \in Seq(T) /\ Len(whole) # 0 /\ whole[1] = s[1]
  BY <1>1, <1>2 DEF Joins
<1> HIDE DEF whole
<1>4. whole # <<>>
  BY <1>3
<1>5. QED
  BY <1>3, <1>4 DEF Starts, whole

Puts(T, s) ==
  \A c \in T, i \in 1 .. Len(s) :
    Put(s, i, c) \in Seq(T) /\ Len(Put(s, i, c)) = Len(s) /\ Put(s, i, c)[i] = c

LEMMA Putting ==
  ASSUME NEW T, NEW s \in Seq(T)
  PROVE  Puts(T, s)
<1>1. ASSUME NEW c \in T, NEW i \in 1 .. Len(s)
      PROVE  Put(s, i, c) \in Seq(T) /\ Len(Put(s, i, c)) = Len(s) /\ Put(s, i, c)[i] = c
  BY PutIs
<1>2. QED
  BY <1>1 DEF Puts

LEMMA PutLeft ==
  ASSUME NEW T, NEW s \in Seq(T), NEW t \in Seq(T), NEW c \in T, NEW i \in 1 .. Len(s)
  PROVE  Put(s \o t, i, c) = Put(s, i, c) \o t /\ Put(s, i, c) \in Seq(T)
<1> DEFINE m == Len(s)
           n == m + Len(t)
           long == s \o t
           put == Put(s, i, c)
           left == Put(long, i, c)
           right == put \o t
<1>1. m \in Nat /\ Len(t) \in Nat /\ i \in 1 .. m /\ i \in 1 .. n
  BY LenProperties
<1>2. long \in Seq(T) /\ Len(long) = n /\ \A j \in 1 .. n : long[j] = IF j <= m THEN s[j] ELSE t[j - m]
  BY ConcatProperties
<1>3. /\ put \in Seq(T) /\ Len(put) = m /\ put[i] = c
      /\ \A j \in 1 .. m : j # i => put[j] = s[j]
  BY PutIs
<1> HIDE DEF put
<1>4. /\ right \in Seq(T) /\ Len(right) = n
      /\ \A j \in 1 .. n : right[j] = IF j <= m THEN put[j] ELSE t[j - m]
  <2>1. Joins(T, put, t)
    BY <1>3, Joining
  <2>2. QED
    BY <1>3, <2>1 DEF Joins
<1> HIDE DEF long, m, n
<1>5. /\ left \in Seq(T) /\ Len(left) = n /\ left[i] = c
      /\ \A j \in 1 .. n : j # i => left[j] = long[j]
  BY <1>1, <1>2, PutIs
<1> HIDE DEF left, right
<1>6. \A j \in 1 .. n : left[j] = right[j]
  <2> SUFFICES ASSUME NEW j \in 1 .. n PROVE left[j] = right[j]
    OBVIOUS
  <2>1. CASE j = i
    <3>1. i <= m
      BY <1>1
    <3>2. QED
      BY <1>3, <1>4, <1>5, <2>1, <3>1
  <2>2. CASE j # i /\ j <= m
    <3>1. j \in 1 .. m
      BY <2>2
    <3>2. QED
      BY <1>2, <1>3, <1>4, <1>5, <2>2, <3>1
  <2>3. CASE j # i /\ ~(j <= m)
    BY <1>2, <1>4, <1>5, <2>3
  <2>4. QED
    BY <2>1, <2>2, <2>3
<1>7. left = right
  BY <1>4, <1>5, <1>6, SeqEqual
<1>8. QED
  BY <1>3, <1>7 DEF left, right, long, put

LEMMA PutRight ==
  ASSUME NEW T, NEW s \in Seq(T), NEW t \in Seq(T), NEW c \in T, NEW i \in 1 .. Len(t)
  PROVE  Put(s \o t, Len(s) + i, c) = s \o Put(t, i, c) /\ Put(t, i, c) \in Seq(T)
<1> DEFINE m == Len(s)
           n == m + Len(t)
           k == m + i
           long == s \o t
           put == Put(t, i, c)
           left == Put(long, k, c)
           right == s \o put
<1>1. m \in Nat /\ Len(t) \in Nat /\ k \in 1 .. n /\ ~(k <= m) /\ k - m = i
  BY LenProperties
<1>2. long \in Seq(T) /\ Len(long) = n /\ \A j \in 1 .. n : long[j] = IF j <= m THEN s[j] ELSE t[j - m]
  BY ConcatProperties
<1>3. /\ put \in Seq(T) /\ Len(put) = Len(t) /\ put[i] = c
      /\ \A j \in 1 .. Len(t) : j # i => put[j] = t[j]
  BY PutIs
<1> HIDE DEF put
<1>4. /\ right \in Seq(T) /\ Len(right) = n
      /\ \A j \in 1 .. n : right[j] = IF j <= m THEN s[j] ELSE put[j - m]
  <2>1. Joins(T, s, put)
    BY <1>3, Joining
  <2>2. QED
    BY <1>3, <2>1 DEF Joins
<1>5. \A j \in 1 .. n : ~(j <= m) => j - m \in 1 .. Len(t) /\ (j # k => j - m # i)
  BY <1>1
<1> HIDE DEF long, m, n, k
<1>6. /\ left \in Seq(T) /\ Len(left) = n /\ left[k] = c
      /\ \A j \in 1 .. n : j # k => left[j] = long[j]
  BY <1>1, <1>2, PutIs
<1> HIDE DEF left, right
<1>7. \A j \in 1 .. n : left[j] = right[j]
  <2> SUFFICES ASSUME NEW j \in 1 .. n PROVE left[j] = right[j]
    OBVIOUS
  <2>1. CASE j = k
    BY <1>1, <1>3, <1>4, <1>6, <2>1
  <2>2. CASE j # k /\ j <= m
    BY <1>2, <1>4, <1>6, <2>2
  <2>3. CASE j # k /\ ~(j <= m)
    BY <1>5, <1>2, <1>3, <1>4, <1>6, <2>3
  <2>4. QED
    BY <2>1, <2>2, <2>3
<1>8. left = right
  BY <1>4, <1>6, <1>7, SeqEqual
<1>9. QED
  BY <1>3, <1>8 DEF left, right, long, put, k, m

PutsLeft(T, s, t) ==
  \A c \in T, i \in 1 .. Len(s) : Put(s \o t, i, c) = Put(s, i, c) \o t
PutsRight(T, s, t) ==
  \A c \in T, i \in 1 .. Len(t) : Put(s \o t, Len(s) + i, c) = s \o Put(t, i, c)

LEMMA PuttingEither ==
  ASSUME NEW T, NEW s \in Seq(T), NEW t \in Seq(T)
  PROVE  PutsLeft(T, s, t) /\ PutsRight(T, s, t)
<1>1. ASSUME NEW c \in T, NEW i \in 1 .. Len(s)
      PROVE  Put(s \o t, i, c) = Put(s, i, c) \o t
  BY PutLeft
<1>2. ASSUME NEW c \in T, NEW i \in 1 .. Len(t)
      PROVE  Put(s \o t, Len(s) + i, c) = s \o Put(t, i, c)
  BY PutRight
<1>3. QED
  BY <1>1, <1>2 DEF PutsLeft, PutsRight

(* The lines of text are read, and with something else for a keyword of    *)
(* theirs they are refused.                                                *)
Refused(sofar)           == sofar.error # "none"
Ends(state, refused)     == \E sofar : state = At(<<>>, sofar) /\ (refused => Refused(sofar))
Through(text)            == \A sofar : Ends(After(At(<<>>, sofar), text), Refused(sofar))
Fragile(text, noise)     ==
  \A sofar : \A i \in 1 .. Len(text) :
    text[i] \in Keywords => Ends(After(At(<<>>, sofar), Put(text, i, noise)), TRUE)
Lines(text, noise)       == text \in Seq(AnySymbol) /\ Through(text) /\ Fragile(text, noise)

LEMMA ConcatLines ==
  ASSUME NEW noise \in Letters, NEW s, NEW t, Lines(s, noise), Lines(t, noise)
  PROVE  Lines(s \o t, noise)
<1>1. /\ s \in Seq(AnySymbol) /\ Through(s) /\ Fragile(s, noise)
      /\ t \in Seq(AnySymbol) /\ Through(t) /\ Fragile(t, noise)
  BY DEF Lines
<1>2. noise \in AnySymbol
  BY SymbolsAre
<1>3. /\ s \o t \in Seq(AnySymbol) /\ Len(s \o t) = Len(s) + Len(t)
      /\ \A j \in 1 .. Len(s) + Len(t) : (s \o t)[j] = IF j <= Len(s) THEN s[j] ELSE t[j - Len(s)]
  BY <1>1, ConcatProperties
<1>4. Through(s \o t)
  <2> SUFFICES ASSUME NEW sofar PROVE Ends(After(At(<<>>, sofar), s \o t), Refused(sofar))
    BY DEF Through
  <2>1. PICK sofar1 : After(At(<<>>, sofar), s) = At(<<>>, sofar1) /\ (Refused(sofar) => Refused(sofar1))
    BY <1>1 DEF Through, Ends
  <2>2. PICK sofar2 : After(At(<<>>, sofar1), t) = At(<<>>, sofar2) /\ (Refused(sofar1) => Refused(sofar2))
    BY <1>1 DEF Through, Ends
  <2>3. After(At(<<>>, sofar), s \o t) = After(After(At(<<>>, sofar), s), t)
    BY <1>1, AfterConcat
  <2>4. QED
    BY <2>1, <2>2, <2>3 DEF Ends
<1>5. ASSUME NEW sofar, NEW i \in 1 .. Len(s), (s \o t)[i] \in Keywords
      PROVE  Ends(After(At(<<>>, sofar), Put(s \o t, i, noise)), TRUE)
  <2>1. s[i] \in Keywords
    <3>1. i \in 1 .. Len(s) + Len(t) /\ i <= Len(s)
      BY <1>1, LenProperties
    <3>2. QED
      BY <1>3, <1>5, <3>1
  <2>2. Put(s \o t, i, noise) = Put(s, i, noise) \o t /\ Put(s, i, noise) \in Seq(AnySymbol)
    BY <1>1, <1>2, PutLeft
  <2>3. PICK sofar1 : After(At(<<>>, sofar), Put(s, i, noise)) = At(<<>>, sofar1) /\ Refused(sofar1)
    <3>1. Ends(After(At(<<>>, sofar), Put(s, i, noise)), TRUE)
      BY <1>1, <2>1 DEF Fragile
    <3>2. QED
      BY <3>1 DEF Ends
  <2>4. PICK sofar2 : After(At(<<>>, sofar1), t) = At(<<>>, sofar2) /\ (Refused(sofar1) => Refused(sofar2))
    BY <1>1 DEF Through, Ends
  <2> DEFINE r == Put(s, i, noise)
  <2>5. After(At(<<>>, sofar), r \o t) = After(After(At(<<>>, sofar), r), t)
    <3>1. r \in Seq(AnySymbol)
      BY <2>2
    <3> HIDE DEF r
    <3>2. QED
      BY <1>1, <3>1, AfterConcat
  <2>6. QED
    BY <2>2, <2>3, <2>4, <2>5 DEF Ends
<1>6. ASSUME NEW sofar, NEW i \in 1 .. Len(t), t[i] \in Keywords
      PROVE  Ends(After(At(<<>>, sofar), Put(s \o t, Len(s) + i, noise)), TRUE)
  <2>1. Put(s \o t, Len(s) + i, noise) = s \o Put(t, i, noise) /\ Put(t, i, noise) \in Seq(AnySymbol)
    BY <1>1, <1>2, PutRight
  <2>2. PICK sofar1 : After(At(<<>>, sofar), s) = At(<<>>, sofar1)
    BY <1>1 DEF Through, Ends
  <2>3. PICK sofar2 : After(At(<<>>, sofar1), Put(t, i, noise)) = At(<<>>, sofar2) /\ Refused(sofar2)
    <3>1. Ends(After(At(<<>>, sofar1), Put(t, i, noise)), TRUE)
      BY <1>1, <1>6 DEF Fragile
    <3>2. QED
      BY <3>1 DEF Ends
  <2> DEFINE r == Put(t, i, noise)
  <2>4. After(At(<<>>, sofar), s \o r) = After(After(At(<<>>, sofar), s), r)
    <3>1. r \in Seq(AnySymbol)
      BY <2>1
    <3> HIDE DEF r
    <3>2. QED
      BY <1>1, <3>1, AfterConcat
  <2>5. QED
    BY <2>1, <2>2, <2>3, <2>4 DEF Ends
<1>7. Fragile(s \o t, noise)
  <2> SUFFICES ASSUME NEW sofar, NEW i \in 1 .. Len(s \o t), (s \o t)[i] \in Keywords
               PROVE  Ends(After(At(<<>>, sofar), Put(s \o t, i, noise)), TRUE)
    BY DEF Fragile
  <2>1. CASE i <= Len(s)
    <3>1. i \in 1 .. Len(s)
      BY <1>1, <2>1, LenProperties
    <3>2. QED
      BY <1>5, <3>1
  <2>2. CASE ~(i <= Len(s))
    <3> DEFINE j == i - Len(s)
    <3>1. j \in 1 .. Len(t) /\ i = Len(s) + j
      BY <1>1, <1>3, <2>2, LenProperties
    <3>2. t[j] \in Keywords
      BY <1>3, <2>2
    <3> HIDE DEF j
    <3>3. QED
      BY <1>6, <3>1, <3>2
  <2>3. QED
    BY <2>1, <2>2
<1>8. QED
  BY <1>3, <1>4, <1>7 DEF Lines

LEMMA EmptyLines ==
  ASSUME NEW noise \in Letters
  PROVE  Lines(<<>>, noise) /\ Lines(<<Break>>, noise)
<1>1. Lines(<<>>, noise)
  <2>1. <<>> \in Seq(AnySymbol) /\ Len(<<>>) = 0
    BY EmptySeq
  <2>2. Through(<<>>)
    BY AfterEmpty DEF Through, Ends
  <2>3. QED
    BY <2>1, <2>2 DEF Lines, Fragile
<1>2. Lines(<<Break>>, noise)
  <2>1. Break \in AnySymbol /\ Break \notin Keywords
    BY SymbolsAre
  <2>2. <<Break>> \in Seq(AnySymbol) /\ Len(<<Break>>) = 1 /\ <<Break>>[1] = Break
    BY <2>1, OnlyOne
  <2>3. Fragile(<<Break>>, noise)
    <3>1. \A i \in 1 .. Len(<<Break>>) : i = 1
      BY <2>2
    <3>2. \A i \in 1 .. Len(<<Break>>) : <<Break>>[i] \notin Keywords
      BY <2>1, <2>2, <3>1
    <3>3. QED
      BY <3>2 DEF Fragile
  <2>4. Through(<<Break>>)
    <3> SUFFICES ASSUME NEW sofar PROVE Ends(After(At(<<>>, sofar), <<Break>>), Refused(sofar))
      BY DEF Through
    <3>1. After(At(<<>>, sofar), <<>> \o <<Break>>) = At(<<>>, LineDone(sofar, <<>>))
      BY AfterLine, EmptySeq
    <3>2. <<>> \o <<Break>> = <<Break>>
      OBVIOUS
    <3>3. Refused(sofar) => LineDone(sofar, <<>>) = sofar
      BY DEF Refused, LineDone
    <3>4. QED
      BY <3>1, <3>2, <3>3 DEF Ends
  <2>5. QED
    BY <2>2, <2>3, <2>4 DEF Lines
<1>3. QED
  BY <1>1, <1>2

(* A letter where a keyword was. *)
LEMMA NoiseIs ==
  ASSUME NEW noise \in Letters
  PROVE  /\ noise \in OnALine /\ noise \in Symbols /\ noise \notin Keywords /\ ~Blank(noise)
         /\ noise \notin {Package, Config, Option, List}
<1>1. noise \in OnALine /\ noise \in Symbols /\ noise \notin Keywords
  BY SymbolsAre
<1>2. ~Blank(noise)
  BY LettersAssumption DEF Blank
<1>3. QED
  BY <1>1, <1>2 DEF Keywords

LEMMA LineLines ==
  ASSUME NEW noise \in Letters, NEW raw \in Seq(OnALine),
         \A i \in 1 .. Len(raw) : raw[i] \in Keywords =>
           \A doc : Line(doc, Put(raw, i, noise)) = Fail("UnrecognisedLine")
  PROVE  Lines(raw \o <<Break>>, noise)
<1> DEFINE text == raw \o <<Break>>
<1>1. Break \in AnySymbol /\ Break \notin Keywords /\ noise \in OnALine /\ noise \in AnySymbol
  BY SymbolsAre
<1>2. raw \in Seq(AnySymbol) /\ Len(raw) \in Nat
  BY TextsAre, LenProperties
<1>3. <<Break>> \in Seq(AnySymbol) /\ Len(<<Break>>) = 1 /\ <<Break>>[1] = Break
  BY <1>1, OnlyOne
<1>4. Joins(AnySymbol, raw, <<Break>>)
  BY <1>2, <1>3, Joining
<1>5. text \in Seq(AnySymbol) /\ Len(text) = Len(raw) + 1 /\ text[Len(raw) + 1] = Break
      /\ \A i \in 1 .. Len(raw) : text[i] = raw[i]
  BY <1>2, <1>3, <1>4 DEF Joins
<1>6. Through(text)
  <2> SUFFICES ASSUME NEW sofar PROVE Ends(After(At(<<>>, sofar), text), Refused(sofar))
    BY DEF Through
  <2>1. After(At(<<>>, sofar), text) = At(<<>>, LineDone(sofar, raw))
    BY AfterLine
  <2>2. Refused(sofar) => LineDone(sofar, raw) = sofar
    BY DEF Refused, LineDone
  <2>3. QED
    BY <2>1, <2>2 DEF Ends
<1> HIDE DEF text
<1>7. Fragile(text, noise)
  <2> SUFFICES ASSUME NEW sofar, NEW i \in 1 .. Len(text), text[i] \in Keywords
               PROVE  Ends(After(At(<<>>, sofar), Put(text, i, noise)), TRUE)
    BY DEF Fragile
  <2>1. i \in 1 .. Len(raw)
    <3>1. i # Len(raw) + 1
      BY <1>1, <1>5
    <3>2. QED
      BY <1>2, <1>5, <3>1
  <2>2. raw[i] \in Keywords
    BY <1>5, <2>1
  <2> DEFINE put == Put(raw, i, noise)
             after == LineDone(sofar, put)
  <2>3. put \in Seq(OnALine)
    BY <1>1, <2>1, PutIs
  <2>4. Put(text, i, noise) = put \o <<Break>>
    <3>1. PutsLeft(AnySymbol, raw, <<Break>>)
      BY <1>2, <1>3, PuttingEither
    <3>2. QED
      BY <1>1, <2>1, <3>1 DEF PutsLeft, text
  <2>5. \A doc : Line(doc, put) = Fail("UnrecognisedLine")
    BY <2>1, <2>2
  <2> HIDE DEF put
  <2>6. After(At(<<>>, sofar), put \o <<Break>>) = At(<<>>, after)
    BY <2>3, AfterLine
  <2>7. Refused(after)
    BY <2>5 DEF Refused, LineDone, Fail
  <2>8. QED
    BY <2>4, <2>6, <2>7 DEF Ends
<1>8. QED
  BY <1>5, <1>6, <1>7 DEF Lines, text

(* One keyword at the beginning of the line. *)
LEMMA PutFirst ==
  ASSUME NEW noise \in Letters, NEW k \in Keywords, NEW body \in Seq(Symbols),
         NEW i \in 1 .. Len(<<k>> \o body), (<<k>> \o body)[i] \in Keywords
  PROVE  i = 1 /\ Put(<<k>> \o body, 1, noise) = <<noise>> \o body
<1>1. /\ k \in OnALine /\ noise \in OnALine /\ body \in Seq(OnALine)
      /\ Len(body) \in Nat /\ \A j \in 1 .. Len(body) : body[j] \notin Keywords
  <2>1. \A j \in 1 .. Len(body) : body[j] \in Symbols
    BY ElementOfSeq
  <2>2. QED
    BY <2>1, SymbolsAre, TextsAre, LenProperties
<1>2. /\ Len(<<k>> \o body) = Len(body) + 1
      /\ \A j \in 1 .. Len(body) : (<<k>> \o body)[j + 1] = body[j]
  BY <1>1, FrontIs
<1>3. i = 1
  <2> SUFFICES ASSUME i # 1 PROVE FALSE
    OBVIOUS
  <2> DEFINE j == i - 1
  <2>1. j \in 1 .. Len(body) /\ j + 1 = i
    BY <1>1, <1>2
  <2> HIDE DEF j
  <2>2. (<<k>> \o body)[i] = body[j]
    BY <1>2, <2>1
  <2>3. QED
    BY <1>1, <2>1, <2>2
<1>4. <<k>> \in Seq(OnALine) /\ Len(<<k>>) = 1 /\ <<k>> = <<k>>
  BY <1>1, OnlyOne
<1>5. Put(<<k>> \o body, 1, noise) = Put(<<k>>, 1, noise) \o body
  <2>1. 1 \in 1 .. Len(<<k>>)
    BY <1>4
  <2>2. PutsLeft(OnALine, <<k>>, body)
    BY <1>1, <1>4, PuttingEither
  <2>3. QED
    BY <1>1, <2>1, <2>2 DEF PutsLeft
<1>6. Put(<<k>>, 1, noise) = <<noise>>
  BY DEF Put
<1>7. QED
  BY <1>3, <1>5, <1>6

LEMMA KeywordLines ==
  ASSUME NEW noise \in Letters, NEW k \in Keywords, NEW body \in Seq(Symbols)
  PROVE  Lines((<<k>> \o body) \o <<Break>>, noise)
<1> DEFINE raw == <<k>> \o body
           bad == <<noise>> \o body
<1>1. raw \in Seq(OnALine)
  BY KeywordLine
<1>2. noise \in OnALine /\ body \in Seq(OnALine) /\ ~Blank(noise) /\ noise \notin {Package, Config}
  BY NoiseIs, TextsAre
<1>3. bad \in Seq(OnALine) /\ bad[1] = noise /\ Len(bad) = Len(body) + 1 /\ Len(body) \in Nat
  BY <1>2, FrontIs
<1>4. \A i \in 1 .. Len(raw) : raw[i] \in Keywords => Put(raw, i, noise) = bad
  <2> SUFFICES ASSUME NEW i \in 1 .. Len(raw), raw[i] \in Keywords PROVE Put(raw, i, noise) = bad
    OBVIOUS
  <2>1. i = 1 /\ Put(raw, 1, noise) = bad
    BY PutFirst
  <2>2. QED
    BY <2>1
<1> HIDE DEF raw, bad
<1>5. Trim(bad) # <<>>
  <2>1. 1 \in 1 .. Len(bad) /\ ~Blank(bad[1]) /\ \A i \in 1 .. 1 - 1 : Blank(bad[i])
    BY <1>2, <1>3
  <2>2. QED
    BY <1>3, <2>1, TrimHead
<1>6. \A doc : Line(doc, bad) = Fail("UnrecognisedLine")
  BY <1>2, <1>3, <1>5 DEF Line, Unrecognised
<1>7. Lines(raw \o <<Break>>, noise)
  BY <1>1, <1>4, <1>6, LineLines
<1>8. QED
  BY <1>7 DEF raw

(* Or after the blank that indents the line. *)
LEMMA IndentedLines ==
  ASSUME NEW noise \in Letters, NEW indent \in {Tab, " "}, NEW k \in Keywords,
         NEW body \in Seq(Symbols)
  PROVE  Lines((<<indent>> \o (<<k>> \o body)) \o <<Break>>, noise)
<1> DEFINE line == <<k>> \o body
           spoilt == <<noise>> \o body
           raw == <<indent>> \o line
           bad == <<indent>> \o spoilt
<1>1. line \in Seq(OnALine) /\ Len(line) \in Nat
  <2>1. line \in Seq(OnALine)
    BY KeywordLine
  <2> HIDE DEF line
  <2>2. QED
    BY <2>1, LenProperties
<1>2. /\ noise \in OnALine /\ body \in Seq(OnALine) /\ ~Blank(noise)
      /\ noise \notin {Option, List}
  BY NoiseIs, TextsAre
<1>3. indent \in OnALine /\ indent \notin Keywords /\ Blank(indent) /\ indent \notin {Package, Config}
  <2>1. indent \in Symbols
    BY SymbolsAre
  <2>2. QED
    BY <2>1, SymbolsAre DEF Blank, Keywords
<1>4. spoilt \in Seq(OnALine) /\ spoilt[1] = noise /\ Len(spoilt) = Len(body) + 1 /\ Len(body) \in Nat
  <2>1. Fronts(OnALine, noise, body)
    BY <1>2, Fronting
  <2>2. QED
    BY <2>1 DEF Fronts
<1>5. \A i \in 1 .. Len(line) : line[i] \in Keywords => i = 1 /\ Put(line, i, noise) = spoilt
  <2> SUFFICES ASSUME NEW i \in 1 .. Len(line), line[i] \in Keywords
               PROVE  i = 1 /\ Put(line, i, noise) = spoilt
    OBVIOUS
  <2>1. i = 1 /\ Put(line, 1, noise) = spoilt
    BY PutFirst
  <2>2. QED
    BY <2>1
<1> HIDE DEF line, spoilt
<1>6. /\ raw \in Seq(OnALine) /\ Len(raw) = Len(line) + 1 /\ raw[1] = indent
      /\ \A i \in 1 .. Len(line) : raw[i + 1] = line[i]
  <2>1. Fronts(OnALine, indent, line)
    BY <1>1, <1>3, Fronting
  <2>2. QED
    BY <2>1 DEF Fronts
<1>7. /\ bad \in Seq(OnALine) /\ Len(bad) = Len(spoilt) + 1 /\ bad[1] = indent
      /\ \A i \in 1 .. Len(spoilt) : bad[i + 1] = spoilt[i]
  <2>1. Fronts(OnALine, indent, spoilt)
    BY <1>3, <1>4, Fronting
  <2>2. QED
    BY <2>1 DEF Fronts
<1>8. \A i \in 1 .. Len(raw) : raw[i] \in Keywords => Put(raw, i, noise) = bad
  <2> SUFFICES ASSUME NEW i \in 1 .. Len(raw), raw[i] \in Keywords PROVE Put(raw, i, noise) = bad
    OBVIOUS
  <2> DEFINE j == i - 1
  <2>1. i # 1
    BY <1>3, <1>6
  <2>2. j \in 1 .. Len(line) /\ i = j + 1
    <3>1. i \in 1 .. Len(line) + 1
      BY <1>6
    <3>2. QED
      BY <1>1, <2>1, <3>1, IndexBefore
  <2>3. 1 + j = i
    <3>1. i \in 1 .. Len(line) + 1
      BY <1>6
    <3>2. QED
      BY <1>1, <2>1, <3>1, IndexBefore
  <2> HIDE DEF j
  <2>4. line[j] \in Keywords
    BY <1>6, <2>2
  <2>5. Put(line, j, noise) = spoilt
    BY <1>5, <2>2, <2>4
  <2> DEFINE before == <<indent>>
  <2>6. before \in Seq(OnALine) /\ Len(before) = 1
    BY <1>3, OnlyOne
  <2> HIDE DEF before
  <2>7. PutsRight(OnALine, before, line)
    BY <1>1, <2>6, PuttingEither
  <2>8. Len(before) + j = i
    BY <2>6, <2>3
  <2>9. Put(before \o line, i, noise) = before \o Put(line, j, noise)
    BY <1>2, <2>2, <2>7, <2>8 DEF PutsRight
  <2>10. QED
    BY <2>5, <2>9 DEF before
<1> HIDE DEF raw, bad
<1>9. Trim(bad) # <<>> /\ Trim(bad)[1] = noise
  <2>1. 2 \in 1 .. Len(bad) /\ bad[2] = noise /\ bad[1] = indent
    <3>1. 1 \in 1 .. Len(spoilt) /\ 1 + 1 = 2 /\ 2 \in 1 .. Len(spoilt) + 1
      BY <1>4, SecondIndex
    <3>2. QED
      BY <1>4, <1>7, <3>1
  <2>2. ~Blank(bad[2]) /\ \A i \in 1 .. 2 - 1 : Blank(bad[i])
    BY <1>2, <1>3, <2>1, FirstIndex
  <2>3. QED
    BY <1>7, <2>1, <2>2, TrimHead
<1>10. \A doc : Line(doc, bad) = Fail("UnrecognisedLine")
  BY <1>2, <1>3, <1>7, <1>9 DEF Line, Unrecognised
<1>11. Lines(raw \o <<Break>>, noise)
  BY <1>6, <1>8, <1>10, LineLines
<1>12. QED
  BY <1>11 DEF raw, line

(* Every line the renderer writes. *)
LEMMA EntryLines ==
  ASSUME NEW noise \in Letters, NEW indent \in {Tab, " "}, NEW e \in AnEntry
  PROVE  Lines(RenderEntry(e, indent), noise)
<1> DEFINE body == e.key \o Spaced(Quote(e.value))
<1>1. e.kind \in Keywords /\ body \in Seq(Symbols)
  BY AssignmentIs
<1>2. Assignment(e) = <<e.kind>> \o body
  BY DEF Assignment
<1> HIDE DEF body
<1>3. Lines((<<indent>> \o (<<e.kind>> \o body)) \o <<Break>>, noise)
  BY <1>1, IndentedLines
<1>4. QED
  BY <1>2, <1>3 DEF RenderEntry

LEMMA EntriesLines ==
  ASSUME NEW noise \in Letters, NEW indent \in {Tab, " "}
  PROVE  \A es \in Seq(AnEntry) : Lines(RenderEntries(es, indent), noise)
<1> DEFINE S == {es \in Seq(AnEntry) : Lines(RenderEntries(es, indent), noise)}
<1>1. <<>> \in S
  BY EntriesAre, EmptyLines, EmptySeq
<1>2. ASSUME NEW es \in Seq(AnEntry), NEW e \in AnEntry, es \in S PROVE Append(es, e) \in S
  <2>1. Lines(RenderEntries(es, indent), noise) /\ Lines(RenderEntry(e, indent), noise)
    BY <1>2, EntryLines
  <2>2. RenderEntries(Append(es, e), indent) = RenderEntries(es, indent) \o RenderEntry(e, indent)
    BY EntriesAre
  <2>3. Lines(RenderEntries(Append(es, e), indent), noise)
    BY <2>1, <2>2, ConcatLines
  <2>4. QED
    BY <2>3, AppendProperties
<1>3. QED
  <2> HIDE DEF S
  <2>1. \A es \in Seq(AnEntry) : es \in S
    BY <1>1, <1>2, AppendInduction
  <2>2. QED
    BY <2>1 DEF S

LEMMA SectionLines ==
  ASSUME NEW noise \in Letters, NEW indent \in {Tab, " "}, NEW s \in ASection
  PROVE  Lines(RenderSection(s, indent), noise)
<1> DEFINE head == (<<Config>> \o Header(s)) \o <<Break>>
           es == RenderEntries(s.entries, indent)
<1>1. Lines(head, noise)
  <2>1. Config \in Keywords /\ Header(s) \in Seq(Symbols)
    BY HeaderIs DEF Keywords
  <2>2. QED
    BY <2>1, KeywordLines
<1>2. Lines(es, noise)
  BY PartsAre, EntriesLines
<1>3. Lines(<<Break>>, noise)
  BY EmptyLines
<1>4. RenderSection(s, indent) = (head \o es) \o <<Break>>
  BY DEF RenderSection
<1> HIDE DEF head, es
<1>5. Lines(head \o es, noise)
  BY <1>1, <1>2, ConcatLines
<1> DEFINE body == head \o es
<1>6. Lines(body \o <<Break>>, noise)
  <2>1. Lines(body, noise)
    BY <1>5
  <2> HIDE DEF body
  <2>2. QED
    BY <1>3, <2>1, ConcatLines
<1>7. QED
  BY <1>4, <1>6

LEMMA SectionsLines ==
  ASSUME NEW noise \in Letters, NEW indent \in {Tab, " "}
  PROVE  \A ss \in Seq(ASection) : Lines(RenderSections(ss, indent), noise)
<1> DEFINE S == {ss \in Seq(ASection) : Lines(RenderSections(ss, indent), noise)}
<1>1. <<>> \in S
  BY SectionsAre, EmptyLines, EmptySeq
<1>2. ASSUME NEW ss \in Seq(ASection), NEW s \in ASection, ss \in S PROVE Append(ss, s) \in S
  <2>1. Lines(RenderSections(ss, indent), noise) /\ Lines(RenderSection(s, indent), noise)
    BY <1>2, SectionLines
  <2>2. RenderSections(Append(ss, s), indent) = RenderSections(ss, indent) \o RenderSection(s, indent)
    BY SectionsAre
  <2>3. Lines(RenderSections(Append(ss, s), indent), noise)
    BY <2>1, <2>2, ConcatLines
  <2>4. QED
    BY <2>3, AppendProperties
<1>3. QED
  <2> HIDE DEF S
  <2>1. \A ss \in Seq(ASection) : ss \in S
    BY <1>1, <1>2, AppendInduction
  <2>2. QED
    BY <2>1 DEF S

LEMMA PackageLines ==
  ASSUME NEW noise \in Letters, NEW indent \in {Tab, " "}, NEW p \in APackage
  PROVE  Lines(RenderPackage(p, indent), noise)
<1> DEFINE line == (<<Package>> \o p.name) \o <<Break>>
           head == line \o <<Break>>
           ss == RenderSections(p.sections, indent)
<1>1. Lines(line, noise)
  <2>1. Package \in Keywords /\ p.name \in Word
    BY PartsAre DEF Keywords
  <2>2. p.name \in Seq(Symbols)
    BY <2>1, WordIs
  <2>3. QED
    BY <2>1, <2>2, KeywordLines
<1>2. Lines(ss, noise)
  BY PartsAre, SectionsLines
<1>3. RenderPackage(p, indent) = head \o ss
  BY DEF RenderPackage
<1> HIDE DEF line, ss
<1>4. Lines(head, noise)
  BY <1>1, EmptyLines, ConcatLines
<1> HIDE DEF head
<1>5. Lines(head \o ss, noise)
  BY <1>2, <1>4, ConcatLines
<1>6. QED
  BY <1>3, <1>5

LEMMA DocumentLines ==
  ASSUME NEW noise \in Letters, NEW indent \in {Tab, " "}
  PROVE  \A d \in Seq(APackage) : Lines(Laid(d, indent), noise)
<1> DEFINE S == {d \in Seq(APackage) : Lines(Laid(d, indent), noise)}
<1>1. <<>> \in S
  BY PackagesAre, EmptyLines, EmptySeq
<1>2. ASSUME NEW d \in Seq(APackage), NEW p \in APackage, d \in S PROVE Append(d, p) \in S
  <2>1. Lines(Laid(d, indent), noise) /\ Lines(RenderPackage(p, indent), noise)
    BY <1>2, PackageLines
  <2>2. Laid(Append(d, p), indent) = Laid(d, indent) \o RenderPackage(p, indent)
    BY PackagesAre
  <2>3. Lines(Laid(Append(d, p), indent), noise)
    BY <2>1, <2>2, ConcatLines
  <2>4. QED
    BY <2>3, AppendProperties
<1>3. QED
  <2> HIDE DEF S
  <2>1. \A d \in Seq(APackage) : d \in S
    BY <1>1, <1>2, AppendInduction
  <2>2. QED
    BY <2>1 DEF S

(* A text with anything but blanks in it is not trimmed to nothing. *)
LEMMA SolidTrim ==
  ASSUME NEW T, NEW text \in Seq(T), NEW i \in 1 .. Len(text), ~Blank(text[i])
  PROVE  Trim(text) # <<>>
<1> DEFINE m == Min(Solid(text))
<1>1. Solid(text) \in SUBSET Nat /\ i \in Solid(text) /\ Len(text) \in Nat
      /\ \A j \in Solid(text) : j \in 1 .. Len(text)
  BY DEF Solid
<1>2. m \in Solid(text) /\ \A j \in Solid(text) : m <= j
  BY <1>1, MinIs
<1> HIDE DEF m
<1>3. m \in 1 .. Len(text) /\ ~Blank(text[m])
  BY <1>1, <1>2 DEF Solid
<1>4. \A j \in 1 .. m - 1 : Blank(text[j])
  <2> SUFFICES ASSUME NEW j \in 1 .. m - 1, ~Blank(text[j]) PROVE FALSE
    OBVIOUS
  <2>1. j \in 1 .. Len(text) /\ ~(m <= j)
    BY <1>1, <1>3
  <2>2. j \in Solid(text)
    BY <2>1 DEF Solid
  <2>3. QED
    BY <1>2, <2>1, <2>2
<1>5. QED
  BY <1>3, <1>4, TrimHead

(* With a letter in the place of a keyword the text is refused, wherever   *)
(* that was: it is never read as another document, nor taken for nothing   *)
(* (parse.rs, document: a line that matches no rule is an error).          *)
THEOREM DamageIsRefused ==
  ASSUME NEW doc \in Seq(APackage), NEW indent \in {Tab, " "}, NEW noise \in Letters,
         NEW i \in DOMAIN Laid(doc, indent), Laid(doc, indent)[i] \in Keywords
  PROVE  LET text == [Laid(doc, indent) EXCEPT ![i] = noise]
         IN  Parse(text).error # "none" /\ Trim(text) # <<>>
<1> DEFINE whole == Laid(doc, indent)
           text == Put(whole, i, noise)
           start == At(<<>>, Read(<<>>))
<1>1. whole \in Seq(AnySymbol) /\ Fragile(whole, noise)
  BY DocumentLines DEF Lines
<1>2. i \in 1 .. Len(whole) /\ noise \in AnySymbol /\ ~Blank(noise)
  <2>1. noise \in AnySymbol
    BY SymbolsAre
  <2>2. i \in DOMAIN whole
    OBVIOUS
  <2> HIDE DEF whole
  <2>3. QED
    BY <1>1, <2>1, <2>2, NoiseIs, LenProperties
<1>3. whole[i] \in Keywords
  OBVIOUS
<1>4. text = [Laid(doc, indent) EXCEPT ![i] = noise]
  BY DEF Put
<1> HIDE DEF whole
<1>5. text \in Seq(AnySymbol) /\ Len(text) = Len(whole) /\ text[i] = noise
  <2>1. Puts(AnySymbol, whole)
    BY <1>1, Putting
  <2>2. QED
    BY <1>2, <2>1 DEF Puts
<1>6. Ends(After(start, text), TRUE)
  BY <1>1, <1>2, <1>3 DEF Fragile
<1> HIDE DEF text
<1>7. PICK sofar : After(start, text) = At(<<>>, sofar) /\ Refused(sofar)
  BY <1>6 DEF Ends
<1>8. Parse(text) = LineDone(After(start, text).sofar, After(start, text).line)
  BY DEF Parse, At
<1> HIDE DEF start
<1>9. Parse(text) = LineDone(sofar, <<>>)
  <2>1. At(<<>>, sofar).sofar = sofar /\ At(<<>>, sofar).line = <<>>
    BY DEF At
  <2>2. QED
    BY <1>7, <1>8, <2>1
<1>10. Parse(text).error # "none"
  BY <1>7, <1>9 DEF LineDone, Refused
<1>11. Trim(text) # <<>>
  BY <1>2, <1>5, SolidTrim
<1>12. QED
  BY <1>4, <1>10, <1>11

(* The text of a document that is not empty is not blank. *)
LEMMA LaidNotBlank ==
  ASSUME NEW doc \in Seq(APackage), doc # <<>>, NEW indent \in {Tab, " "}
  PROVE  Trim(Laid(doc, indent)) # <<>>
<1>1. PICK d \in Seq(APackage) : \E p \in APackage : doc = Append(d, p)
  BY SequenceEmptyOrAppend
<1>2. PICK p \in APackage : doc = Append(d, p)
  BY <1>1
<1> DEFINE s == Laid(d, indent)
           t == RenderPackage(p, indent)
           whole == Laid(doc, indent)
<1>3. whole = s \o t
  BY <1>2, PackagesAre
<1>4. s \in Seq(AnySymbol) /\ t \in Seq(AnySymbol)
  BY PackagesAre, RenderPackageIs
<1>5. t # <<>> /\ t[1] = Package
  <2> DEFINE n == p.name
             ss == RenderSections(p.sections, indent)
             br == <<Break>>
             a == <<Package>> \o n
             b == a \o br
             c == b \o br
  <2>1. n \in Seq(AnySymbol) /\ Break \in AnySymbol /\ Package \in AnySymbol
    <3>1. n \in Word /\ Package \in Keywords
      BY PartsAre DEF Keywords
    <3> HIDE DEF n
    <3>2. n \in Seq(AnySymbol)
      BY <3>1, WordIs, TextsAre
    <3>3. QED
      BY <3>1, <3>2, SymbolsAre
  <2>2. ss \in Seq(AnySymbol) /\ br \in Seq(AnySymbol)
    BY <2>1, RenderPackageIs, OnlyOne
  <2> HIDE DEF n, ss, br
  <2>3. a \in Seq(AnySymbol) /\ a # <<>> /\ a[1] = Package
    BY <2>1, FrontIs
  <2> HIDE DEF a
  <2>4. b \in Seq(AnySymbol) /\ b # <<>> /\ b[1] = Package
    <3>1. Starts(AnySymbol, a, br)
      BY <2>2, <2>3, Starting
    <3>2. QED
      BY <2>3, <3>1 DEF Starts
  <2> HIDE DEF b
  <2>5. c \in Seq(AnySymbol) /\ c # <<>> /\ c[1] = Package
    <3>1. Starts(AnySymbol, b, br)
      BY <2>2, <2>4, Starting
    <3>2. QED
      BY <2>4, <3>1 DEF Starts
  <2> HIDE DEF c
  <2>6. t = c \o ss
    BY DEF RenderPackage, a, b, c, n, ss, br
  <2> HIDE DEF t
  <2>7. Starts(AnySymbol, c, ss)
    BY <2>2, <2>5, Starting
  <2>8. QED
    BY <2>5, <2>6, <2>7 DEF Starts
<1>6. ~Blank(Package)
  BY DEF Blank, Package, Tab
<1> DEFINE i == Len(s) + 1
<1> HIDE DEF s, t, whole, i
<1>7. Joins(AnySymbol, s, t)
  BY <1>4, Joining
<1>8. Len(s) \in Nat /\ Len(t) \in Nat \ {0}
  BY <1>4, <1>5, LenProperties, EmptySeq
<1>9. whole \in Seq(AnySymbol) /\ i \in 1 .. Len(whole) /\ whole[i] = t[1]
  <2>1. i \in 1 .. Len(s) + Len(t) /\ ~(i <= Len(s)) /\ i - Len(s) = 1
    BY <1>8, IndexAfter DEF i
  <2>2. QED
    BY <1>3, <1>7, <2>1 DEF Joins
<1>10. Trim(whole) # <<>>
  BY <1>5, <1>6, <1>9, SolidTrim
<1>11. QED
  BY <1>10 DEF whole

=============================================================================
