------------------------- MODULE SectionRenames_proofs -------------------------
(***************************************************************************)
(* Proofs about SectionNames and SectionRenames: what propose promises of  *)
(* the names it gives, for every router, and what batches of renames come  *)
(* to, whatever its sections are and are called, for any number of         *)
(* batches, faults, restarts and foreign edits.                            *)
(*                                                                         *)
(* The names are given one section after another, each avoiding those      *)
(* given before, so the facts about them are proved by induction over the  *)
(* file; the induction is over a SET of naturals, which takes no operator  *)
(* as a parameter.                                                         *)
(***************************************************************************)
EXTENDS SectionRenames, TLAPS, FiniteSetTheorems, SequenceTheorems,
        WellFoundedInduction

Labels == [Sections -> Name \cup {Anonymous, Absent}]

-----------------------------------------------------------------------------
(***************************************************************************)
(* Naturals.                                                               *)
(***************************************************************************)

(* A set of naturals has a smallest element, if it has any: Min.           *)
LEMMA MinIs ==
  ASSUME NEW T \in SUBSET Nat, T # {}
  PROVE  Min(T) \in T /\ \A y \in T : Min(T) <= y
<1> DEFINE R == OpToRel(<, Nat)
<1>1. IsWellFoundedOn(R, Nat)
  BY NatLessThanWellFounded, Zenon
<1>2. PICK x \in T : \A y \in T : ~ (<<y, x>> \in R)
  <2> HIDE DEF R
  <2> QED
    BY <1>1, WFMin
<1>3. \A y \in T : ~ (y < x)
  BY <1>2 DEF OpToRel
<1>4. \E z \in T : \A y \in T : z <= y
  BY <1>3
<1>5. QED
  BY <1>4 DEF Min

(* Induction, over the set of the naturals of which something holds.       *)
LEMMA Induction ==
  ASSUME NEW S \in SUBSET Nat, 0 \in S, \A n \in Nat : n \in S => n + 1 \in S
  PROVE  \A n \in Nat : n \in S
<1> SUFFICES ASSUME Nat \ S # {} PROVE FALSE
  OBVIOUS
<1> DEFINE m == Min(Nat \ S)
<1>1. m \in Nat \ S /\ \A y \in Nat \ S : m <= y
  BY MinIs
<1> HIDE DEF m
<1>2. m # 0 /\ m - 1 \in Nat /\ m - 1 \notin Nat \ S
  BY <1>1
<1>3. (m - 1) + 1 \in S
  BY <1>2
<1>4. (m - 1) + 1 = m
  BY <1>1
<1>5. QED
  BY <1>1, <1>3, <1>4

-----------------------------------------------------------------------------
(***************************************************************************)
(* Places.                                                                 *)
(***************************************************************************)

(* A section stands at its place, and nowhere else.                        *)
LEMMA PlaceIs ==
  ASSUME NEW s \in Sections
  PROVE  /\ PackageOf[s] \in Packages
         /\ Place(s) \in 1 .. Len(File[PackageOf[s]])
         /\ File[PackageOf[s]][Place(s)] = s
<1>1. PackageOf[s] \in Packages
  BY DEF Packages
<1>2. s \in {File[PackageOf[s]][i] : i \in DOMAIN File[PackageOf[s]]}
  BY <1>1, FilesHoldSections
<1>3. PICK i \in DOMAIN File[PackageOf[s]] : File[PackageOf[s]][i] = s
  BY <1>2
<1>4. Place(s) \in DOMAIN File[PackageOf[s]] /\ File[PackageOf[s]][Place(s)] = s
  BY <1>3 DEF Place
<1>5. DOMAIN File[PackageOf[s]] = 1 .. Len(File[PackageOf[s]])
  BY <1>1, FilesHoldSections
<1>6. QED
  BY <1>1, <1>4, <1>5

(* What stands at a place of a file is a section of that package.          *)
LEMMA FileIs ==
  ASSUME NEW p \in Packages
  PROVE  /\ Len(File[p]) \in Nat
         /\ \A i \in 1 .. Len(File[p]) :
              /\ File[p][i] \in Sections /\ PackageOf[File[p][i]] = p
              /\ Place(File[p][i]) = i
<1>1. File[p] \in Seq(Sections) /\ Len(File[p]) \in Nat
  BY FilesHoldSections
<1>2. DOMAIN File[p] = 1 .. Len(File[p])
  BY <1>1
<1>3. ASSUME NEW i \in 1 .. Len(File[p])
      PROVE  /\ File[p][i] \in Sections /\ PackageOf[File[p][i]] = p
             /\ Place(File[p][i]) = i
  <2>1. File[p][i] \in {File[p][j] : j \in DOMAIN File[p]}
    BY <1>2
  <2>2. File[p][i] \in Sections /\ PackageOf[File[p][i]] = p
    BY <2>1, FilesHoldSections
  <2>3. Place(File[p][i]) \in DOMAIN File[p] /\ File[p][Place(File[p][i])] = File[p][i]
    BY <2>2, <1>2, PlaceIs
  <2>4. QED
    BY <1>2, <2>2, <2>3, FilesHoldSections
<1>4. QED
  BY <1>1, <1>3

(* The sections before another one are finitely many.                      *)
LEMMA EarlierIs ==
  ASSUME NEW s, NEW label
  PROVE  /\ IsFiniteSet(Earlier(s, label))
         /\ Index(s, label) \in 0 .. Cardinality(Sections)
         /\ Cardinality(Sections) \in Nat
<1>1. IsFiniteSet(Sections)
  BY SectionsAssumption
<1>2. Earlier(s, label) \in SUBSET Sections
  BY DEF Earlier, Present
<1>3. {q \in Earlier(s, label) : TypeOf[q] = TypeOf[s]} \in SUBSET Sections
  BY <1>2
<1>4. IsFiniteSet(Earlier(s, label))
  BY <1>1, <1>2, FS_Subset
<1> DEFINE T == {q \in Earlier(s, label) : TypeOf[q] = TypeOf[s]}
<1>5. IsFiniteSet(T) /\ Cardinality(T) <= Cardinality(Sections)
  <2> HIDE DEF T
  <2>1. T \in SUBSET Sections
    BY <1>3 DEF T
  <2>2. QED
    BY <1>1, <2>1, FS_Subset
<1>6. Cardinality(T) \in Nat /\ Cardinality(Sections) \in Nat
  BY <1>1, <1>5, FS_CardinalityType
<1>7. QED
  BY <1>4, <1>5, <1>6 DEF Index

(* No two sections of a package have as many sections before them.         *)
LEMMA PositionsDiffer ==
  ASSUME NEW label, NEW s \in Present(label), NEW q \in Present(label),
         PackageOf[q] = PackageOf[s],
         Cardinality(Earlier(q, label)) = Cardinality(Earlier(s, label))
  PROVE  q = s
<1>0. s \in Sections /\ q \in Sections
  BY DEF Present
<1>1. Place(s) \in Nat /\ Place(q) \in Nat
  BY <1>0, PlaceIs
<1>2. ASSUME NEW a \in Present(label), NEW b \in Present(label),
             PackageOf[a] = PackageOf[b], Place(a) \in Nat, Place(b) \in Nat, Place(a) < Place(b)
      PROVE  Cardinality(Earlier(a, label)) # Cardinality(Earlier(b, label))
  <2>1. Earlier(a, label) \in SUBSET Earlier(b, label)
    <3>1. \A c \in Present(label) : Place(c) \in Nat
      BY PlaceIs DEF Present
    <3>2. QED
      BY <1>2, <3>1 DEF Earlier
  <2>2. a \in Earlier(b, label) /\ a \notin Earlier(a, label)
    BY <1>2 DEF Earlier
  <2>3. IsFiniteSet(Earlier(b, label))
    BY EarlierIs
  <2>4. Cardinality(Earlier(b, label)) = Cardinality(Earlier(a, label))
          => Earlier(b, label) = Earlier(a, label)
    BY <2>1, <2>3, FS_Subset
  <2>5. QED
    BY <2>2, <2>4
<1>3. ~ (Place(s) < Place(q)) /\ ~ (Place(q) < Place(s))
  BY <1>1, <1>2
<1>4. Place(s) = Place(q)
  BY <1>1, <1>3
<1>5. QED
  BY <1>0, <1>4, PlaceIs

-----------------------------------------------------------------------------
(***************************************************************************)
(* One name.                                                               *)
(***************************************************************************)

(* A name that no option and no position makes is not a name.              *)
LEMMA BaseIs ==
  ASSUME NEW s \in Sections, NEW label
  PROVE  Base(s, label) \in Name
<1>1. TypeOf[s] \in Seq(STRING) /\ Slugs[s] \in Seq(Seq(STRING))
  BY SectionsAssumption DEF Name
<1>2. Numeral[Index(s, label)] \in STRING
  BY EarlierIs, NumeralsDiffer
<1>3. TypeOf[s] \o <<Numeral[Index(s, label)]>> \in Seq(STRING)
  BY <1>1, <1>2
<1>4. Slugs[s] # <<>> => Slugs[s][1] \in Seq(STRING)
  BY <1>1
<1>5. Slugs[s] # <<>> => TypeOf[s] \o Slugs[s][1] \in Seq(STRING)
  BY <1>1, <1>4
<1>6. QED
  BY <1>3, <1>5 DEF Base, Name

(* The options that tell are numbered, and make names.                     *)
LEMMA TellingIs ==
  ASSUME NEW s \in Sections, NEW base \in Name, NEW taken
  PROVE  /\ Telling(s, base, taken) \in SUBSET Nat
         /\ \A i \in Telling(s, base, taken) :
              base \o Slugs[s][i] \in Name \ taken
<1>1. Slugs[s] \in Seq(Seq(STRING)) /\ base \in Seq(STRING)
  BY SectionsAssumption DEF Name
<1>2. \A i \in DOMAIN Slugs[s] : i \in Nat /\ Slugs[s][i] \in Seq(STRING)
  BY <1>1
<1>3. \A i \in DOMAIN Slugs[s] : base \o Slugs[s][i] \in Seq(STRING)
  BY <1>1, <1>2
<1>4. QED
  BY <1>2, <1>3 DEF Telling, Name

(* The names that may be taken: so many that the numerals do not run out.  *)
Bounded(taken) == IsFiniteSet(taken) /\ Cardinality(taken) <= Cardinality(Sections)

FreeNumbers(base, taken) ==
  {n \in 2 .. Cardinality(taken) + 2 : base \o <<Numeral[n]>> \notin taken}

(* Different numbers make different names.                                 *)
LEMMA NumberedDiffer ==
  ASSUME NEW base \in Name, NEW m \in 0 .. Cardinality(Sections) + 2,
         NEW n \in 0 .. Cardinality(Sections) + 2,
         base \o <<Numeral[m]>> = base \o <<Numeral[n]>>
  PROVE  m = n
<1>1. base \in Seq(STRING) /\ Numeral[m] \in STRING /\ Numeral[n] \in STRING
  BY NumeralsDiffer DEF Name
<1>2. Len(base) \in Nat
  BY <1>1
<1>3. (base \o <<Numeral[m]>>)[Len(base) + 1] = Numeral[m]
  BY <1>1, <1>2
<1>4. (base \o <<Numeral[n]>>)[Len(base) + 1] = Numeral[n]
  BY <1>1, <1>2
<1>5. QED
  BY <1>3, <1>4, NumeralsDiffer

(* Among one more numbers than names are taken, one makes a free name.     *)
LEMMA NumberIsFree ==
  ASSUME NEW base \in Name, NEW taken, Bounded(taken)
  PROVE  /\ Cardinality(taken) \in Nat /\ Cardinality(Sections) \in Nat
         /\ FreeNumbers(base, taken) # {}
<1> DEFINE c == Cardinality(taken)
           N == 2 .. c + 2
           f == [n \in N |-> base \o <<Numeral[n]>>]
<1>1. c \in Nat /\ Cardinality(Sections) \in Nat /\ c <= Cardinality(Sections)
  BY FS_CardinalityType, SectionsAssumption DEF Bounded
<1>2. IsFiniteSet(N) /\ Cardinality(N) = c + 1
  <2>1. c + 2 \in Int /\ 2 \in Int /\ ~ (2 > c + 2) /\ (c + 2) - 2 + 1 = c + 1
    BY <1>1
  <2> HIDE DEF c
  <2>2. QED
    BY <2>1, FS_Interval
<1>3. \A n \in N : n \in 0 .. Cardinality(Sections) + 2
  BY <1>1
<1>4. SUFFICES ASSUME FreeNumbers(base, taken) = {} PROVE FALSE
  BY <1>1
<1>5. f \in [N -> taken]
  BY <1>4 DEF FreeNumbers
<1>6. IsFiniteSet(taken) /\ c < c + 1
  BY <1>1 DEF Bounded
<1>7. \E m, n \in N : m # n /\ f[m] = f[n]
  <2> HIDE DEF N, f
  <2>1. Cardinality(taken) < Cardinality(N)
    BY <1>2, <1>6
  <2>2. QED
    BY <1>2, <1>5, <1>6, <2>1, FS_PigeonHole
<1>8. PICK m \in N, n \in N : m # n /\ base \o <<Numeral[m]>> = base \o <<Numeral[n]>>
  BY <1>7
<1>9. QED
  BY <1>3, <1>8, NumberedDiffer

(* The number of a name is the least one that makes a free name.           *)
LEMMA NumberedIs ==
  ASSUME NEW base \in Name, NEW taken, Bounded(taken)
  PROVE  /\ Numbered(base, taken) \in Name \ taken
         /\ Min(FreeNumbers(base, taken)) \in FreeNumbers(base, taken)
         /\ \A n \in FreeNumbers(base, taken) : Min(FreeNumbers(base, taken)) <= n
         /\ Numbered(base, taken) = base \o <<Numeral[Min(FreeNumbers(base, taken))]>>
<1> DEFINE F == FreeNumbers(base, taken)
<1>1. F # {} /\ Cardinality(taken) \in Nat /\ Cardinality(Sections) \in Nat
  BY NumberIsFree
<1>2. F \in SUBSET Nat
  BY <1>1 DEF FreeNumbers
<1>3. Min(F) \in F /\ \A n \in F : Min(F) <= n
  <2> HIDE DEF F
  <2> QED
    BY <1>1, <1>2, MinIs
<1>4. Numbered(base, taken) = base \o <<Numeral[Min(F)]>>
  BY DEF Numbered, FreeNumbers
<1>5. Min(F) \in 0 .. Cardinality(Sections) + 2
  BY <1>1, <1>3 DEF FreeNumbers, Bounded
<1>6. base \in Seq(STRING) /\ Numeral[Min(F)] \in STRING
  BY <1>5, NumeralsDiffer DEF Name
<1>7. base \o <<Numeral[Min(F)]>> \in Name
  BY <1>6 DEF Name
<1>8. base \o <<Numeral[Min(F)]>> \notin taken
  BY <1>3 DEF FreeNumbers
<1>9. QED
  BY <1>3, <1>4, <1>7, <1>8

(* A proposed name is a name, and free.                                    *)
LEMMA NameForIs ==
  ASSUME NEW s \in Sections, NEW label, NEW taken, Bounded(taken)
  PROVE  NameFor(s, label, taken) \in Name \ taken
<1> DEFINE base == Base(s, label)
<1>1. base \in Name
  BY BaseIs
<1>2. CASE base \notin taken
  BY <1>1, <1>2 DEF NameFor
<1>3. CASE base \in taken /\ Telling(s, base, taken) # {}
  <2> HIDE DEF base
  <2>1. Min(Telling(s, base, taken)) \in Telling(s, base, taken)
    BY <1>1, <1>3, TellingIs, MinIs
  <2>2. base \o Slugs[s][Min(Telling(s, base, taken))] \in Name \ taken
    BY <1>1, <2>1, TellingIs
  <2>3. QED
    BY <1>3, <2>2 DEF NameFor, base
<1>4. CASE base \in taken /\ Telling(s, base, taken) = {}
  BY <1>1, <1>4, NumberedIs DEF NameFor
<1>5. QED
  BY <1>2, <1>3, <1>4

(* Names that others take make no difference to a section whose own name   *)
(* is not among them: the preferences are consulted in a fixed order.      *)
LEMMA NameForKeeps ==
  ASSUME NEW s \in Sections, NEW label, NEW taken, NEW more,
         Bounded(taken), Bounded(more), taken \subseteq more,
         NameFor(s, label, taken) \notin more
  PROVE  NameFor(s, label, more) = NameFor(s, label, taken)
<1> DEFINE base == Base(s, label)
           T(x) == Telling(s, base, x)
<1>1. base \in Name
  BY BaseIs
<1>2. CASE base \notin taken
  BY <1>2 DEF NameFor
<1>3. CASE base \in taken /\ T(taken) # {}
  <2>1. NameFor(s, label, taken) = base \o Slugs[s][Min(T(taken))]
    BY <1>3 DEF NameFor
  <2>2. T(more) \in SUBSET T(taken)
    BY DEF Telling
  <2>3. T(taken) \in SUBSET Nat
    BY <1>1, TellingIs
  <2>4. Min(T(taken)) \in T(taken) /\ \A i \in T(taken) : Min(T(taken)) <= i
    <3> HIDE DEF T
    <3> QED
      BY <1>3, <2>3, MinIs
  <2>5. Min(T(taken)) \in T(more)
    BY <2>1, <2>4 DEF Telling
  <2>6. Min(T(more)) \in T(more) /\ \A i \in T(more) : Min(T(more)) <= i
    <3> HIDE DEF T
    <3>1. T(more) \in SUBSET Nat
      BY <2>2, <2>3
    <3> QED
      BY <2>5, <3>1, MinIs
  <2>7. Min(T(more)) = Min(T(taken))
    <3> HIDE DEF T
    <3>1. \A a, b \in Nat : a <= b /\ b <= a => a = b
      OBVIOUS
    <3>2. Min(T(more)) \in Nat /\ Min(T(taken)) \in Nat
      BY <2>2, <2>3, <2>4, <2>6
    <3>3. Min(T(more)) <= Min(T(taken)) /\ Min(T(taken)) <= Min(T(more))
      BY <2>2, <2>4, <2>5, <2>6
    <3>4. QED
      BY <3>1, <3>2, <3>3
  <2>8. base \in more /\ T(more) # {}
    BY <1>3, <2>5
  <2>9. NameFor(s, label, more) = base \o Slugs[s][Min(T(more))]
    BY <2>8 DEF NameFor
  <2>10. QED
    BY <2>1, <2>7, <2>9
<1>4. CASE base \in taken /\ T(taken) = {}
  <2>1. T(more) = {} /\ base \in more
    BY <1>4 DEF Telling
  <2>2. NameFor(s, label, taken) = Numbered(base, taken)
    BY <1>4 DEF NameFor
  <2>3. NameFor(s, label, more) = Numbered(base, more)
    BY <2>1 DEF NameFor
  <2> DEFINE F(x) == FreeNumbers(base, x)
  <2>4. /\ Min(F(taken)) \in F(taken) /\ \A n \in F(taken) : Min(F(taken)) <= n
        /\ Numbered(base, taken) = base \o <<Numeral[Min(F(taken))]>>
        /\ Min(F(more)) \in F(more) /\ \A n \in F(more) : Min(F(more)) <= n
        /\ Numbered(base, more) = base \o <<Numeral[Min(F(more))]>>
    <3> HIDE DEF base
    <3> QED
      BY <1>1, NumberedIs
  <2>5. /\ Cardinality(taken) \in Nat /\ Cardinality(more) \in Nat
        /\ Cardinality(taken) <= Cardinality(more)
    BY FS_CardinalityType, FS_Subset DEF Bounded
  <2>6. Min(F(taken)) \in F(more)
    BY <2>2, <2>4, <2>5 DEF FreeNumbers
  <2>7. Min(F(more)) <= Min(F(taken)) /\ Min(F(more)) \in F(taken)
    <3>1. Min(F(more)) <= Min(F(taken))
      BY <2>4, <2>6
    <3>2. QED
      BY <2>4, <2>5, <3>1 DEF FreeNumbers
  <2>8. Min(F(more)) = Min(F(taken))
    <3>1. Min(F(more)) \in Nat /\ Min(F(taken)) \in Nat
      BY <2>4, <2>5 DEF FreeNumbers
    <3>2. Min(F(taken)) <= Min(F(more))
      BY <2>4, <2>7
    <3>3. \A a, b \in Nat : a <= b /\ b <= a => a = b
      OBVIOUS
    <3>4. QED
      BY <2>7, <3>1, <3>2, <3>3
  <2>9. QED
    BY <2>2, <2>3, <2>4, <2>8
<1>5. QED
  BY <1>2, <1>3, <1>4

(* The sections there are decide about a name, not what they are called.   *)
LEMMA NameForPresent ==
  ASSUME NEW s, NEW label, NEW other, NEW taken,
         Present(other) = Present(label)
  PROVE  NameFor(s, other, taken) = NameFor(s, label, taken)
<1>1. Index(s, other) = Index(s, label)
  BY DEF Index, Earlier
<1>2. Base(s, other) = Base(s, label)
  BY <1>1 DEF Base
<1>3. QED
  BY <1>2 DEF NameFor

-----------------------------------------------------------------------------
(***************************************************************************)
(* The names of a file.                                                    *)
(***************************************************************************)

(* What is taken from the beginning, and after one more section.           *)
Named(p, label) ==
  {label[s] : s \in {q \in Present(label) : PackageOf[q] = p}} \ {Anonymous}

TakenAfter(p, label, i, before) ==
  IF label[File[p][i]] = Anonymous
  THEN before \cup {NameFor(File[p][i], label, before)} ELSE before

IsTaken(p, label, m, f) ==
  f = [i \in 0 .. m |->
         IF i = 0 THEN Named(p, label) ELSE TakenAfter(p, label, i, f[i - 1])]

(* There is a function that does what the recursion says, for a file of    *)
(* any length: Taken is one.                                               *)
LEMMA TakenExists ==
  ASSUME NEW p, NEW label
  PROVE  \A m \in Nat : \E f : IsTaken(p, label, m, f)
<1> DEFINE S == {m \in Nat : \E f : IsTaken(p, label, m, f)}
<1>1. 0 \in S
  <2>1. IsTaken(p, label, 0, [i \in 0 .. 0 |-> Named(p, label)])
    BY DEF IsTaken
  <2>2. QED
    BY <2>1
<1>2. ASSUME NEW m \in Nat, m \in S PROVE m + 1 \in S
  <2>1. PICK f : IsTaken(p, label, m, f)
    BY <1>2
  <2> DEFINE g == [i \in 0 .. m + 1 |->
                     IF i = m + 1 THEN TakenAfter(p, label, m + 1, f[m]) ELSE f[i]]
  <2>2. ASSUME NEW i \in 0 .. m + 1
        PROVE  g[i] = IF i = 0 THEN Named(p, label) ELSE TakenAfter(p, label, i, g[i - 1])
    <3>1. CASE i = m + 1
      <4>1. g[i] = TakenAfter(p, label, m + 1, f[m])
        BY <3>1
      <4>2. g[m] = f[m] /\ i # 0 /\ i - 1 = m
        BY <3>1
      <4>3. QED
        BY <3>1, <4>1, <4>2
    <3>2. CASE i # m + 1
      <4>1. g[i] = f[i] /\ i \in 0 .. m
        BY <3>2
      <4>2. f[i] = IF i = 0 THEN Named(p, label) ELSE TakenAfter(p, label, i, f[i - 1])
        BY <2>1, <4>1 DEF IsTaken
      <4>3. i # 0 => g[i - 1] = f[i - 1]
        BY <4>1
      <4>4. QED
        BY <4>1, <4>2, <4>3
    <3>3. QED
      BY <3>1, <3>2
  <2>3. g = [i \in 0 .. m + 1 |->
               IF i = 0 THEN Named(p, label) ELSE TakenAfter(p, label, i, g[i - 1])]
    <3>1. DOMAIN g = 0 .. m + 1 /\ g = [i \in 0 .. m + 1 |-> g[i]]
      OBVIOUS
    <3> HIDE DEF g
    <3>2. QED
      BY <2>2, <3>1
  <2>4. IsTaken(p, label, m + 1, g)
    BY <2>3 DEF IsTaken
  <2>5. QED
    BY <2>4
<1>3. QED
  <2> HIDE DEF S
  <2>1. S \in SUBSET Nat
    BY DEF S
  <2>2. \A m \in Nat : m \in S
    BY <1>1, <1>2, <2>1, Induction
  <2>3. QED
    BY <2>2 DEF S

LEMMA TakenIs ==
  ASSUME NEW p \in Packages, NEW label
  PROVE  /\ Taken(p, label)[0] = Named(p, label)
         /\ \A i \in 1 .. Len(File[p]) :
              Taken(p, label)[i] = TakenAfter(p, label, i, Taken(p, label)[i - 1])
<1>1. Len(File[p]) \in Nat
  BY FileIs
<1>2. \E f : IsTaken(p, label, Len(File[p]), f)
  BY <1>1, TakenExists
<1>3. IsTaken(p, label, Len(File[p]), Taken(p, label))
  BY <1>2 DEF IsTaken, Taken, Named, TakenAfter
<1>4. QED
  BY <1>1, <1>3 DEF IsTaken

(* What each section is called once every proposal is carried out.         *)
Called(label) ==
  [s \in Sections |-> IF label[s] = Anonymous THEN Propose(s, label) ELSE label[s]]

(* Each name that is taken is taken by a section.                          *)
LEMMA TakenBySections ==
  ASSUME NEW p \in Packages, NEW label
  PROVE  \A i \in 0 .. Len(File[p]) :
           Taken(p, label)[i] \subseteq {Called(label)[s] : s \in Sections}
<1> DEFINE S == {i \in Nat : i <= Len(File[p]) =>
                   Taken(p, label)[i] \subseteq {Called(label)[s] : s \in Sections}}
<1>0. Len(File[p]) \in Nat
  BY FileIs
<1>1. 0 \in S
  <2>1. \A s \in Sections : label[s] # Anonymous => label[s] = Called(label)[s]
    BY DEF Called
  <2>2. Named(p, label) \subseteq {Called(label)[s] : s \in Sections}
    BY <2>1 DEF Named, Present
  <2>3. QED
    BY <2>2, TakenIs
<1>2. ASSUME NEW n \in Nat, n \in S PROVE n + 1 \in S
  <2>1. SUFFICES ASSUME n + 1 <= Len(File[p])
                 PROVE  Taken(p, label)[n + 1] \subseteq {Called(label)[s] : s \in Sections}
    OBVIOUS
  <2> DEFINE s == File[p][n + 1]
  <2>2. n + 1 \in 1 .. Len(File[p]) /\ (n + 1) - 1 = n
    BY <1>0, <2>1
  <2>3. s \in Sections /\ PackageOf[s] = p /\ Place(s) = n + 1
    BY <2>2, FileIs
  <2>4. Taken(p, label)[n + 1] = TakenAfter(p, label, n + 1, Taken(p, label)[n])
    BY <2>2, TakenIs
  <2>5. Taken(p, label)[n] \subseteq {Called(label)[q] : q \in Sections}
    BY <1>0, <1>2, <2>1
  <2>6. label[s] = Anonymous => NameFor(s, label, Taken(p, label)[n]) = Called(label)[s]
    BY <2>2, <2>3 DEF Called, Propose
  <2> HIDE DEF s
  <2>7. QED
    BY <2>3, <2>4, <2>5, <2>6 DEF TakenAfter, s
<1>3. QED
  <2> HIDE DEF S
  <2>1. S \in SUBSET Nat
    BY DEF S
  <2>2. \A n \in Nat : n \in S
    BY <1>1, <1>2, <2>1, Induction
  <2>3. QED
    BY <1>0, <2>2 DEF S

(* So there are no more of them than sections.                             *)
LEMMA TakenBounded ==
  ASSUME NEW p \in Packages, NEW label, NEW i \in 0 .. Len(File[p])
  PROVE  Bounded(Taken(p, label)[i])
<1> DEFINE T == {Called(label)[s] : s \in Sections}
<1>1. IsFiniteSet(Sections) /\ Cardinality(Sections) \in Nat
  BY SectionsAssumption, FS_CardinalityType
<1>2. Called(label) \in Surjection(Sections, T)
  BY DEF Surjection, Called
<1>3. IsFiniteSet(T) /\ Cardinality(T) <= Cardinality(Sections)
  <2> HIDE DEF T
  <2> QED
    BY <1>1, <1>2, FS_Surjection
<1>4. Taken(p, label)[i] \in SUBSET T
  BY TakenBySections
<1> HIDE DEF T
<1>5. IsFiniteSet(Taken(p, label)[i]) /\ Cardinality(Taken(p, label)[i]) <= Cardinality(T)
  BY <1>3, <1>4, FS_Subset
<1>6. Cardinality(Taken(p, label)[i]) \in Nat /\ Cardinality(T) \in Nat
  BY <1>3, <1>5, FS_CardinalityType
<1>7. QED
  BY <1>1, <1>3, <1>5, <1>6 DEF Bounded

(* What is taken stays taken.                                              *)
LEMMA TakenGrows ==
  ASSUME NEW p \in Packages, NEW label, NEW i \in 0 .. Len(File[p])
  PROVE  \A j \in i .. Len(File[p]) : Taken(p, label)[i] \subseteq Taken(p, label)[j]
<1> DEFINE S == {n \in Nat : n + i <= Len(File[p]) =>
                   Taken(p, label)[i] \subseteq Taken(p, label)[n + i]}
<1>0. Len(File[p]) \in Nat /\ i \in Nat
  BY FileIs
<1>1. 0 \in S
  BY <1>0
<1>2. ASSUME NEW n \in Nat, n \in S PROVE n + 1 \in S
  <2>1. SUFFICES ASSUME (n + 1) + i <= Len(File[p])
                 PROVE  Taken(p, label)[i] \subseteq Taken(p, label)[(n + 1) + i]
    OBVIOUS
  <2>2. (n + 1) + i \in 1 .. Len(File[p]) /\ ((n + 1) + i) - 1 = n + i /\ n + i <= Len(File[p])
    BY <1>0, <2>1
  <2>3. Taken(p, label)[(n + 1) + i]
          = TakenAfter(p, label, (n + 1) + i, Taken(p, label)[n + i])
    BY <2>2, TakenIs
  <2>4. Taken(p, label)[i] \subseteq Taken(p, label)[n + i]
    BY <1>2, <2>2
  <2>5. QED
    BY <2>3, <2>4 DEF TakenAfter
<1>3. ASSUME NEW j \in i .. Len(File[p])
      PROVE  Taken(p, label)[i] \subseteq Taken(p, label)[j]
  <2> HIDE DEF S
  <2>1. S \in SUBSET Nat
    BY DEF S
  <2>2. \A n \in Nat : n \in S
    BY <1>1, <1>2, <2>1, Induction
  <2>3. j - i \in Nat /\ (j - i) + i = j /\ j <= Len(File[p])
    BY <1>0
  <2>4. QED
    BY <2>2, <2>3 DEF S
<1>4. QED
  BY <1>3

-----------------------------------------------------------------------------
(***************************************************************************)
(* The proposals.                                                          *)
(***************************************************************************)

(* A proposed name is a name, not taken before its section, and taken      *)
(* after it.                                                               *)
LEMMA ProposeIs ==
  ASSUME NEW s \in Sections, NEW label
  PROVE  /\ Propose(s, label) \in Name
         /\ Propose(s, label) \notin Taken(PackageOf[s], label)[Place(s) - 1]
         /\ label[s] = Anonymous => Propose(s, label) \in Taken(PackageOf[s], label)[Place(s)]
<1> DEFINE p == PackageOf[s]
           T == Taken(p, label)[Place(s) - 1]
<1>1. p \in Packages /\ Place(s) \in 1 .. Len(File[p]) /\ File[p][Place(s)] = s
  BY PlaceIs
<1>2. Len(File[p]) \in Nat
  BY <1>1, FileIs
<1>3. Place(s) - 1 \in 0 .. Len(File[p])
  BY <1>1, <1>2
<1>4. Bounded(T)
  BY <1>1, <1>3, TakenBounded
<1>5. Propose(s, label) \in Name \ T
  <2> HIDE DEF T
  <2>1. NameFor(s, label, T) \in Name \ T
    BY <1>4, NameForIs
  <2>2. QED
    BY <2>1 DEF Propose, T
<1>6. Taken(p, label)[Place(s)] = TakenAfter(p, label, Place(s), T)
  BY <1>1, TakenIs
<1>7. label[s] = Anonymous => Propose(s, label) \in Taken(p, label)[Place(s)]
  BY <1>1, <1>6 DEF TakenAfter, Propose
<1>8. QED
  BY <1>5, <1>7

(* A name is not proposed that a section of the package has.               *)
THEOREM ProposalsAreNew ==
  ASSUME NEW label, NEW s \in Sections, NEW q \in Present(label),
         PackageOf[q] = PackageOf[s], label[q] # Anonymous
  PROVE  Propose(s, label) # label[q]
<1> DEFINE p == PackageOf[s]
<1>1. p \in Packages /\ Place(s) \in 1 .. Len(File[p])
  BY PlaceIs
<1>2. Len(File[p]) \in Nat
  BY <1>1, FileIs
<1>3. 0 \in 0 .. Len(File[p]) /\ Place(s) - 1 \in 0 .. Len(File[p])
  BY <1>1, <1>2
<1>4. label[q] \in Taken(p, label)[0]
  BY <1>1, TakenIs DEF Named
<1>5. Taken(p, label)[0] \subseteq Taken(p, label)[Place(s) - 1]
  BY <1>1, <1>3, TakenGrows
<1>6. QED
  BY <1>4, <1>5, ProposeIs

(* No two anonymous sections of a package are proposed one name.           *)
THEOREM ProposalsDiffer ==
  ASSUME NEW label, NEW s \in Sections, NEW q \in Sections, q # s,
         PackageOf[q] = PackageOf[s], label[s] = Anonymous, label[q] = Anonymous
  PROVE  Propose(q, label) # Propose(s, label)
<1> DEFINE p == PackageOf[s]
<1>1. /\ p \in Packages /\ Len(File[p]) \in Nat
      /\ Place(s) \in 1 .. Len(File[p]) /\ Place(q) \in 1 .. Len(File[p])
      /\ File[p][Place(s)] = s /\ File[p][Place(q)] = q
  BY PlaceIs, FileIs
<1>2. ASSUME NEW a \in Sections, NEW b \in Sections, PackageOf[a] = p, PackageOf[b] = p,
             label[a] = Anonymous, Place(a) \in 1 .. Len(File[p]),
             Place(b) \in 1 .. Len(File[p]), Place(a) < Place(b)
      PROVE  Propose(b, label) # Propose(a, label)
  <2>1. /\ Place(a) \in 0 .. Len(File[p])
        /\ Place(b) - 1 \in Place(a) .. Len(File[p])
    BY <1>1, <1>2
  <2>2. Taken(p, label)[Place(a)] \subseteq Taken(p, label)[Place(b) - 1]
    BY <1>1, <2>1, TakenGrows
  <2>3. Propose(a, label) \in Taken(p, label)[Place(a)]
    BY <1>2, ProposeIs
  <2>4. Propose(b, label) \notin Taken(p, label)[Place(b) - 1]
    BY <1>2, ProposeIs
  <2>5. QED
    BY <2>2, <2>3, <2>4
<1>3. Place(s) < Place(q) \/ Place(q) < Place(s)
  BY <1>1
<1>4. QED
  BY <1>1, <1>2, <1>3

-----------------------------------------------------------------------------
(***************************************************************************)
(* A batch that is repeated.                                               *)
(***************************************************************************)

(* Of the proposals for `label', some were carried out.                    *)
Carried(label, later) ==
  \A s \in Sections :
    \/ later[s] = label[s]
    \/ label[s] = Anonymous /\ later[s] = Propose(s, label)

(* The names that were given to sections after the i-th of the file.       *)
GivenAfter(p, label, later, i) ==
  {Propose(q, label) : q \in {s \in Sections : /\ PackageOf[s] = p /\ Place(s) > i
                                               /\ label[s] = Anonymous
                                               /\ later[s] # Anonymous}}

Between(p, label, later, i) ==
  /\ Taken(p, label)[i] \subseteq Taken(p, later)[i]
  /\ Taken(p, later)[i] \subseteq Taken(p, label)[i] \cup GivenAfter(p, label, later, i)

LEMMA CarriedPresent ==
  ASSUME NEW label, NEW later, Carried(label, later)
  PROVE  Present(later) = Present(label)
<1>1. ASSUME NEW s \in Sections PROVE (later[s] = Absent) <=> (label[s] = Absent)
  <2>1. Propose(s, label) # Absent
    BY ProposeIs, SectionsAssumption
  <2>2. QED
    BY <2>1, SectionsAssumption DEF Carried
<1>2. QED
  BY <1>1 DEF Present

(* The names taken by sections that were renamed do not disturb one that   *)
(* was not.                                                                *)
LEMMA ProposeKeeps ==
  ASSUME NEW label, NEW later, Carried(label, later),
         NEW s \in Sections, later[s] = Anonymous,
         Between(PackageOf[s], label, later, Place(s) - 1)
  PROVE  Propose(s, later) = Propose(s, label)
<1> DEFINE p == PackageOf[s]
           T == Taken(p, label)[Place(s) - 1]
           U == Taken(p, later)[Place(s) - 1]
<1>1. p \in Packages /\ Place(s) \in 1 .. Len(File[p]) /\ Len(File[p]) \in Nat
  BY PlaceIs, FileIs
<1>2. Place(s) - 1 \in 0 .. Len(File[p])
  BY <1>1
<1>3. Bounded(T) /\ Bounded(U)
  BY <1>1, <1>2, TakenBounded
<1>4. label[s] = Anonymous
  BY ProposeIs, SectionsAssumption DEF Carried
<1>5. Propose(s, label) \notin GivenAfter(p, label, later, Place(s) - 1)
  <2>1. ASSUME NEW q \in Sections, PackageOf[q] = p, label[q] = Anonymous, later[q] # Anonymous
        PROVE  Propose(q, label) # Propose(s, label)
    BY <1>4, <2>1, ProposalsDiffer
  <2>2. QED
    BY <2>1 DEF GivenAfter
<1>6. Propose(s, label) \notin U
  BY <1>5, ProposeIs DEF Between
<1>7. T \subseteq U /\ Propose(s, label) = NameFor(s, label, T)
  BY DEF Between, Propose
<1>8. NameFor(s, label, U) = NameFor(s, label, T)
  <2> HIDE DEF T, U
  <2> QED
    BY <1>3, <1>6, <1>7, NameForKeeps
<1>9. NameFor(s, later, U) = NameFor(s, label, U)
  BY CarriedPresent, NameForPresent
<1>10. QED
  BY <1>7, <1>8, <1>9 DEF Propose

LEMMA StaysBetween ==
  ASSUME NEW p \in Packages, NEW label, NEW later, Carried(label, later)
  PROVE  \A i \in 0 .. Len(File[p]) : Between(p, label, later, i)
<1> DEFINE S == {i \in Nat : i <= Len(File[p]) => Between(p, label, later, i)}
<1>0. Len(File[p]) \in Nat
  BY FileIs
<1>1. 0 \in S
  <2>1. Present(later) = Present(label)
    BY CarriedPresent
  <2>2. Taken(p, label)[0] = Named(p, label) /\ Taken(p, later)[0] = Named(p, later)
    BY TakenIs
  <2>3. Named(p, label) \subseteq Named(p, later)
    <3>1. ASSUME NEW s \in Present(label), PackageOf[s] = p, label[s] # Anonymous
          PROVE  label[s] \in Named(p, later)
      <4>1. later[s] = label[s]
        BY <3>1 DEF Carried, Present
      <4>2. QED
        BY <2>1, <3>1, <4>1 DEF Named
    <3>2. QED
      BY <3>1 DEF Named
  <2>4. Named(p, later) \subseteq Named(p, label) \cup GivenAfter(p, label, later, 0)
    <3>1. ASSUME NEW s \in Present(later), PackageOf[s] = p, later[s] # Anonymous
          PROVE  later[s] \in Named(p, label) \cup GivenAfter(p, label, later, 0)
      <4>1. s \in Sections /\ Place(s) > 0
        BY PlaceIs DEF Present
      <4>2. CASE later[s] = label[s]
        BY <2>1, <3>1, <4>2 DEF Named
      <4>3. CASE label[s] = Anonymous /\ later[s] = Propose(s, label)
        BY <3>1, <4>1, <4>3 DEF GivenAfter
      <4>4. QED
        BY <4>1, <4>2, <4>3 DEF Carried
    <3>2. QED
      BY <3>1 DEF Named
  <2>5. QED
    BY <2>2, <2>3, <2>4 DEF Between
<1>2. ASSUME NEW n \in Nat, n \in S PROVE n + 1 \in S
  <2>1. SUFFICES ASSUME n + 1 <= Len(File[p])
                 PROVE  Between(p, label, later, n + 1)
    OBVIOUS
  <2> DEFINE s == File[p][n + 1]
  <2>2. n + 1 \in 1 .. Len(File[p]) /\ (n + 1) - 1 = n /\ n \in 0 .. Len(File[p])
    BY <1>0, <2>1
  <2>3. s \in Sections /\ PackageOf[s] = p /\ Place(s) = n + 1
    BY <2>2, FileIs
  <2>4. /\ Taken(p, label)[n + 1] = TakenAfter(p, label, n + 1, Taken(p, label)[n])
        /\ Taken(p, later)[n + 1] = TakenAfter(p, later, n + 1, Taken(p, later)[n])
    BY <2>2, TakenIs
  <2>5. Between(p, label, later, n)
    BY <1>2, <2>2
  <2>6. GivenAfter(p, label, later, n) \subseteq
          GivenAfter(p, label, later, n + 1)
            \cup (IF label[s] = Anonymous /\ later[s] # Anonymous
                  THEN {Propose(s, label)} ELSE {})
    <3>1. ASSUME NEW q \in Sections, PackageOf[q] = p, Place(q) > n
          PROVE  Place(q) > n + 1 \/ q = s
      <4>1. Place(q) \in 1 .. Len(File[p]) /\ File[p][Place(q)] = q
        BY <3>1, PlaceIs
      <4>2. Place(q) = n + 1 => q = s
        BY <4>1
      <4>3. QED
        BY <1>0, <3>1, <4>1, <4>2
    <3> HIDE DEF s
    <3>2. QED
      BY <3>1 DEF GivenAfter
  <2>7. CASE label[s] # Anonymous
    <3>1. later[s] = label[s]
      BY <2>3, <2>7 DEF Carried
    <3>2. QED
      BY <2>4, <2>5, <2>6, <2>7, <3>1 DEF Between, TakenAfter
  <2>8. CASE label[s] = Anonymous /\ later[s] = Anonymous
    <3>1. Propose(s, later) = Propose(s, label)
      <4> HIDE DEF s
      <4> QED
        BY <2>2, <2>3, <2>5, <2>8, ProposeKeeps
    <3>2. /\ Taken(p, label)[n + 1] = Taken(p, label)[n] \cup {Propose(s, label)}
          /\ Taken(p, later)[n + 1] = Taken(p, later)[n] \cup {Propose(s, later)}
      BY <2>2, <2>3, <2>4, <2>8 DEF TakenAfter, Propose
    <3> HIDE DEF s
    <3>3. QED
      BY <2>5, <2>6, <2>8, <3>1, <3>2 DEF Between
  <2>9. CASE label[s] = Anonymous /\ later[s] # Anonymous
    <3>1. later[s] = Propose(s, label)
      BY <2>3, <2>9 DEF Carried
    <3>2. /\ Taken(p, label)[n + 1] = Taken(p, label)[n] \cup {Propose(s, label)}
          /\ Taken(p, later)[n + 1] = Taken(p, later)[n]
      BY <2>2, <2>3, <2>4, <2>9 DEF TakenAfter, Propose
    <3>3. later[s] \in Taken(p, later)[n]
      <4>1. s \in Present(later)
        BY <2>3, <3>1, ProposeIs, SectionsAssumption DEF Present
      <4>2. later[s] \in Taken(p, later)[0]
        BY <2>3, <2>9, <4>1, TakenIs DEF Named
      <4>3. 0 \in 0 .. Len(File[p]) /\ n \in 0 .. Len(File[p])
        BY <1>0, <2>2
      <4>4. Taken(p, later)[0] \subseteq Taken(p, later)[n]
        BY <4>3, TakenGrows
      <4>5. QED
        BY <4>2, <4>4
    <3> HIDE DEF s
    <3>4. QED
      BY <2>5, <2>6, <2>9, <3>1, <3>2, <3>3 DEF Between
  <2>10. QED
    BY <2>7, <2>8, <2>9
<1>3. QED
  <2> HIDE DEF S
  <2>1. S \in SUBSET Nat
    BY DEF S
  <2>2. \A n \in Nat : n \in S
    BY <1>1, <1>2, <2>1, Induction
  <2>3. QED
    BY <1>0, <2>2 DEF S

(* The same device yields the same names every time: a section that is     *)
(* still anonymous after part of a batch is proposed the same name again.  *)
THEOREM ProposalsAreStable ==
  ASSUME NEW label, NEW later, Carried(label, later),
         NEW s \in Sections, later[s] = Anonymous
  PROVE  Propose(s, later) = Propose(s, label)
<1>1. /\ PackageOf[s] \in Packages /\ Place(s) \in 1 .. Len(File[PackageOf[s]])
      /\ Len(File[PackageOf[s]]) \in Nat
  BY PlaceIs, FileIs
<1>2. Place(s) - 1 \in 0 .. Len(File[PackageOf[s]])
  BY <1>1
<1>3. Between(PackageOf[s], label, later, Place(s) - 1)
  BY <1>1, <1>2, StaysBetween
<1>4. QED
  BY <1>3, ProposeKeeps

-----------------------------------------------------------------------------
(***************************************************************************)
(* Batches of renames.                                                     *)
(***************************************************************************)

(* What a rename that was proposed is made of.                             *)
ProposalsOK ==
  \A r \in todo \cup done :
    /\ r.of \in Sections /\ r.to \in Name /\ r.index \in Nat
    /\ r.internal.package = PackageOf[r.of]
    /\ r.internal.package \in Packages \cap Range(Managed)

(* A batch has a package to commit until it has committed the last.        *)
CommitsOK ==
  /\ pc = "commit" => unsaved # <<>>
  /\ pc = "applied" => unsaved = <<>>

(* What is staged and not on flash is a name for a section without one: a  *)
(* restart takes names away and gives none.                                *)
OnlyNamesPending ==
  \A s \in Sections :
    \/ published[s] = staged[s]
    \/ published[s] = Anonymous /\ staged[s] \in Name

(* No name of the batch is had by a section, or proposed twice, before it  *)
(* is issued.                                                              *)
BatchIsNew ==
  /\ \A r, q \in todo : r.internal.package = q.internal.package /\ r.to = q.to => r = q
  /\ pc \in {"rename", "verify"} =>
       \A r \in todo :
         pc = "rename" \/ ~IsNext(r) =>
           \A s \in Sections : PackageOf[s] = r.internal.package => staged[s] # r.to

(* As long as nobody else touched the device, each section is called what  *)
(* it was at first, or what was proposed for it then; and that is what it  *)
(* is proposed again.                                                      *)
OwnContent ==
  ~disturbed =>
    /\ Carried(Existing, staged)
    /\ \A s \in Sections :
         /\ first[s] \in {Nothing, Propose(s, Existing)}
         /\ staged[s] # Existing[s] => first[s] # Nothing
    /\ \A r \in todo \cup done :
         /\ Existing[r.of] = Anonymous
         /\ first[r.of] # Nothing
         /\ r.to = Propose(r.of, Existing)
         /\ r.internal.position = Position(r.of, Existing)

(* What is done is pending in its package, or on flash.                    *)
DoneIsPending ==
  ~disturbed =>
    \A r \in done : \/ r.internal.package \in Range(unsaved)
                    \/ published[r.of] = r.to

RenameInv == TypeOK /\ ProposalsOK /\ CommitsOK

UniqueInv == RenameInv /\ NamesAreUnique /\ OnlyNamesPending /\ BatchIsNew

ContentInv == RenameInv /\ OwnContent /\ ReportedIsDone /\ DoneIsPending

-----------------------------------------------------------------------------
(***************************************************************************)
(* The steps.                                                              *)
(***************************************************************************)

(* What a batch is proposed to be.                                         *)
LEMMA ProposalsAre ==
  \A r \in Proposals :
    /\ r.of \in Sections /\ staged[r.of] = Anonymous
    /\ r.to \in Name /\ r.to = Propose(r.of, staged)
    /\ r.index \in Nat
    /\ r.internal.package = PackageOf[r.of]
    /\ r.internal.package \in Packages \cap Range(Managed)
    /\ r.internal.position = Position(r.of, staged)
    /\ r = [of |-> r.of, internal |-> Internal(r.of, staged),
            to |-> Propose(r.of, staged), index |-> Index(r.of, staged)]
<1>1. TAKE r \in Proposals
<1>2. PICK s \in There :
        /\ staged[s] = Anonymous /\ PackageOf[s] \in Range(Managed)
        /\ r = [of |-> s, internal |-> Internal(s, staged),
                to |-> Propose(s, staged), index |-> Index(s, staged)]
  BY DEF Proposals
<1>3. s \in Sections
  BY DEF There, Present
<1>4. Propose(s, staged) \in Name /\ PackageOf[s] \in Packages
  BY <1>3, ProposeIs, PlaceIs
<1>5. Index(s, staged) \in Nat
  BY EarlierIs
<1>6. QED
  BY <1>2, <1>3, <1>4, <1>5 DEF Internal

(* The next rename is one: of two, only one comes before the other.        *)
LEMMA NextIsOne ==
  ASSUME ProposalsOK, NEW r, NEW q, IsNext(r), IsNext(q)
  PROVE  r = q
<1> SUFFICES ASSUME r # q PROVE FALSE
  OBVIOUS
<1>1. Before(r, q) /\ Before(q, r) /\ r \in todo /\ q \in todo
  BY DEF IsNext
<1>2. /\ r.index \in Nat /\ q.index \in Nat /\ r.of \in Sections /\ q.of \in Sections
      /\ r.internal.package \in Range(Managed) /\ q.internal.package \in Range(Managed)
  BY <1>1 DEF ProposalsOK
<1>3. Place(r.of) \in Nat /\ Place(q.of) \in Nat
  BY <1>2, PlaceIs
<1>4. ASSUME NEW p \in Range(Managed) PROVE Rank(p) \in Nat
  <2>1. \E k \in DOMAIN Managed : Managed[k] = p
    BY DEF Range
  <2>2. Rank(p) \in DOMAIN Managed
    BY <2>1 DEF Rank
  <2>3. QED
    BY <2>2, RenamesAssumption
<1>5. Rank(r.internal.package) \in Nat /\ Rank(q.internal.package) \in Nat
  BY <1>2, <1>4
<1>6. QED
  BY <1>1, <1>2, <1>3, <1>5 DEF Before, ProposedBefore

(* The step of a rename: the device did what it was asked, or nothing.     *)
LEMMA IssueRenameIs ==
  ASSUME NEW r \in todo, IssueRename(r)
  PROVE  /\ pc = "rename" /\ IsNext(r) /\ pc' \in {"verify", "failed"}
         /\ UNCHANGED <<published, todo, done, unsaved, first, disturbed>>
         /\ \/ staged' = staged
            \/ \E s \in Denoted(r.internal) : staged' = [staged EXCEPT ![s] = r.to]
         /\ spent' = spent \/ Spend("fault")
  BY DEF IssueRename, Device!Stage, deviceVars

LEMMA VerifyIs ==
  ASSUME NEW r \in todo, Verify(r)
  PROVE  /\ pc = "verify" /\ IsNext(r)
         /\ UNCHANGED <<staged, published, first, disturbed>>
         /\ \/ /\ ReadsBack(r)
               /\ done' = done \cup {r}
               /\ unsaved' = IF r.internal.package \in Range(unsaved) THEN unsaved
                             ELSE Append(unsaved, r.internal.package)
               /\ todo' = todo \ {r}
               /\ pc' = IF todo' = {} THEN "commit" ELSE "rename"
            \/ pc' = "failed" /\ UNCHANGED <<todo, done, unsaved>>
         /\ spent' = spent \/ Spend("fault")
  BY DEF Verify, deviceVars

LEMMA CommitIs ==
  ASSUME Commit
  PROVE  /\ pc = "commit"
         /\ UNCHANGED <<staged, todo, done, first, disturbed>>
         /\ \/ published' = published
            \/ published' = [s \in Sections |->
                               IF PackageOf[s] = Head(unsaved) THEN staged[s] ELSE published[s]]
         /\ \/ /\ published' = [s \in Sections |->
                                  IF PackageOf[s] = Head(unsaved) THEN staged[s]
                                  ELSE published[s]]
               /\ unsaved' = Tail(unsaved)
               /\ pc' = IF Tail(unsaved) = <<>> THEN "applied" ELSE "commit"
            \/ pc' = "failed" /\ unsaved' = unsaved
         /\ spent' = spent \/ Spend("fault")
  BY DEF Commit, Device!Publish, deviceVars

(* What the steps of others change.                                        *)
LEMMA MishapIs ==
  ASSUME ForeignDelete \/ DeviceRestart
  PROVE  /\ disturbed' = TRUE
         /\ UNCHANGED <<pc, todo, done, unsaved, first>>
         /\ \/ \E s \in Sections : /\ staged' = [staged EXCEPT ![s] = Absent]
                                   /\ published' = [published EXCEPT ![s] = Absent]
            \/ staged' = published /\ published' = published
         /\ \E m \in Mishaps : Spend(m)
<1>1. CASE ForeignDelete
  BY <1>1 DEF ForeignDelete, Device!Overwrite, There, Present, Mishaps
<1>2. CASE DeviceRestart
  BY <1>2 DEF DeviceRestart, Device!Restart, Mishaps
<1>3. QED
  BY <1>1, <1>2

-----------------------------------------------------------------------------
(***************************************************************************)
(* Types, and the order of a batch.                                        *)
(***************************************************************************)

LabelSet == Name \cup {Anonymous, Absent}

LEMMA SpendTyped ==
  ASSUME spent \in [Mishaps -> Nat], spent' = spent \/ \E m \in Mishaps : Spend(m)
  PROVE  spent' \in [Mishaps -> Nat]
<1>1. CASE \E m \in Mishaps : Spend(m)
  BY <1>1 DEF Spend
<1>2. QED
  BY <1>1

LEMMA RenameInvInit ==
  ASSUME Init
  PROVE  RenameInv
<1>1. staged \in [Sections -> LabelSet] /\ published \in [Sections -> LabelSet]
  BY RenamesAssumption DEF Init, LabelSet
<1>2. unsaved \in Seq(Packages) /\ spent \in [Mishaps -> Nat]
  BY DEF Init
<1>3. QED
  BY <1>1, <1>2 DEF Init, RenameInv, TypeOK, ProposalsOK, CommitsOK, LabelSet

LEMMA RenameInvStep ==
  ASSUME RenameInv, [Next]_vars
  PROVE  RenameInv'
<1> USE DEF RenameInv
<1>1. CASE Survey
  <2>1. /\ todo' = Proposals /\ todo' # {} /\ done' = {} /\ unsaved' = <<>> /\ pc' = "rename"
        /\ UNCHANGED <<staged, published, disturbed, spent>>
    BY <1>1 DEF Survey
  <2>2. ProposalsOK'
    BY <2>1, ProposalsAre DEF ProposalsOK
  <2>3. unsaved' \in Seq(Packages)
    BY <2>1
  <2>4. TypeOK'
    BY <2>1, <2>3 DEF TypeOK
  <2>5. CommitsOK'
    BY <2>1 DEF CommitsOK
  <2>6. QED
    BY <2>2, <2>4, <2>5
<1>2. ASSUME NEW r \in todo, IssueRename(r) PROVE RenameInv'
  <2>1. spent' \in [Mishaps -> Nat]
    BY <1>2, IssueRenameIs, SpendTyped DEF TypeOK, Mishaps
  <2>2. staged' \in [Sections -> LabelSet]
    BY <1>2, IssueRenameIs DEF TypeOK, ProposalsOK, LabelSet
  <2>3. TypeOK'
    BY <1>2, <2>1, <2>2, IssueRenameIs DEF TypeOK, LabelSet
  <2>4. ProposalsOK' /\ CommitsOK'
    BY <1>2, IssueRenameIs DEF ProposalsOK, CommitsOK
  <2>5. QED
    BY <2>3, <2>4
<1>3. ASSUME NEW r \in todo, Verify(r) PROVE RenameInv'
  <2>1. spent' \in [Mishaps -> Nat]
    BY <1>3, VerifyIs, SpendTyped DEF TypeOK, Mishaps
  <2>2. r.internal.package \in Packages
    BY DEF ProposalsOK
  <2>3. unsaved' \in Seq(Packages)
    BY <1>3, <2>2, VerifyIs DEF TypeOK
  <2>4. \A q \in todo', d \in done' : d.index >= q.index
    <3>1. \A q \in todo \ {r} : r.index >= q.index
      <4>1. \A q \in todo : q.index \in Nat
        BY DEF ProposalsOK
      <4>2. \A q \in todo \ {r} : Before(r, q)
        BY <1>3, VerifyIs DEF IsNext
      <4>3. QED
        BY <4>1, <4>2 DEF Before
    <3>2. QED
      BY <1>3, <3>1, VerifyIs DEF TypeOK
  <2>5. pc' \in {"idle", "rename", "verify", "commit", "applied", "failed"}
    BY <1>3, VerifyIs
  <2>6. pc' \in {"rename", "verify"} => todo' # {}
    BY <1>3, VerifyIs
  <2>7. TypeOK'
    BY <1>3, <2>1, <2>3, <2>4, <2>5, <2>6, VerifyIs DEF TypeOK
  <2>8. ProposalsOK'
    BY <1>3, VerifyIs DEF ProposalsOK
  <2>9. pc' = "commit" => unsaved' # <<>>
    <3>1. r.internal.package \in Range(unsaved) => unsaved # <<>>
      BY DEF Range
    <3>2. Append(unsaved, r.internal.package) # <<>>
      BY <2>2 DEF TypeOK
    <3>3. QED
      BY <1>3, <3>1, <3>2, VerifyIs
  <2>10. pc' # "applied"
    BY <1>3, VerifyIs
  <2>11. QED
    BY <2>7, <2>8, <2>9, <2>10 DEF CommitsOK
<1>4. CASE Commit
  <2>1. spent' \in [Mishaps -> Nat]
    BY <1>4, CommitIs, SpendTyped DEF TypeOK, Mishaps
  <2>2. unsaved # <<>> /\ unsaved \in Seq(Packages)
    BY <1>4, CommitIs DEF CommitsOK, TypeOK
  <2>3. Tail(unsaved) \in Seq(Packages)
    BY <2>2
  <2>4. published' \in [Sections -> LabelSet]
    BY <1>4, CommitIs DEF TypeOK, LabelSet
  <2>5. pc' \in {"commit", "applied", "failed"} /\ unsaved' \in Seq(Packages)
    BY <1>4, <2>2, <2>3, CommitIs
  <2>6. TypeOK'
    BY <1>4, <2>1, <2>4, <2>5, CommitIs DEF TypeOK, LabelSet
  <2>7. ProposalsOK'
    BY <1>4, CommitIs DEF ProposalsOK
  <2>8. CommitsOK'
    BY <1>4, CommitIs DEF CommitsOK
  <2>9. QED
    BY <2>6, <2>7, <2>8
<1>5. CASE ForeignDelete \/ DeviceRestart
  <2>1. spent' \in [Mishaps -> Nat]
    BY <1>5, MishapIs, SpendTyped DEF TypeOK
  <2>2. staged' \in [Sections -> LabelSet] /\ published' \in [Sections -> LabelSet]
    BY <1>5, MishapIs DEF TypeOK, LabelSet
  <2>3. QED
    BY <1>5, <2>1, <2>2, MishapIs DEF TypeOK, ProposalsOK, CommitsOK, LabelSet
<1>6. CASE UNCHANGED vars
  BY <1>6 DEF vars, deviceVars, TypeOK, ProposalsOK, CommitsOK
<1>7. QED
  BY <1>1, <1>2, <1>3, <1>4, <1>5, <1>6 DEF Next, Progress

(* Every state is typed, and a batch renames no section before one with a  *)
(* higher index: what is done has an index no smaller than what is to do.  *)
THEOREM SectionRenamesTyped == Spec => []TypeOK
<1>1. Init => RenameInv
  BY RenameInvInit
<1>2. RenameInv /\ [Next]_vars => RenameInv'
  BY RenameInvStep
<1>3. RenameInv => TypeOK
  BY DEF RenameInv
<1>4. QED
  BY <1>1, <1>2, <1>3, PTL DEF Spec

-----------------------------------------------------------------------------
(***************************************************************************)
(* Uniqueness.                                                             *)
(***************************************************************************)

LEMMA UniqueInvInit ==
  ASSUME Init
  PROVE  UniqueInv
<1>1. RenameInv
  BY RenameInvInit
<1>2. NamesAreUnique
  BY RenamesAssumption DEF Init, NamesAreUnique, There, Present
<1>3. OnlyNamesPending /\ BatchIsNew
  BY DEF Init, OnlyNamesPending, BatchIsNew
<1>4. QED
  BY <1>1, <1>2, <1>3 DEF UniqueInv

(* A batch names no section as another one is called, or is to be called.  *)
LEMMA ProposalsAreFresh ==
  /\ \A r, q \in Proposals : r.internal.package = q.internal.package /\ r.to = q.to => r = q
  /\ \A r \in Proposals : \A s \in Sections :
       PackageOf[s] = r.internal.package => staged[s] # r.to
<1>1. ASSUME NEW r \in Proposals, NEW q \in Proposals,
             r.internal.package = q.internal.package, r.to = q.to
      PROVE  r = q
  <2>1. r.of = q.of
    BY <1>1, ProposalsAre, ProposalsDiffer
  <2>2. QED
    BY <2>1, ProposalsAre
<1>2. ASSUME NEW r \in Proposals, NEW s \in Sections, PackageOf[s] = r.internal.package
      PROVE  staged[s] # r.to
  <2>1. r.of \in Sections /\ r.to \in Name /\ r.to = Propose(r.of, staged)
        /\ PackageOf[s] = PackageOf[r.of]
    BY <1>2, ProposalsAre
  <2>2. CASE staged[s] \in {Anonymous, Absent}
    BY <2>1, <2>2, SectionsAssumption
  <2>3. CASE staged[s] \notin {Anonymous, Absent}
    <3>1. s \in Present(staged)
      BY <2>3 DEF Present
    <3>2. QED
      BY <2>1, <2>3, <3>1, ProposalsAreNew
  <2>4. QED
    BY <2>2, <2>3
<1>3. QED
  BY <1>1, <1>2

LEMMA UniqueInvStep ==
  ASSUME UniqueInv, [Next]_vars
  PROVE  UniqueInv'
<1>0. RenameInv' /\ RenameInv /\ NamesAreUnique /\ OnlyNamesPending /\ BatchIsNew
  BY RenameInvStep DEF UniqueInv
<1>1. CASE Survey
  <2>1. todo' = Proposals /\ pc' = "rename" /\ UNCHANGED <<staged, published>>
    BY <1>1 DEF Survey
  <2>2. BatchIsNew'
    BY <2>1, ProposalsAreFresh DEF BatchIsNew
  <2>3. NamesAreUnique' /\ OnlyNamesPending'
    BY <1>0, <2>1 DEF NamesAreUnique, OnlyNamesPending, There, Present
  <2>4. QED
    BY <1>0, <2>2, <2>3 DEF UniqueInv
<1>2. ASSUME NEW r \in todo, IssueRename(r) PROVE UniqueInv'
  <2>1. /\ pc = "rename" /\ IsNext(r) /\ pc' \in {"verify", "failed"}
        /\ UNCHANGED <<published, todo>>
    BY <1>2, IssueRenameIs
  <2>2. r.to \in Name /\ staged \in [Sections -> LabelSet]
    BY <1>0 DEF RenameInv, ProposalsOK, TypeOK, LabelSet
  <2>3. CASE staged' = staged
    <3>1. NamesAreUnique' /\ OnlyNamesPending'
      BY <1>0, <2>1, <2>3 DEF NamesAreUnique, OnlyNamesPending, There, Present
    <3>2. BatchIsNew'
      BY <1>0, <2>1, <2>3 DEF BatchIsNew
    <3>3. QED
      BY <1>0, <3>1, <3>2 DEF UniqueInv
  <2>4. ASSUME NEW s \in Denoted(r.internal), staged' = [staged EXCEPT ![s] = r.to]
        PROVE  UniqueInv'
    <3>1. s \in Sections /\ staged[s] = Anonymous /\ PackageOf[s] = r.internal.package
      BY DEF Denoted, There, Present
    <3>2. staged'[s] = r.to /\ \A q \in Sections \ {s} : staged'[q] = staged[q]
      BY <2>2, <2>4, <3>1
    <3>3. \A q \in Sections : PackageOf[q] = PackageOf[s] => staged[q] # r.to
      BY <1>0, <2>1, <3>1 DEF BatchIsNew
    <3>4. NamesAreUnique'
      <4>1. ASSUME NEW a \in Sections, NEW b \in Sections, a # b, PackageOf[a] = PackageOf[b],
                   staged'[a] # Absent, staged'[b] # Absent, staged'[a] = staged'[b]
            PROVE  staged'[a] = Anonymous
        <5>1. a # s /\ b # s
          BY <3>2, <3>3, <4>1
        <5>2. QED
          BY <1>0, <3>2, <4>1, <5>1 DEF NamesAreUnique, There, Present
      <4>2. QED
        BY <4>1 DEF NamesAreUnique, There, Present
    <3>5. OnlyNamesPending'
      <4>1. published[s] = Anonymous
        BY <1>0, <3>1, SectionsAssumption DEF OnlyNamesPending
      <4>2. QED
        BY <1>0, <2>1, <2>2, <3>2, <4>1 DEF OnlyNamesPending
    <3>6. BatchIsNew'
      <4>1. ASSUME NEW q \in todo, q # r, NEW a \in Sections, PackageOf[a] = q.internal.package
            PROVE  staged'[a] # q.to
        <5>1. CASE a = s
          BY <1>0, <3>1, <3>2, <4>1, <5>1 DEF BatchIsNew
        <5>2. CASE a # s
          BY <1>0, <2>1, <3>2, <4>1, <5>2 DEF BatchIsNew
        <5>3. QED
          BY <5>1, <5>2
      <4>2. \A q \in todo : ~IsNext(q)' => q # r
        BY <2>1 DEF IsNext
      <4>3. QED
        BY <1>0, <2>1, <4>1, <4>2 DEF BatchIsNew
    <3>7. QED
      BY <1>0, <3>4, <3>5, <3>6 DEF UniqueInv
  <2>5. QED
    BY <1>2, <2>3, <2>4, IssueRenameIs
<1>3. ASSUME NEW r \in todo, Verify(r) PROVE UniqueInv'
  <2>1. pc = "verify" /\ IsNext(r) /\ UNCHANGED <<staged, published>>
    BY <1>3, VerifyIs
  <2>2. NamesAreUnique' /\ OnlyNamesPending'
    BY <1>0, <2>1 DEF NamesAreUnique, OnlyNamesPending, There, Present
  <2>3. CASE todo' = todo \ {r} /\ pc' = IF todo' = {} THEN "commit" ELSE "rename"
    <3>1. \A q \in todo \ {r} : ~IsNext(q)
      BY <1>0, <2>1, NextIsOne DEF RenameInv
    <3>2. QED
      BY <1>0, <2>1, <2>2, <2>3, <3>1 DEF UniqueInv, BatchIsNew
  <2>4. CASE todo' = todo /\ pc' = "failed"
    BY <1>0, <2>2, <2>4 DEF UniqueInv, BatchIsNew
  <2>5. QED
    BY <1>3, <2>3, <2>4, VerifyIs
<1>4. CASE Commit
  <2>1. /\ UNCHANGED <<staged, todo>>
        /\ pc' \in {"commit", "applied", "failed"}
        /\ \A s \in Sections : published'[s] \in {published[s], staged[s]}
    BY <1>4, CommitIs
  <2>2. NamesAreUnique' /\ OnlyNamesPending' /\ BatchIsNew'
    BY <1>0, <2>1 DEF NamesAreUnique, OnlyNamesPending, There, Present, BatchIsNew
  <2>3. QED
    BY <1>0, <2>2 DEF UniqueInv
<1>5. CASE ForeignDelete \/ DeviceRestart
  <2>1. UNCHANGED <<pc, todo>>
    BY <1>5, MishapIs
  <2>2. \A s \in Sections :
          \/ staged'[s] = staged[s] /\ published'[s] = published[s]
          \/ staged'[s] = Absent /\ published'[s] = Absent
          \/ staged'[s] = Anonymous /\ published'[s] = Anonymous
    <3>1. ASSUME NEW q \in Sections, staged' = [staged EXCEPT ![q] = Absent],
                 published' = [published EXCEPT ![q] = Absent]
          PROVE  \A s \in Sections :
                   \/ staged'[s] = staged[s] /\ published'[s] = published[s]
                   \/ staged'[s] = Absent /\ published'[s] = Absent
      BY <1>0, <3>1 DEF RenameInv, TypeOK
    <3>2. CASE staged' = published /\ published' = published
      BY <1>0, <3>2 DEF OnlyNamesPending
    <3>3. QED
      BY <1>5, <3>1, <3>2, MishapIs
  <2>3. NamesAreUnique'
    BY <1>0, <2>2 DEF NamesAreUnique, There, Present
  <2>4. OnlyNamesPending'
    BY <1>0, <2>2 DEF OnlyNamesPending
  <2>5. BatchIsNew'
    <3>1. \A r \in todo : r.to # Absent /\ r.to # Anonymous
      BY <1>0, SectionsAssumption DEF RenameInv, ProposalsOK
    <3>2. \A r \in todo : IsNext(r)' <=> IsNext(r)
      BY <2>1 DEF IsNext
    <3>3. QED
      BY <1>0, <2>1, <2>2, <3>1, <3>2 DEF BatchIsNew
  <2>6. QED
    BY <1>0, <2>3, <2>4, <2>5 DEF UniqueInv
<1>6. CASE UNCHANGED vars
  BY <1>0, <1>6 DEF vars, deviceVars, UniqueInv, NamesAreUnique, OnlyNamesPending,
                    There, Present, BatchIsNew, IsNext
<1>7. QED
  BY <1>1, <1>2, <1>3, <1>4, <1>5, <1>6 DEF Next, Progress

(* No two sections of a package are ever called the same, however many     *)
(* batches fail and are repeated, and whatever restarts and edits come     *)
(* between a proposal and its rename.                                      *)
THEOREM SectionNamesAreUnique == Spec => []NamesAreUnique
<1>1. Init => UniqueInv
  BY UniqueInvInit
<1>2. UniqueInv /\ [Next]_vars => UniqueInv'
  BY UniqueInvStep
<1>3. UniqueInv => NamesAreUnique
  BY DEF UniqueInv
<1>4. QED
  BY <1>1, <1>2, <1>3, PTL DEF Spec

-----------------------------------------------------------------------------
(***************************************************************************)
(* Content, and what a batch reports.                                      *)
(***************************************************************************)

LEMMA ContentInvInit ==
  ASSUME Init
  PROVE  ContentInv
<1>1. RenameInv
  BY RenameInvInit
<1>2. OwnContent
  BY DEF Init, OwnContent, Carried
<1>3. ReportedIsDone /\ DoneIsPending
  BY DEF Init, ReportedIsDone, DoneIsPending
<1>4. QED
  BY <1>1, <1>2, <1>3 DEF ContentInv

(* On an undisturbed device a batch is proposed what the first one was.    *)
LEMMA ProposedAgain ==
  ASSUME OwnContent, ~disturbed, NEW r \in Proposals
  PROVE  /\ Existing[r.of] = Anonymous
         /\ r.to = Propose(r.of, Existing)
         /\ r.internal.position = Position(r.of, Existing)
<1>1. Carried(Existing, staged)
  BY DEF OwnContent
<1>2. /\ r.of \in Sections /\ staged[r.of] = Anonymous
      /\ r.to = Propose(r.of, staged)
      /\ r.internal.position = Position(r.of, staged)
  BY ProposalsAre
<1>3. Existing[r.of] = Anonymous
  BY <1>1, <1>2, ProposeIs, SectionsAssumption DEF Carried
<1>4. Propose(r.of, staged) = Propose(r.of, Existing)
  BY <1>1, <1>2, ProposalsAreStable
<1>5. Present(staged) = Present(Existing)
  BY <1>1, CarriedPresent
<1>6. Position(r.of, staged) = Position(r.of, Existing)
  BY <1>5 DEF Position, Earlier
<1>7. QED
  BY <1>2, <1>3, <1>4, <1>6

(* The label of a rename denotes its section, and no other.                *)
LEMMA DenotedIs ==
  ASSUME OwnContent, ProposalsOK, ~disturbed, NEW r \in todo, NEW s \in Denoted(r.internal)
  PROVE  s = r.of
<1>1. /\ Carried(Existing, staged) /\ Existing[r.of] = Anonymous
      /\ r.internal.position = Position(r.of, Existing)
      /\ r.internal.package = PackageOf[r.of] /\ r.of \in Sections
  BY DEF OwnContent, ProposalsOK
<1>2. Present(staged) = Present(Existing)
  BY <1>1, CarriedPresent
<1>3. s \in Present(staged) /\ PackageOf[s] = PackageOf[r.of]
      /\ Position(s, staged) = Position(r.of, Existing)
  BY <1>1 DEF Denoted, There
<1>4. Position(r.of, Existing) = Position(r.of, staged)
  BY <1>2 DEF Position, Earlier
<1>5. r.of \in Present(staged)
  BY <1>1, <1>2, SectionsAssumption DEF Present
<1>6. QED
  BY <1>3, <1>4, <1>5, PositionsDiffer DEF Position

(* A section that answers to the name of a rename is the renamed one.      *)
LEMMA ReadBackIs ==
  ASSUME OwnContent, ProposalsOK, ~disturbed, NEW r \in todo, ReadsBack(r)
  PROVE  staged[r.of] = r.to
<1>1. /\ Carried(Existing, staged) /\ Existing[r.of] = Anonymous
      /\ r.to = Propose(r.of, Existing) /\ r.to \in Name
      /\ r.internal.package = PackageOf[r.of] /\ r.of \in Sections
  BY DEF OwnContent, ProposalsOK
<1>2. PICK s \in Sections : /\ staged[s] # Absent
                            /\ PackageOf[s] = PackageOf[r.of] /\ staged[s] = r.to
  BY <1>1 DEF ReadsBack, There, Present
<1>3. CASE staged[s] = Existing[s]
  <2>1. s \in Present(Existing) /\ Existing[s] # Anonymous
    BY <1>1, <1>2, <1>3, SectionsAssumption DEF Present
  <2>2. Propose(r.of, Existing) # Existing[s]
    BY <1>1, <1>2, <2>1, ProposalsAreNew
  <2>3. QED
    BY <1>1, <1>2, <1>3, <2>2
<1>4. CASE Existing[s] = Anonymous /\ staged[s] = Propose(s, Existing)
  <2>1. s = r.of
    BY <1>1, <1>2, <1>4, ProposalsDiffer
  <2>2. QED
    BY <1>2, <2>1
<1>5. QED
  BY <1>1, <1>2, <1>3, <1>4 DEF Carried

LEMMA ContentInvStep ==
  ASSUME ContentInv, [Next]_vars
  PROVE  ContentInv'
<1>0. /\ RenameInv' /\ RenameInv /\ OwnContent /\ ReportedIsDone /\ DoneIsPending
      /\ ProposalsOK
  BY RenameInvStep DEF ContentInv, RenameInv
<1>1. CASE Survey
  <2>1. /\ todo' = Proposals /\ done' = {} /\ unsaved' = <<>> /\ pc' = "rename"
        /\ UNCHANGED <<staged, published, disturbed>>
        /\ first' = [s \in Sections |->
                       IF first[s] = Nothing /\ \E r \in todo' : r.of = s
                       THEN Propose(s, staged) ELSE first[s]]
    BY <1>1 DEF Survey
  <2>2. OwnContent'
    <3>1. SUFFICES ASSUME ~disturbed PROVE OwnContent'
      BY <2>1 DEF OwnContent
    <3>2. \A r \in Proposals : /\ r.of \in Sections /\ Existing[r.of] = Anonymous
                               /\ r.to = Propose(r.of, Existing)
                               /\ r.to = Propose(r.of, staged) /\ r.to \in Name
                               /\ r.internal.position = Position(r.of, Existing)
      BY <1>0, <3>1, ProposedAgain, ProposalsAre
    <3>3. \A s \in Sections : /\ first'[s] \in {Nothing, Propose(s, Existing)}
                              /\ first[s] # Nothing => first'[s] # Nothing
      BY <1>0, <2>1, <3>1, <3>2 DEF OwnContent
    <3>4. \A r \in Proposals : first'[r.of] # Nothing
      BY <2>1, <3>2, RenamesAssumption
    <3>5. QED
      BY <1>0, <2>1, <3>1, <3>2, <3>3, <3>4 DEF OwnContent, Carried
  <2>3. ReportedIsDone' /\ DoneIsPending'
    BY <2>1 DEF ReportedIsDone, DoneIsPending
  <2>4. QED
    BY <1>0, <2>2, <2>3 DEF ContentInv
<1>2. ASSUME NEW r \in todo, IssueRename(r) PROVE ContentInv'
  <2>1. UNCHANGED <<published, todo, done, unsaved, first, disturbed>>
    BY <1>2, IssueRenameIs
  <2>2. DoneIsPending'
    BY <1>0, <2>1 DEF DoneIsPending
  <2>3. CASE staged' = staged
    BY <1>0, <2>1, <2>2, <2>3 DEF ContentInv, OwnContent, Carried, ReportedIsDone
  <2>4. ASSUME NEW s \in Denoted(r.internal), staged' = [staged EXCEPT ![s] = r.to]
        PROVE  ContentInv'
    <3>1. s \in Sections /\ staged[s] = Anonymous /\ staged \in [Sections -> LabelSet]
      BY <1>0 DEF Denoted, There, Present, RenameInv, TypeOK, LabelSet
    <3>2. staged'[s] = r.to /\ \A q \in Sections \ {s} : staged'[q] = staged[q]
      BY <2>4, <3>1
    <3>3. OwnContent'
      <4>1. SUFFICES ASSUME ~disturbed PROVE OwnContent'
        BY <2>1 DEF OwnContent
      <4>2. s = r.of
        BY <1>0, <4>1, DenotedIs
      <4>3. /\ Existing[s] = Anonymous /\ first[s] # Nothing
            /\ r.to = Propose(s, Existing)
        BY <1>0, <4>1, <4>2 DEF OwnContent
      <4>4. Carried(Existing, staged')
        BY <1>0, <3>2, <4>1, <4>3 DEF OwnContent, Carried
      <4>5. \A q \in Sections : staged'[q] # Existing[q] => first[q] # Nothing
        BY <1>0, <3>2, <4>1, <4>3 DEF OwnContent
      <4>6. QED
        BY <1>0, <2>1, <4>1, <4>4, <4>5 DEF OwnContent
    <3>4. ReportedIsDone'
      <4>1. ASSUME ~disturbed, NEW d \in done PROVE staged'[d.of] = d.to
        <5>1. d.of \in Sections /\ staged[d.of] = d.to /\ d.to \in Name
          BY <1>0, <4>1 DEF ReportedIsDone, ProposalsOK
        <5>2. d.of # s
          BY <3>1, <5>1, SectionsAssumption
        <5>3. QED
          BY <3>2, <5>1, <5>2
      <4>2. QED
        BY <2>1, <4>1 DEF ReportedIsDone
    <3>5. QED
      BY <1>0, <2>2, <3>3, <3>4 DEF ContentInv
  <2>5. QED
    BY <1>2, <2>3, <2>4, IssueRenameIs
<1>3. ASSUME NEW r \in todo, Verify(r) PROVE ContentInv'
  <2>1. UNCHANGED <<staged, published, first, disturbed>>
    BY <1>3, VerifyIs
  <2>2. CASE /\ ReadsBack(r)
             /\ done' = done \cup {r}
             /\ unsaved' = IF r.internal.package \in Range(unsaved) THEN unsaved
                           ELSE Append(unsaved, r.internal.package)
             /\ todo' = todo \ {r}
    <3>1. OwnContent'
      BY <1>0, <2>1, <2>2 DEF OwnContent
    <3>2. ReportedIsDone'
      BY <1>0, <2>1, <2>2, ReadBackIs DEF ReportedIsDone
    <3>3. Range(unsaved') = Range(unsaved) \cup {r.internal.package}
      <4>1. unsaved \in Seq(Packages)
        BY <1>0 DEF RenameInv, TypeOK
      <4>2. Range(Append(unsaved, r.internal.package)) = Range(unsaved) \cup {r.internal.package}
        <5> DEFINE u == Append(unsaved, r.internal.package)
        <5>1. /\ DOMAIN u = DOMAIN unsaved \cup {Len(unsaved) + 1}
              /\ u[Len(unsaved) + 1] = r.internal.package
              /\ \A i \in DOMAIN unsaved : u[i] = unsaved[i]
          BY <4>1
        <5> HIDE DEF u
        <5>2. QED
          BY <5>1 DEF Range
      <4>3. QED
        BY <2>2, <4>2
    <3>4. DoneIsPending'
      BY <1>0, <2>1, <2>2, <3>3 DEF DoneIsPending
    <3>5. QED
      BY <1>0, <3>1, <3>2, <3>4 DEF ContentInv
  <2>3. CASE UNCHANGED <<todo, done, unsaved>>
    BY <1>0, <2>1, <2>3 DEF ContentInv, OwnContent, ReportedIsDone, DoneIsPending
  <2>4. QED
    BY <1>3, <2>2, <2>3, VerifyIs
<1>4. CASE Commit
  <2>1. UNCHANGED <<staged, todo, done, first, disturbed>>
    BY <1>4, CommitIs
  <2>2. OwnContent' /\ ReportedIsDone'
    BY <1>0, <2>1 DEF OwnContent, ReportedIsDone
  <2>3. \A s \in Sections :
          \/ published'[s] = published[s]
          \/ published'[s] = staged[s]
    BY <1>4, CommitIs
  <2>4. \A d \in done :
          /\ d.of \in Sections /\ d.internal.package = PackageOf[d.of]
          /\ ~disturbed => staged[d.of] = d.to
    BY <1>0 DEF ProposalsOK, ReportedIsDone
  <2>5. DoneIsPending'
    <3>1. CASE unsaved' = unsaved
      BY <1>0, <2>1, <2>3, <2>4, <3>1 DEF DoneIsPending
    <3>2. CASE /\ unsaved' = Tail(unsaved)
               /\ published' = [s \in Sections |->
                                  IF PackageOf[s] = Head(unsaved) THEN staged[s]
                                  ELSE published[s]]
      <4>1. unsaved \in Seq(Packages) /\ unsaved # <<>>
        BY <1>0, <1>4, CommitIs DEF RenameInv, TypeOK, CommitsOK
      <4>2. \A p \in Range(unsaved) : p = Head(unsaved) \/ p \in Range(Tail(unsaved))
        <5>1. ASSUME NEW i \in DOMAIN unsaved, i # 1
              PROVE  unsaved[i] \in Range(Tail(unsaved))
          <6>1. i - 1 \in DOMAIN Tail(unsaved) /\ Tail(unsaved)[i - 1] = unsaved[i]
            BY <4>1, <5>1
          <6>2. QED
            BY <6>1 DEF Range
        <5>2. Head(unsaved) = unsaved[1]
          BY <4>1
        <5>3. QED
          BY <5>1, <5>2 DEF Range
      <4>3. QED
        BY <1>0, <2>1, <2>3, <2>4, <3>2, <4>2 DEF DoneIsPending
    <3>3. QED
      BY <1>4, <3>1, <3>2, CommitIs
  <2>6. QED
    BY <1>0, <2>2, <2>5 DEF ContentInv
<1>5. CASE ForeignDelete \/ DeviceRestart
  <2>1. disturbed' = TRUE
    BY <1>5, MishapIs
  <2>2. QED
    BY <1>0, <2>1 DEF ContentInv, OwnContent, ReportedIsDone, DoneIsPending
<1>6. CASE UNCHANGED vars
  BY <1>0, <1>6 DEF vars, deviceVars, ContentInv, OwnContent, ReportedIsDone, DoneIsPending
<1>7. QED
  BY <1>1, <1>2, <1>3, <1>4, <1>5, <1>6 DEF Next, Progress

LEMMA ContentInvariance == Spec => []ContentInv
<1>1. Init => ContentInv
  BY ContentInvInit
<1>2. ContentInv /\ [Next]_vars => ContentInv'
  BY ContentInvStep
<1>3. QED
  BY <1>1, <1>2, PTL DEF Spec

(* On a device nobody else touches, a section is called what the first     *)
(* batch proposed, however many batches it took to name it: the names that *)
(* an interrupted batch gave do not change what the rest is proposed.      *)
THEOREM NamesAreOwnContent == Spec => []NamedAfterOwnContent
<1>1. ContentInv => NamedAfterOwnContent
  BY DEF ContentInv, OwnContent, NamedAfterOwnContent, Carried, There, Present
<1>2. QED
  BY <1>1, ContentInvariance, PTL

(* What a batch lists as done bears its name, although the device may      *)
(* answer ok to a rename it did not make: only the renamed section can     *)
(* answer to the new name.                                                 *)
THEOREM ReportedRenamesAreDone == Spec => []ReportedIsDone
<1>1. ContentInv => ReportedIsDone
  BY DEF ContentInv
<1>2. QED
  BY <1>1, ContentInvariance, PTL

(* What a batch that succeeded lists as done is on flash, in each of the   *)
(* packages it touched.                                                    *)
THEOREM AppliedRenamesArePublished == Spec => []AppliedIsPublished
<1>1. ContentInv => AppliedIsPublished
  <2>1. SUFFICES ASSUME ContentInv, ~disturbed, pc = "applied", NEW r \in done
                 PROVE  published[r.of] = r.to
    BY DEF AppliedIsPublished
  <2>2. unsaved = <<>>
    BY <2>1 DEF ContentInv, RenameInv, CommitsOK
  <2>3. Range(unsaved) = {}
    BY <2>2 DEF Range
  <2>4. QED
    BY <2>1, <2>3 DEF ContentInv, DoneIsPending
<1>2. QED
  BY <1>1, ContentInvariance, PTL

=============================================================================
