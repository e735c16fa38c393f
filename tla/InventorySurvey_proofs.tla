------------------------ MODULE InventorySurvey_proofs ------------------------
(***************************************************************************)
(* What the survey promises, for every router: any packages, sections,     *)
(* options and secrets, any number of edits while it is read.              *)
(***************************************************************************)
EXTENDS InventorySurvey, TLAPS, FiniteSetTheorems, FunctionTheorems,
        WellFoundedInduction

-----------------------------------------------------------------------------
(***************************************************************************)
(* Counting.                                                               *)
(***************************************************************************)

(* A set has as many elements as what they are mapped to one by one.       *)
LEMMA ImageCount ==
  ASSUME NEW S, IsFiniteSet(S), NEW f,
         \A a, b \in S : f[a] = f[b] => a = b
  PROVE  /\ IsFiniteSet({f[x] : x \in S})
         /\ Cardinality({f[x] : x \in S}) = Cardinality(S)
<1> DEFINE T == {f[x] : x \in S}
           g == [x \in S |-> f[x]]
<1>1. g \in [S -> T] /\ \A a, b \in S : g[a] = g[b] => a = b
  OBVIOUS
<1>2. \A t \in T : \E x \in S : g[x] = t
  OBVIOUS
<1>3. g \in Bijection(S, T)
  <2> HIDE DEF g, T
  <2> QED
    BY <1>1, <1>2, Fun_IsBij
<1>4. ExistsBijection(S, T)
  BY <1>3 DEF ExistsBijection
<1> HIDE DEF T
<1>5. IsFiniteSet(T) /\ Cardinality(T) = Cardinality(S)
  BY <1>4, FS_Bijection
<1> USE DEF T
<1>6. QED
  BY <1>5

LEMMA UpTo ==
  ASSUME NEW n \in Nat
  PROVE  IsFiniteSet(1 .. n) /\ Cardinality(1 .. n) = n
<1>1. 1 \in Int /\ n \in Int /\ IF 1 > n THEN n = 0 ELSE n - 1 + 1 = n
  OBVIOUS
<1>2. QED
  BY <1>1, FS_Interval

(* A body whose sections are numbered is read in the order of the numbers. *)
LEMMA IndexedBody ==
  ASSUME NEW n \in Nat, NEW R, R = [i \in 1 .. n |-> R[i]],
         \A i \in 1 .. n : R[i].index = i - 1
  PROVE  ByIndex(ToSet(R)) = R
<1> DEFINE B == ToSet(R)
           Below(i) == {q \in B : q.index < R[i].index}
<1>1. DOMAIN R = 1 .. n /\ B = {R[i] : i \in 1 .. n}
  BY DEF ToSet
<1>2. \A i, j \in 1 .. n : R[i] = R[j] => i = j
  <2>1. \A i, j \in 1 .. n : R[i].index = R[j].index => i = j
    OBVIOUS
  <2>2. QED
    BY <2>1
<1>3. Cardinality(B) = n
  <2>1. IsFiniteSet(1 .. n) /\ Cardinality(1 .. n) = n
    BY UpTo
  <2>2. Cardinality({R[i] : i \in 1 .. n}) = Cardinality(1 .. n)
    <3> DEFINE S == 1 .. n
    <3>1. IsFiniteSet(S) /\ \A a, b \in S : R[a] = R[b] => a = b
      BY <1>2, <2>1
    <3> HIDE DEF S
    <3>2. Cardinality({R[i] : i \in S}) = Cardinality(S)
      BY <3>1, ImageCount
    <3> USE DEF S
    <3>3. QED
      BY <3>2
  <2>3. QED
    BY <1>1, <2>1, <2>2
<1>4. ASSUME NEW i \in 1 .. n
      PROVE  Cardinality(Below(i)) = i - 1
  <2> DEFINE S == 1 .. i - 1
  <2>1. Below(i) = {R[j] : j \in S}
    <3>1. \A j \in 1 .. n : R[j].index < R[i].index <=> j \in S
      OBVIOUS
    <3>2. QED
      BY <1>1, <3>1
  <2>2. IsFiniteSet(S) /\ Cardinality(S) = i - 1
    <3>1. i - 1 \in Nat
      OBVIOUS
    <3>2. QED
      BY <3>1, UpTo
  <2>3. \A a, b \in S : R[a] = R[b] => a = b
    BY <1>2
  <2> HIDE DEF S
  <2>4. Cardinality({R[j] : j \in S}) = Cardinality(S)
    BY <2>2, <2>3, ImageCount
  <2>5. QED
    BY <2>1, <2>2, <2>4
<1>5. ASSUME NEW i \in 1 .. n
      PROVE  (CHOOSE raw \in B : Cardinality({q \in B : q.index < raw.index}) = i - 1) = R[i]
  <2>1. R[i] \in B /\ Cardinality({q \in B : q.index < R[i].index}) = i - 1
    BY <1>1, <1>4
  <2>2. ASSUME NEW raw \in B, Cardinality({q \in B : q.index < raw.index}) = i - 1
        PROVE  raw = R[i]
    <3>1. PICK k \in 1 .. n : raw = R[k]
      BY <1>1
    <3>2. Cardinality(Below(k)) = k - 1
      BY <1>4
    <3>3. k - 1 = i - 1
      BY <2>2, <3>1, <3>2
    <3>4. QED
      BY <3>1, <3>3
  <2> HIDE DEF B
  <2>3. QED
    BY <2>1, <2>2
<1>6. ByIndex(B) = [i \in 1 .. n |-> R[i]]
  <2> HIDE DEF B, Below
  <2>1. QED
    BY <1>3, <1>5 DEF ByIndex
<1>7. QED
  BY <1>6

-----------------------------------------------------------------------------
(***************************************************************************)
(* What an answer may hold.                                                *)
(***************************************************************************)

(* A section as uci may answer it: it is one of those the package may      *)
(* have, called as uci calls it, and set as it may be set.                 *)
RawFields == {"id", "name", "type", "index", "anonymous", "options", "lists"}

Answerable(p, raw, decoded) ==
  /\ DOMAIN raw = RawFields
  /\ \E k \in Known(p) :
       /\ k.id = raw.id /\ raw.name = Name(k, raw.index + 1) /\ k.lists = raw.lists
       /\ raw.anonymous = IF decoded THEN k.label = "" ELSE Undecodable
  /\ \A o \in DOMAIN raw.options : <<o, raw.options[o]>> \in Settings(p)

(* The sections of one answer, in file order. *)
Reading(p, R, decoded) ==
  /\ Len(R) \in 0 .. Longest /\ R = [i \in 1 .. Len(R) |-> R[i]]
  /\ \A i \in 1 .. Len(R) : R[i].index = i - 1 /\ Answerable(p, R[i], decoded)
  /\ \A i, j \in 1 .. Len(R) : R[i].id = R[j].id => i = j

LEMMA LongestIs == Longest \in Nat
  BY RouterAssumption

LEMMA ReadingIs ==
  ASSUME NEW p, NEW decoded, NEW R, Reading(p, R, decoded)
  PROVE  /\ Len(R) \in Nat /\ Len(R) <= Longest /\ DOMAIN R = 1 .. Len(R)
         /\ ToSet(R) = {R[i] : i \in 1 .. Len(R)}
         /\ \A i \in 1 .. Len(R) : R[i].index = i - 1
         /\ ByIndex(ToSet(R)) = R
<1>1. /\ Len(R) \in Nat /\ Len(R) <= Longest /\ DOMAIN R = 1 .. Len(R)
      /\ \A i \in 1 .. Len(R) : R[i].index = i - 1
  BY LongestIs DEF Reading
<1>2. R = [i \in 1 .. Len(R) |-> R[i]]
  BY DEF Reading
<1>3. ByIndex(ToSet(R)) = R
  BY <1>1, <1>2, IndexedBody
<1>4. QED
  BY <1>1, <1>3 DEF ToSet

(* A section that is not taken for anonymous bears its label. *)
Labelled(p, raw) == \E k \in Known(p) : k.id = raw.id /\ k.label # "" /\ raw.name = k.label

LEMMA NamedIs ==
  ASSUME NEW p \in PackageNames, NEW decoded \in BOOLEAN, NEW R, Reading(p, R, decoded),
         NEW i \in 1 .. Len(R)
  PROVE  /\ IsAnonymous(R[i]) \in BOOLEAN
         /\ ~IsAnonymous(R[i]) => Labelled(p, R[i])
<1>1. /\ Len(R) \in Nat /\ Len(R) <= Longest /\ Longest \in Nat
      /\ R[i].index = i - 1 /\ Answerable(p, R[i], decoded)
  BY LongestIs DEF Reading
<1>2. R[i].index + 1 = i /\ i \in 1 .. Longest
  BY <1>1
<1>3. PICK k \in Known(p) :
        /\ k.id = R[i].id /\ R[i].name = Name(k, i)
        /\ R[i].anonymous = IF decoded THEN k.label = "" ELSE Undecodable
  BY <1>1, <1>2 DEF Answerable
<1>4. CASE decoded
  <2>1. R[i].anonymous = (k.label = "") /\ R[i].anonymous # Undecodable
    BY <1>3, <1>4, Sentinels
  <2>2. IsAnonymous(R[i]) = (k.label = "")
    BY <2>1 DEF IsAnonymous
  <2>3. QED
    BY <1>3, <2>2 DEF Name, Labelled
<1>5. CASE ~decoded
  <2>1. IsAnonymous(R[i]) = IsUciInternalName(R[i].name)
    BY <1>3, <1>5 DEF IsAnonymous
  <2>2. IsUciInternalName(R[i].name) \in BOOLEAN
    BY DEF IsUciInternalName
  <2>3. k.label = "" => IsUciInternalName(R[i].name)
    BY <1>2, <1>3, GeneratedNames DEF Name
  <2>4. QED
    BY <1>3, <2>1, <2>2, <2>3 DEF Name, Labelled
<1>6. QED
  BY <1>4, <1>5

(* No two sections of an answer have one name. *)
LEMMA NamesDiffer ==
  ASSUME NEW p \in PackageNames, NEW decoded \in BOOLEAN, NEW R, Reading(p, R, decoded),
         NEW i \in 1 .. Len(R), NEW j \in 1 .. Len(R), R[i].name = R[j].name
  PROVE  i = j
<1>1. /\ Len(R) \in Nat /\ Len(R) <= Longest /\ Longest \in Nat
      /\ R[i].index = i - 1 /\ Answerable(p, R[i], decoded)
      /\ R[j].index = j - 1 /\ Answerable(p, R[j], decoded)
  BY LongestIs DEF Reading
<1>2. R[i].index + 1 = i /\ i \in 1 .. Longest /\ R[j].index + 1 = j /\ j \in 1 .. Longest
  BY <1>1
<1>3. PICK k \in Known(p) : k.id = R[i].id /\ R[i].name = Name(k, i)
  BY <1>1, <1>2 DEF Answerable
<1>4. PICK l \in Known(p) : l.id = R[j].id /\ R[j].name = Name(l, j)
  BY <1>1, <1>2 DEF Answerable
<1>5. CASE k.label = "" /\ l.label = ""
  BY <1>2, <1>3, <1>4, <1>5, GeneratedNames DEF Name
<1>6. CASE k.label # "" /\ l.label # ""
  <2>1. k.id = l.id
    BY <1>3, <1>4, <1>6, RouterAssumption DEF Name
  <2>2. QED
    BY <1>3, <1>4, <2>1 DEF Reading
<1>7. CASE (k.label = "") # (l.label = "")
  BY <1>2, <1>3, <1>4, <1>7, GeneratedNames DEF Name
<1>8. QED
  BY <1>5, <1>6, <1>7

-----------------------------------------------------------------------------
(***************************************************************************)
(* Addresses.                                                              *)
(***************************************************************************)

(* Of a type, uci counts the sections before one as parse_package does.    *)
LEMMA TypeIndexIs ==
  ASSUME NEW p \in PackageNames, NEW decoded \in BOOLEAN, NEW R, Reading(p, R, decoded),
         NEW k \in 1 .. Len(R)
  PROVE  Cardinality({q \in ToSet(R) : q.type = R[k].type /\ q.index < R[k].index})
           = TypeIndex(R, k)
<1> DEFINE S == {j \in 1 .. k - 1 : R[j].type = R[k].type}
<1>1. /\ Len(R) \in Nat /\ DOMAIN R = 1 .. Len(R)
      /\ \A i \in 1 .. Len(R) : R[i].index = i - 1
  BY LongestIs DEF Reading
<1>2. IsFiniteSet(S)
  <2>1. k - 1 \in Nat /\ S \in SUBSET (1 .. k - 1)
    OBVIOUS
  <2> HIDE DEF S
  <2>2. QED
    BY <2>1, UpTo, FS_Subset
<1>3. {q \in ToSet(R) : q.type = R[k].type /\ q.index < R[k].index} = {R[j] : j \in S}
  <2>1. \A j \in 1 .. Len(R) : R[j].index < R[k].index <=> j \in 1 .. k - 1
    BY <1>1
  <2>2. 1 .. k - 1 \subseteq 1 .. Len(R)
    BY <1>1
  <2>3. ToSet(R) = {R[j] : j \in 1 .. Len(R)}
    BY <1>1 DEF ToSet
  <2>4. QED
    BY <2>1, <2>2, <2>3
<1>4. \A a, b \in S : R[a] = R[b] => a = b
  <2>1. \A a, b \in 1 .. Len(R) : R[a].index = R[b].index => a = b
    BY <1>1
  <2>2. S \subseteq 1 .. Len(R)
    BY <1>1
  <2>3. QED
    BY <2>1, <2>2
<1>5. TypeIndex(R, k) = Cardinality(S)
  BY DEF TypeIndex
<1> HIDE DEF S
<1>6. Cardinality({R[j] : j \in S}) = Cardinality(S)
  BY <1>2, <1>4, ImageCount
<1>7. QED
  BY <1>3, <1>5, <1>6

(* Two sections of one type have different indexes. *)
LEMMA TypeIndexesDiffer ==
  ASSUME NEW p \in PackageNames, NEW decoded \in BOOLEAN, NEW R, Reading(p, R, decoded),
         NEW k \in 1 .. Len(R), NEW l \in 1 .. Len(R),
         R[k].type = R[l].type, TypeIndex(R, k) = TypeIndex(R, l)
  PROVE  k = l
<1> DEFINE S(i) == {j \in 1 .. i - 1 : R[j].type = R[i].type}
<1>1. ASSUME NEW a \in 1 .. Len(R), NEW b \in 1 .. Len(R), a < b, R[a].type = R[b].type
      PROVE  TypeIndex(R, a) # TypeIndex(R, b)
  <2>1. S(a) \in SUBSET S(b) /\ a \in S(b) /\ a \notin S(a)
    BY <1>1
  <2>2. IsFiniteSet(S(b))
    <3>1. b - 1 \in Nat /\ S(b) \in SUBSET (1 .. b - 1)
      OBVIOUS
    <3> HIDE DEF S
    <3>2. QED
      BY <3>1, UpTo, FS_Subset
  <2>3. TypeIndex(R, a) = Cardinality(S(a)) /\ TypeIndex(R, b) = Cardinality(S(b))
    BY DEF TypeIndex
  <2> HIDE DEF S
  <2>4. Cardinality(S(b)) = Cardinality(S(a)) => S(b) = S(a)
    BY <2>1, <2>2, FS_Subset
  <2>5. QED
    BY <2>1, <2>3, <2>4
<1>2. k \in Int /\ l \in Int
  OBVIOUS
<1>3. QED
  BY <1>1, <1>2

(* uci resolves the address of a section to that section and no other.     *)
LEMMA AddressResolves ==
  ASSUME NEW p \in PackageNames, NEW decoded \in BOOLEAN, NEW R, Reading(p, R, decoded),
         NEW k \in 1 .. Len(R)
  PROVE  At(ToSet(R), AsUci(ParseSection(p, R, k))) = {R[k]}
<1> DEFINE s == ParseSection(p, R, k)
<1>0. IsAnonymous(R[k]) \in BOOLEAN
  BY NamedIs
<1>1. ToSet(R) = {R[j] : j \in 1 .. Len(R)}
  BY ReadingIs
<1>2. /\ s.anonymous = IsAnonymous(R[k]) /\ s.type = R[k].type /\ s.name = R[k].name
      /\ s.typeIndex = TypeIndex(R, k)
  BY DEF ParseSection
<1> HIDE DEF s
<1>3. CASE IsAnonymous(R[k])
  <2> DEFINE a == <<R[k].type, TypeIndex(R, k)>>
  <2>1. AsUci(s) = a
    BY <1>2, <1>3 DEF AsUci
  <2>2. Len(a) = 2 /\ a[1] = R[k].type /\ a[2] = TypeIndex(R, k)
    OBVIOUS
  <2> HIDE DEF a
  <2>3. ASSUME NEW l \in 1 .. Len(R), R[l].type = R[k].type
        PROVE  Cardinality({q \in ToSet(R) : q.type = R[l].type /\ q.index < R[l].index})
                 = TypeIndex(R, k) <=> l = k
    BY <2>3, TypeIndexIs, TypeIndexesDiffer
  <2>4. QED
    BY <1>1, <2>1, <2>2, <2>3 DEF At, s
<1>4. CASE ~IsAnonymous(R[k])
  <2> DEFINE a == <<R[k].name>>
  <2>1. AsUci(s) = a
    BY <1>2, <1>4 DEF AsUci
  <2>2. Len(a) = 1 /\ a[1] = R[k].name
    OBVIOUS
  <2> HIDE DEF a
  <2>3. \A l \in 1 .. Len(R) : R[l].name = R[k].name <=> l = k
    BY NamesDiffer
  <2>4. QED
    BY <1>1, <2>1, <2>2, <2>3 DEF At, s
<1>5. QED
  BY <1>0, <1>3, <1>4

-----------------------------------------------------------------------------
(***************************************************************************)
(* The survey of the answers.                                              *)
(***************************************************************************)

LEMMA LeastIs ==
  ASSUME NEW T \in SUBSET Nat, T # {}
  PROVE  \E x \in T : \A y \in T : x <= y
<1> DEFINE R == OpToRel(<, Nat)
<1>1. IsWellFoundedOn(R, Nat)
  BY NatLessThanWellFounded, Zenon
<1>2. PICK x \in T : \A y \in T : ~ (<<y, x>> \in R)
  <2> HIDE DEF R
  <2> QED
    BY <1>1, WFMin
<1>3. \A y \in T : ~ (y < x)
  BY <1>2 DEF OpToRel
<1>4. QED
  BY <1>3

LEMMA Disjoint ==
  /\ Managed \cap SecretBearing = {}
  /\ Managed \cap DeviceOwned = {}
  /\ SecretBearing \cap DeviceOwned = {}
<1>1. Managed \cap SecretBearing = {}
  BY DEF Managed, SecretBearing
<1>2. Managed \cap DeviceOwned = {}
  BY DEF Managed, DeviceOwned, FirmwareOwned, VendorOwned, FoundLater
<1>3. SecretBearing \cap DeviceOwned = {}
  BY DEF SecretBearing, DeviceOwned, FirmwareOwned, VendorOwned, FoundLater
<1>4. QED
  BY <1>1, <1>2, <1>3

(* The catalog says of a package what the lists say it is in. *)
LEMMA ClassifyIs ==
  ASSUME NEW p
  PROVE  /\ Classify(p) \in {"managed", "secret", "device", "unclassified"}
         /\ Classify(p) = "managed" <=> p \in Managed
         /\ Classify(p) = "unclassified" <=> p \notin Classified
<1>1. CASE p \in Managed
  BY <1>1, Disjoint DEF Classify, Classified
<1>2. CASE p \in SecretBearing
  BY <1>2, Disjoint DEF Classify, Classified
<1>3. CASE p \in DeviceOwned
  BY <1>3, Disjoint DEF Classify, Classified
<1>4. CASE p \notin Classified
  BY <1>4 DEF Classify, Classified
<1>5. QED
  BY <1>1, <1>2, <1>3, <1>4 DEF Classified

(* The sections of the i-th answer, in file order. *)
FileOf(A, i) == ByIndex(A[i].body)

(* What the adapter may have answered so far: of each package once. *)
Answered(A, decoded) ==
  /\ Len(A) \in Nat /\ A = [i \in 1 .. Len(A) |-> A[i]]
  /\ \A i \in 1 .. Len(A) :
       /\ A[i].name \in PackageNames
       /\ HasValues(A[i]) =>
            /\ A[i] = [name |-> A[i].name, body |-> A[i].body]
            /\ A[i].body = ToSet(FileOf(A, i)) /\ Reading(A[i].name, FileOf(A, i), decoded)
  /\ \A i, j \in 1 .. Len(A) : A[i].name = A[j].name => i = j

LEMMA AnsweredIs ==
  ASSUME NEW A, NEW decoded, Answered(A, decoded)
  PROVE  Len(A) \in Nat /\ DOMAIN A = 1 .. Len(A)
  BY DEF Answered

(* An inventory is of answers that are all well, and of every one.         *)
Surveyed(A, decoded) ==
  /\ Survey(A).refused = "none"
  /\ Survey(A).packages = [i \in 1 .. Len(A) |-> ParsePackage(A[i].name, A[i].body)]
  /\ \A i \in 1 .. Len(A) :
       /\ A[i].name \in PackageNames \cap Classified
       /\ HasValues(A[i])
       /\ A[i].body = ToSet(FileOf(A, i)) /\ Reading(A[i].name, FileOf(A, i), decoded)
       /\ A[i].name \in Managed => \A raw \in A[i].body : SecretNames(raw) = {}

(* The survey refuses exactly what it should. *)
LEMMA SurveyIs ==
  ASSUME NEW A, Len(A) \in Nat, DOMAIN A = 1 .. Len(A)
  PROVE  /\ Survey(A).refused = "none" <=>
              \A i \in 1 .. Len(A) :
                /\ A[i].name \in Classified /\ HasValues(A[i])
                /\ A[i].name \in Managed => \A raw \in A[i].body : SecretNames(raw) = {}
         /\ Survey(A).refused = "none" =>
              Survey(A).packages = [i \in 1 .. Len(A) |-> ParsePackage(A[i].name, A[i].body)]
         /\ Survey(A).refused = "unclassified" =>
              Survey(A).packages = {A[i].name : i \in 1 .. Len(A)} \ Classified
<1> DEFINE refused == {i \in 1 .. Len(A) : Refusal(A[i]) # "none"}
           least == CHOOSE i \in refused : \A j \in refused : i <= j
<1>1. Unclassified(A) = {A[i].name : i \in 1 .. Len(A)} \ Classified
  BY ClassifyIs DEF Unclassified
<1>2. \A i \in 1 .. Len(A) :
        /\ Refusal(A[i]) \in {"malformed", "managed package holds a secret", "none"}
        /\ Refusal(A[i]) = "none" <=>
             /\ HasValues(A[i])
             /\ A[i].name \in Managed => \A raw \in A[i].body : SecretNames(raw) = {}
  BY ClassifyIs DEF Refusal, HoldsSecret
<1>3. Unclassified(A) = {} <=> \A i \in 1 .. Len(A) : A[i].name \in Classified
  BY <1>1
<1>4. refused = {} <=>
        \A i \in 1 .. Len(A) :
          /\ HasValues(A[i])
          /\ A[i].name \in Managed => \A raw \in A[i].body : SecretNames(raw) = {}
  BY <1>2
<1>5. refused # {} => least \in refused
  <2>1. refused \in SUBSET Nat
    OBVIOUS
  <2> HIDE DEF refused
  <2>2. QED
    BY <2>1, LeastIs
<1>6. refused # {} =>
        Refusal(A[least]) \in {"malformed", "managed package holds a secret"}
  <2>1. refused # {} => least \in 1 .. Len(A) /\ Refusal(A[least]) # "none"
    BY <1>5
  <2> HIDE DEF refused, least
  <2>2. QED
    BY <1>2, <2>1
<1>7. Survey(A) =
        IF Unclassified(A) # {}
          THEN [refused |-> "unclassified", packages |-> Unclassified(A)]
        ELSE IF refused # {}
          THEN [refused |-> Refusal(A[least]), packages |-> {A[least].name}]
        ELSE [refused  |-> "none",
              packages |-> [i \in 1 .. Len(A) |-> ParsePackage(A[i].name, A[i].body)]]
  BY DEF Survey
<1> HIDE DEF refused, least
<1>8. /\ Survey(A).refused = "none" <=> Unclassified(A) = {} /\ refused = {}
      /\ Survey(A).refused = "none" =>
           Survey(A).packages = [i \in 1 .. Len(A) |-> ParsePackage(A[i].name, A[i].body)]
      /\ Survey(A).refused = "unclassified" => Survey(A).packages = Unclassified(A)
  <2>1. CASE Unclassified(A) # {}
    <3>1. Survey(A) = [refused |-> "unclassified", packages |-> Unclassified(A)]
      BY <1>7, <2>1
    <3>2. QED
      BY <2>1, <3>1
  <2>2. CASE Unclassified(A) = {} /\ refused # {}
    <3>1. Survey(A) = [refused |-> Refusal(A[least]), packages |-> {A[least].name}]
      BY <1>7, <2>2
    <3>2. Survey(A).refused = Refusal(A[least])
      BY <3>1
    <3>3. QED
      BY <1>6, <2>2, <3>2
  <2>3. CASE Unclassified(A) = {} /\ refused = {}
    <3>1. Survey(A) = [refused |-> "none",
             packages |-> [i \in 1 .. Len(A) |-> ParsePackage(A[i].name, A[i].body)]]
      BY <1>7, <2>3
    <3>2. QED
      BY <2>3, <3>1
  <2>4. QED
    BY <2>1, <2>2, <2>3
<1>9. QED
  BY <1>1, <1>3, <1>4, <1>8

LEMMA SurveyedIs ==
  ASSUME NEW A, NEW decoded, Answered(A, decoded), Survey(A).refused = "none"
  PROVE  Surveyed(A, decoded)
<1>1. Len(A) \in Nat /\ DOMAIN A = 1 .. Len(A)
  BY AnsweredIs
<1>2. \A i \in 1 .. Len(A) :
        /\ A[i].name \in Classified /\ HasValues(A[i])
        /\ A[i].name \in Managed => \A raw \in A[i].body : SecretNames(raw) = {}
  BY <1>1, SurveyIs
<1>3. Survey(A).packages = [i \in 1 .. Len(A) |-> ParsePackage(A[i].name, A[i].body)]
  BY <1>1, SurveyIs
<1>4. \A i \in 1 .. Len(A) :
        /\ A[i].name \in PackageNames
        /\ HasValues(A[i]) =>
             A[i].body = ToSet(FileOf(A, i)) /\ Reading(A[i].name, FileOf(A, i), decoded)
  BY DEF Answered
<1>5. QED
  BY <1>2, <1>3, <1>4 DEF Surveyed

(* Where the sections are: the j-th section of the i-th answer.            *)
Spots(A) ==
  {s \in (1 .. Len(A)) \X (1 .. Longest) : s[2] <= Len(FileOf(A, s[1]))}

RawAt(A, s) == FileOf(A, s[1])[s[2]]
ParsedAt(A, s) == ParseSection(A[s[1]].name, FileOf(A, s[1]), s[2])
SpotsOf(A, disposition) == {s \in Spots(A) : Classify(A[s[1]].name) = disposition}

(* An inventory of files whose sections are numbered. *)
Laid(A) ==
  /\ Len(A) \in Nat /\ DOMAIN A = 1 .. Len(A)
  /\ \A i \in 1 .. Len(A) :
       /\ Len(FileOf(A, i)) \in Nat /\ Len(FileOf(A, i)) <= Longest
       /\ DOMAIN FileOf(A, i) = 1 .. Len(FileOf(A, i))
  /\ Survey(A).packages = [i \in 1 .. Len(A) |-> ParsePackage(A[i].name, A[i].body)]

LEMMA SurveyedIsLaid ==
  ASSUME NEW A, NEW decoded, Answered(A, decoded), Surveyed(A, decoded)
  PROVE  Laid(A)
<1>1. Len(A) \in Nat /\ DOMAIN A = 1 .. Len(A)
  BY AnsweredIs
<1>2. ASSUME NEW i \in 1 .. Len(A)
      PROVE  /\ Len(FileOf(A, i)) \in Nat /\ Len(FileOf(A, i)) <= Longest
             /\ DOMAIN FileOf(A, i) = 1 .. Len(FileOf(A, i))
  <2>1. Reading(A[i].name, FileOf(A, i), decoded)
    BY DEF Surveyed
  <2>2. QED
    BY <2>1, ReadingIs
<1>3. Survey(A).packages = [i \in 1 .. Len(A) |-> ParsePackage(A[i].name, A[i].body)]
  BY DEF Surveyed
<1>4. QED
  BY <1>1, <1>2, <1>3 DEF Laid

LEMMA LaidSpotsAre ==
  ASSUME NEW A, Laid(A)
  PROVE  /\ IsFiniteSet(Spots(A))
         /\ \A s \in Spots(A) :
              /\ s = <<s[1], s[2]>>
              /\ s[1] \in 1 .. Len(A) /\ s[2] \in 1 .. Len(FileOf(A, s[1]))
         /\ \A i \in 1 .. Len(A) : \A j \in 1 .. Len(FileOf(A, i)) : <<i, j>> \in Spots(A)
<1>1. Len(A) \in Nat /\ Longest \in Nat
  BY LongestIs DEF Laid
<1>2. \A i \in 1 .. Len(A) : Len(FileOf(A, i)) \in Nat /\ Len(FileOf(A, i)) <= Longest
  BY DEF Laid
<1>3. IsFiniteSet(Spots(A))
  <2>1. IsFiniteSet((1 .. Len(A)) \X (1 .. Longest))
    BY <1>1, UpTo, FS_Product
  <2>2. Spots(A) \in SUBSET ((1 .. Len(A)) \X (1 .. Longest))
    BY DEF Spots
  <2>3. QED
    BY <2>1, <2>2, FS_Subset
<1>4. \A s \in Spots(A) :
        /\ s = <<s[1], s[2]>>
        /\ s[1] \in 1 .. Len(A) /\ s[2] \in 1 .. Len(FileOf(A, s[1]))
  BY <1>1, <1>2 DEF Spots
<1>5. \A i \in 1 .. Len(A) : \A j \in 1 .. Len(FileOf(A, i)) : <<i, j>> \in Spots(A)
  BY <1>1, <1>2 DEF Spots
<1>6. QED
  BY <1>3, <1>4, <1>5

(* The sections of an inventory. *)
LEMMA LaidSectionsAre ==
  ASSUME NEW A, Laid(A), NEW d
  PROVE  SectionsOf(Survey(A).packages, d) = {ParsedAt(A, s) : s \in SpotsOf(A, d)}
<1> DEFINE inv == Survey(A).packages
           P(i) == ParsePackage(A[i].name, A[i].body)
<1>1. /\ DOMAIN inv = 1 .. Len(A) /\ \A i \in 1 .. Len(A) : inv[i] = P(i)
  BY DEF Laid
<1>2. ASSUME NEW i \in 1 .. Len(A)
      PROVE  /\ DOMAIN FileOf(A, i) = 1 .. Len(FileOf(A, i))
             /\ P(i).disposition = Classify(A[i].name)
             /\ ToSet(P(i).sections) =
                  {ParseSection(A[i].name, FileOf(A, i), j) : j \in 1 .. Len(FileOf(A, i))}
  <2>1. DOMAIN FileOf(A, i) = 1 .. Len(FileOf(A, i))
    BY DEF Laid
  <2>2. P(i).sections = [j \in DOMAIN FileOf(A, i) |-> ParseSection(A[i].name, FileOf(A, i), j)]
    BY DEF ParsePackage, FileOf
  <2>3. QED
    BY <2>1, <2>2 DEF ParsePackage, ToSet
<1> HIDE DEF inv, P
<1>3. ASSUME NEW x
      PROVE  x \in SectionsOf(inv, d) <=>
               \E i \in 1 .. Len(A) :
                 /\ Classify(A[i].name) = d
                 /\ \E j \in 1 .. Len(FileOf(A, i)) : x = ParseSection(A[i].name, FileOf(A, i), j)
  <2>1. {q \in ToSet(inv) : q.disposition = d} =
          {P(i) : i \in {k \in 1 .. Len(A) : Classify(A[k].name) = d}}
    BY <1>1, <1>2 DEF ToSet
  <2>2. SectionsOf(inv, d) =
          UNION {ToSet(p.sections) :
                   p \in {P(i) : i \in {k \in 1 .. Len(A) : Classify(A[k].name) = d}}}
    BY <2>1 DEF SectionsOf
  <2>3. x \in SectionsOf(inv, d) <=>
          \E i \in 1 .. Len(A) : Classify(A[i].name) = d /\ x \in ToSet(P(i).sections)
    BY <2>2
  <2>4. QED
    BY <1>2, <2>3
<1>4. ASSUME NEW s \in SpotsOf(A, d)
      PROVE  ParsedAt(A, s) \in SectionsOf(inv, d)
  <2>1. /\ s[1] \in 1 .. Len(A) /\ s[2] \in 1 .. Len(FileOf(A, s[1]))
        /\ Classify(A[s[1]].name) = d
    BY LaidSpotsAre DEF SpotsOf
  <2>2. QED
    BY <1>3, <2>1 DEF ParsedAt
<1>5. ASSUME NEW x \in SectionsOf(inv, d)
      PROVE  \E s \in SpotsOf(A, d) : x = ParsedAt(A, s)
  <2>1. PICK i \in 1 .. Len(A) :
          /\ Classify(A[i].name) = d
          /\ \E j \in 1 .. Len(FileOf(A, i)) : x = ParseSection(A[i].name, FileOf(A, i), j)
    BY <1>3
  <2> PICK j \in 1 .. Len(FileOf(A, i)) : x = ParseSection(A[i].name, FileOf(A, i), j)
    BY <2>1
  <2>2. <<i, j>> \in Spots(A)
    BY LaidSpotsAre
  <2>3. <<i, j>> \in SpotsOf(A, d) /\ x = ParsedAt(A, <<i, j>>)
    BY <2>1, <2>2 DEF SpotsOf, ParsedAt
  <2>4. QED
    BY <2>3
<1>6. QED
  BY <1>4, <1>5 DEF inv

LEMMA SpotsAre ==
  ASSUME NEW A, NEW decoded, Answered(A, decoded), Surveyed(A, decoded)
  PROVE  /\ IsFiniteSet(Spots(A))
         /\ \A s \in Spots(A) :
              /\ s = <<s[1], s[2]>>
              /\ s[1] \in 1 .. Len(A) /\ s[2] \in 1 .. Len(FileOf(A, s[1]))
         /\ \A i \in 1 .. Len(A) : \A j \in 1 .. Len(FileOf(A, i)) : <<i, j>> \in Spots(A)
<1>1. Laid(A)
  BY SurveyedIsLaid
<1>2. QED
  BY <1>1, LaidSpotsAre

LEMMA SectionsAre ==
  ASSUME NEW A, NEW decoded, Answered(A, decoded), Surveyed(A, decoded), NEW d
  PROVE  SectionsOf(Survey(A).packages, d) = {ParsedAt(A, s) : s \in SpotsOf(A, d)}
<1>1. Laid(A)
  BY SurveyedIsLaid
<1>2. QED
  BY <1>1, LaidSectionsAre

(* What was read, when all of it is well. *)
LEMMA ReadIs ==
  ASSUME Answered(answers, decodes), Surveyed(answers, decodes)
  PROVE  Read = {<<answers[s[1]].name, RawAt(answers, s)>> : s \in Spots(answers)}
<1> DEFINE A == answers
<1>1. DOMAIN A = 1 .. Len(A)
  BY AnsweredIs
<1>2. ASSUME NEW i \in 1 .. Len(A)
      PROVE  HasValues(A[i]) /\ A[i].body = {FileOf(A, i)[j] : j \in 1 .. Len(FileOf(A, i))}
  BY ReadingIs DEF Surveyed
<1>3. Read = UNION {{<<A[i].name, FileOf(A, i)[j]>> : j \in 1 .. Len(FileOf(A, i))} :
                      i \in 1 .. Len(A)}
  BY <1>1, <1>2 DEF Read
<1>4. ASSUME NEW s \in Spots(A)
      PROVE  <<A[s[1]].name, RawAt(A, s)>> \in Read
  <2>1. s[1] \in 1 .. Len(A) /\ s[2] \in 1 .. Len(FileOf(A, s[1]))
    BY SpotsAre
  <2>2. QED
    BY <1>3, <2>1 DEF RawAt
<1>5. ASSUME NEW x \in Read
      PROVE  \E s \in Spots(A) : x = <<A[s[1]].name, RawAt(A, s)>>
  <2>1. PICK i \in 1 .. Len(A) :
          \E j \in 1 .. Len(FileOf(A, i)) : x = <<A[i].name, FileOf(A, i)[j]>>
    BY <1>3
  <2> PICK j \in 1 .. Len(FileOf(A, i)) : x = <<A[i].name, FileOf(A, i)[j]>>
    BY <2>1
  <2>2. <<i, j>> \in Spots(A)
    BY SpotsAre
  <2>3. x = <<A[<<i, j>>[1]].name, RawAt(A, <<i, j>>)>>
    BY DEF RawAt
  <2>4. QED
    BY <2>2, <2>3
<1>6. QED
  BY <1>4, <1>5

-----------------------------------------------------------------------------
(***************************************************************************)
(* The inductive invariant: the router's files are as they may be, so is   *)
(* what was read of them, and what was concluded is what the code computes *)
(* from that.                                                              *)
(***************************************************************************)

(* A file of the router: sections the package may have, each once, set as  *)
(* they may be set.                                                        *)
Filed(p, file) ==
  /\ Len(file) \in 0 .. Longest /\ file = [i \in 1 .. Len(file) |-> file[i]]
  /\ \A i \in 1 .. Len(file) :
       /\ DOMAIN file[i] = Fields
       /\ \E k \in Known(p) : k.id = file[i].id /\ k.label = file[i].label /\ k.lists = file[i].lists
       /\ \A o \in DOMAIN file[i].options : <<o, file[i].options[o]>> \in Settings(p)
  /\ \A i, j \in 1 .. Len(file) : file[i].id = file[j].id => i = j

RouterInv ==
  /\ decodes \in BOOLEAN
  /\ DOMAIN conf \subseteq PackageNames
  /\ \A p \in DOMAIN conf : Filed(p, conf[p])

AnswersInv ==
  /\ Answered(answers, decodes)
  /\ names \subseteq DOMAIN conf
  /\ \A i \in 1 .. Len(answers) : answers[i].name \notin names
  /\ pc = "list" => answers = <<>>

OutputInv ==
  LET survey == Survey(answers)
  IN  /\ pc # "done" => output = NoOutput
      /\ pc = "ask" => survey.refused = "none"
      /\ ConcludedWell => survey.refused = "none"
      /\ output.kind = "refused" =>
           output = [kind |-> "refused", why |-> survey.refused, packages |-> survey.packages]
      /\ output.kind = "report" => output.of = Report(survey.packages)
      /\ output.kind = "values" =>
           \E scope \in Scopes :
             output.of \in {HelmValues(survey.packages, scope),
                            HelmValuesYaml(survey.packages, scope)}
      /\ output.kind = "imports" =>
           \E scope \in Scopes : output.of = Imports(survey.packages, scope)
      /\ output.kind = "fixture" => output.of = Fixture(answers)
      /\ output.kind = "verdict" =>
           output.fit = Ready(survey.packages,
                              IF output.asked THEN IF "system" \in output.staged THEN 1 ELSE 0
                              ELSE Unset)

(* An address that was emitted as stable is the label of its section. *)
EmittedInv ==
  \A e \in emitted :
    /\ e.package \in PackageNames
    /\ \E k \in Known(e.package) : k.id = e.id /\ k.label # "" /\ e.section = <<k.label>>

SurveyInv == TypeOK /\ RouterInv /\ AnswersInv /\ OutputInv /\ EmittedInv

(***************************************************************************)
(* The editors.                                                            *)
(***************************************************************************)

LEMMA FiledIsSeq ==
  ASSUME NEW f, Len(f) \in Nat, f = [i \in 1 .. Len(f) |-> f[i]], NEW S,
         \A i \in 1 .. Len(f) : f[i] \in S
  PROVE  f \in Seq(S)
<1> DEFINE n == Len(f)
<1>1. f \in [1 .. n -> S]
  <2> HIDE DEF n
  <2>1. f = [i \in 1 .. n |-> f[i]] /\ \A i \in 1 .. n : f[i] \in S
    BY DEF n
  <2>2. QED
    BY <2>1
<1>2. n \in Nat
  OBVIOUS
<1> HIDE DEF n
<1>3. QED
  BY <1>1, <1>2

LEMMA ConcatIs ==
  ASSUME NEW S, NEW a \in Seq(S), NEW b \in Seq(S)
  PROVE  /\ a \o b \in Seq(S) /\ Len(a \o b) = Len(a) + Len(b)
         /\ \A i \in 1 .. Len(a) + Len(b) :
              (a \o b)[i] = IF i <= Len(a) THEN a[i] ELSE b[i - Len(a)]
  OBVIOUS

LEMMA InsertAtIs ==
  ASSUME NEW f, Len(f) \in Nat, f = [i \in 1 .. Len(f) |-> f[i]], NEW s,
         NEW k \in 1 .. Len(f) + 1
  PROVE  LET g == InsertAt(f, k, s)
         IN  /\ Len(g) = Len(f) + 1 /\ g = [i \in 1 .. Len(g) |-> g[i]]
             /\ \A i \in 1 .. Len(g) :
                  g[i] = IF i < k THEN f[i] ELSE IF i = k THEN s ELSE f[i - 1]
<1> DEFINE S == {f[i] : i \in 1 .. Len(f)} \cup {s}
           a == SubSeq(f, 1, k - 1)
           b == SubSeq(f, k, Len(f))
           g == (a \o <<s>>) \o b
<1>1. f \in Seq(S) /\ s \in S
  <2>1. \A i \in 1 .. Len(f) : f[i] \in S
    OBVIOUS
  <2> HIDE DEF S
  <2>2. f \in Seq(S)
    BY <2>1, FiledIsSeq
  <2>3. s \in S
    BY DEF S
  <2>4. QED
    BY <2>2, <2>3
<1> HIDE DEF S
<1>2. /\ a \in Seq(S) /\ Len(a) = k - 1 /\ \A i \in 1 .. k - 1 : a[i] = f[i]
  BY <1>1
<1>3. /\ b \in Seq(S) /\ Len(b) = Len(f) + 1 - k /\ \A i \in 1 .. Len(b) : b[i] = f[k + i - 1]
  BY <1>1
<1> HIDE DEF a, b
<1>4. /\ a \o <<s>> \in Seq(S) /\ Len(a \o <<s>>) = k
      /\ \A i \in 1 .. k : (a \o <<s>>)[i] = IF i < k THEN f[i] ELSE s
  BY <1>1, <1>2
<1>5. /\ g \in Seq(S) /\ Len(g) = Len(f) + 1
      /\ \A i \in 1 .. Len(f) + 1 :
           g[i] = IF i <= k THEN (a \o <<s>>)[i] ELSE b[i - k]
  <2>1. /\ g \in Seq(S) /\ Len(g) = k + Len(b)
        /\ \A i \in 1 .. k + Len(b) :
             g[i] = IF i <= k THEN (a \o <<s>>)[i] ELSE b[i - k]
    <3> DEFINE c == a \o <<s>>
    <3>1. c \in Seq(S) /\ Len(c) = k
      BY <1>4
    <3> HIDE DEF c
    <3>2. /\ c \o b \in Seq(S) /\ Len(c \o b) = Len(c) + Len(b)
          /\ \A i \in 1 .. Len(c) + Len(b) :
               (c \o b)[i] = IF i <= Len(c) THEN c[i] ELSE b[i - Len(c)]
      BY <1>3, <3>1, ConcatIs
    <3>3. QED
      BY <3>1, <3>2 DEF c
  <2>2. k + Len(b) = Len(f) + 1
    BY <1>3
  <2>3. QED
    BY <2>1, <2>2
<1>6. \A i \in 1 .. Len(f) + 1 : i > k => b[i - k] = f[i - 1]
  <2> SUFFICES ASSUME NEW i \in 1 .. Len(f) + 1, i > k PROVE b[i - k] = f[i - 1]
    OBVIOUS
  <2>1. i - k \in 1 .. Len(b) /\ k + (i - k) - 1 = i - 1
    BY <1>3
  <2>2. QED
    BY <1>3, <2>1
<1>7. InsertAt(f, k, s) = g
  BY DEF InsertAt, a, b
<1>8. g = [i \in 1 .. Len(g) |-> g[i]]
  <2> HIDE DEF g
  <2> QED
    BY <1>5
<1>9. \A i \in 1 .. Len(f) + 1 :
        g[i] = IF i < k THEN f[i] ELSE IF i = k THEN s ELSE f[i - 1]
  <2> HIDE DEF g
  <2> SUFFICES ASSUME NEW i \in 1 .. Len(f) + 1
               PROVE  g[i] = IF i < k THEN f[i] ELSE IF i = k THEN s ELSE f[i - 1]
    OBVIOUS
  <2>1. CASE i <= k
    BY <1>4, <1>5, <2>1
  <2>2. CASE i > k
    BY <1>5, <1>6, <2>2
  <2>3. QED
    BY <2>1, <2>2
<1> HIDE DEF g
<1>10. QED
  BY <1>5, <1>7, <1>8, <1>9

LEMMA RemoveAtIs ==
  ASSUME NEW f, Len(f) \in Nat, f = [i \in 1 .. Len(f) |-> f[i]], NEW k \in 1 .. Len(f)
  PROVE  LET g == RemoveAt(f, k)
         IN  /\ Len(g) = Len(f) - 1 /\ g = [i \in 1 .. Len(g) |-> g[i]]
             /\ \A i \in 1 .. Len(g) : g[i] = IF i < k THEN f[i] ELSE f[i + 1]
<1> DEFINE S == {f[i] : i \in 1 .. Len(f)}
           a == SubSeq(f, 1, k - 1)
           b == SubSeq(f, k + 1, Len(f))
           g == a \o b
<1>1. f \in Seq(S)
  <2>1. \A i \in 1 .. Len(f) : f[i] \in S
    OBVIOUS
  <2> HIDE DEF S
  <2>2. QED
    BY <2>1, FiledIsSeq
<1> HIDE DEF S
<1>2. /\ a \in Seq(S) /\ Len(a) = k - 1 /\ \A i \in 1 .. k - 1 : a[i] = f[i]
  BY <1>1
<1>3. /\ b \in Seq(S) /\ Len(b) = Len(f) - k /\ \A i \in 1 .. Len(b) : b[i] = f[k + i]
  BY <1>1
<1> HIDE DEF a, b
<1>4. /\ g \in Seq(S) /\ Len(g) = Len(f) - 1
      /\ \A i \in 1 .. Len(f) - 1 : g[i] = IF i < k THEN f[i] ELSE b[i - (k - 1)]
  <2>1. /\ g \in Seq(S) /\ Len(g) = Len(a) + Len(b)
        /\ \A i \in 1 .. Len(a) + Len(b) :
             g[i] = IF i <= Len(a) THEN a[i] ELSE b[i - Len(a)]
    BY <1>2, <1>3, ConcatIs
  <2>2. Len(a) + Len(b) = Len(f) - 1 /\ \A i \in Int : i <= Len(a) <=> i < k
    BY <1>2, <1>3
  <2> HIDE DEF g
  <2>3. QED
    BY <1>2, <2>1, <2>2
<1>5. \A i \in 1 .. Len(f) - 1 : ~(i < k) => b[i - (k - 1)] = f[i + 1]
  <2> SUFFICES ASSUME NEW i \in 1 .. Len(f) - 1, ~(i < k) PROVE b[i - (k - 1)] = f[i + 1]
    OBVIOUS
  <2>1. i - (k - 1) \in 1 .. Len(b) /\ k + (i - (k - 1)) = i + 1
    BY <1>3
  <2>2. QED
    BY <1>3, <2>1
<1>6. RemoveAt(f, k) = g
  BY DEF RemoveAt, a, b
<1>7. g = [i \in 1 .. Len(g) |-> g[i]]
  <2> HIDE DEF g
  <2> QED
    BY <1>4
<1> HIDE DEF g
<1>8. QED
  BY <1>4, <1>5, <1>6, <1>7

LEMMA SettingsAre ==
  ASSUME NEW p, NEW k \in Known(p)
  PROVE  /\ \A o \in DOMAIN k.options : <<o, k.options[o]>> \in Settings(p)
         /\ \A a \in Assignments : k.id = a.id => <<a.option, a.value>> \in Settings(p)
<1>1. \A o \in DOMAIN k.options : <<o, k.options[o]>> \in {<<q, k.options[q]>> : q \in DOMAIN k.options}
  OBVIOUS
<1>2. {<<q, k.options[q]>> : q \in DOMAIN k.options} \subseteq Settings(p)
  BY DEF Settings, AtFirst
<1>3. \A a \in Assignments : k.id = a.id => a \in Settable(p)
  BY DEF Settable
<1>4. \A a \in Settable(p) : <<a.option, a.value>> \in Settings(p)
  BY DEF Settings
<1>5. QED
  BY <1>1, <1>2, <1>3, <1>4

(* What an editor makes of a file is a file again. *)
LEMMA InsertKeeps ==
  ASSUME NEW p, NEW file, Filed(p, file), Len(file) < Longest,
         NEW n \in Newcomers, n.package = p, p \in PackageNames,
         \A i \in DOMAIN file : file[i].id # n.section.id,
         NEW k \in 1 .. Len(file) + 1
  PROVE  Filed(p, InsertAt(file, k, n.section))
<1> DEFINE s == n.section
           g == InsertAt(file, k, s)
<1>1. /\ Len(file) \in Nat /\ file = [i \in 1 .. Len(file) |-> file[i]] /\ Longest \in Nat
      /\ DOMAIN file = 1 .. Len(file)
  BY LongestIs DEF Filed
<1>2. s \in Known(p) /\ DOMAIN s = Fields
  <2>1. s \in Known(p)
    BY DEF Known
  <2>2. QED
    BY <2>1, RouterAssumption
<1>3. \A o \in DOMAIN s.options : <<o, s.options[o]>> \in Settings(p)
  BY <1>2, SettingsAre
<1>4. /\ Len(g) = Len(file) + 1 /\ g = [i \in 1 .. Len(g) |-> g[i]]
      /\ \A i \in 1 .. Len(g) :
           g[i] = IF i < k THEN file[i] ELSE IF i = k THEN s ELSE file[i - 1]
  <2> HIDE DEF s
  <2>1. QED
    BY <1>1, InsertAtIs
<1>5. \A i \in 1 .. Len(file) :
        /\ DOMAIN file[i] = Fields /\ file[i].id # s.id
        /\ \E l \in Known(p) : l.id = file[i].id /\ l.label = file[i].label /\ l.lists = file[i].lists
        /\ \A o \in DOMAIN file[i].options : <<o, file[i].options[o]>> \in Settings(p)
  BY <1>1 DEF Filed
<1>6. \A i, j \in 1 .. Len(file) : file[i].id = file[j].id => i = j
  BY DEF Filed
<1> HIDE DEF g, s
<1>7. ASSUME NEW i \in 1 .. Len(g)
      PROVE  \/ i = k /\ g[i] = s
             \/ i < k /\ i \in 1 .. Len(file) /\ g[i] = file[i]
             \/ i > k /\ i - 1 \in 1 .. Len(file) /\ g[i] = file[i - 1]
  <2>1. CASE i < k
    BY <1>1, <1>4, <2>1
  <2>2. CASE i = k
    BY <1>4, <2>2
  <2>3. CASE i > k
    BY <1>1, <1>4, <2>3
  <2>4. QED
    BY <1>4, <2>1, <2>2, <2>3
<1>8. ASSUME NEW i \in 1 .. Len(g)
      PROVE  /\ DOMAIN g[i] = Fields
             /\ \E l \in Known(p) : l.id = g[i].id /\ l.label = g[i].label /\ l.lists = g[i].lists
             /\ \A o \in DOMAIN g[i].options : <<o, g[i].options[o]>> \in Settings(p)
  <2>1. g[i] = s \/ \E j \in 1 .. Len(file) : g[i] = file[j]
    BY <1>7
  <2>2. QED
    BY <1>2, <1>3, <1>5, <2>1
<1>9. ASSUME NEW i \in 1 .. Len(g), NEW j \in 1 .. Len(g), g[i].id = g[j].id
      PROVE  i = j
  <2>1. i \in Int /\ j \in Int
    BY <1>1, <1>4
  <2>2. CASE i = k
    BY <1>5, <1>7, <1>9, <2>1, <2>2
  <2>3. CASE j = k
    BY <1>5, <1>7, <1>9, <2>1, <2>3
  <2>4. CASE i # k /\ j # k
    <3>1. PICK a \in 1 .. Len(file) : g[i] = file[a] /\ ((i < k /\ a = i) \/ (i > k /\ a = i - 1))
      BY <1>7, <2>4
    <3>2. PICK b \in 1 .. Len(file) : g[j] = file[b] /\ ((j < k /\ b = j) \/ (j > k /\ b = j - 1))
      BY <1>7, <2>4
    <3>3. a = b
      BY <1>6, <1>9, <3>1, <3>2
    <3>4. QED
      BY <2>1, <3>1, <3>2, <3>3
  <2>5. QED
    BY <2>2, <2>3, <2>4
<1>10. Len(g) \in 0 .. Longest
  BY <1>1, <1>4
<1>11. Filed(p, g)
  BY <1>4, <1>8, <1>9, <1>10 DEF Filed
<1>12. QED
  BY <1>11 DEF g, s

LEMMA RemoveKeeps ==
  ASSUME NEW p, NEW file, Filed(p, file), NEW k \in DOMAIN file
  PROVE  Filed(p, RemoveAt(file, k))
<1> DEFINE g == RemoveAt(file, k)
<1>1. /\ Len(file) \in Nat /\ file = [i \in 1 .. Len(file) |-> file[i]] /\ Longest \in Nat
      /\ Len(file) <= Longest /\ k \in 1 .. Len(file)
  BY LongestIs DEF Filed
<1>2. /\ Len(g) = Len(file) - 1 /\ g = [i \in 1 .. Len(g) |-> g[i]]
      /\ \A i \in 1 .. Len(g) : g[i] = IF i < k THEN file[i] ELSE file[i + 1]
  BY <1>1, RemoveAtIs
<1>3. \A i \in 1 .. Len(file) :
        /\ DOMAIN file[i] = Fields
        /\ \E l \in Known(p) : l.id = file[i].id /\ l.label = file[i].label /\ l.lists = file[i].lists
        /\ \A o \in DOMAIN file[i].options : <<o, file[i].options[o]>> \in Settings(p)
  BY DEF Filed
<1>4. \A i, j \in 1 .. Len(file) : file[i].id = file[j].id => i = j
  BY DEF Filed
<1> HIDE DEF g
<1>5. ASSUME NEW i \in 1 .. Len(g)
      PROVE  \/ i < k /\ i \in 1 .. Len(file) /\ g[i] = file[i]
             \/ i >= k /\ i + 1 \in 1 .. Len(file) /\ g[i] = file[i + 1]
  BY <1>1, <1>2
<1>6. ASSUME NEW i \in 1 .. Len(g)
      PROVE  /\ DOMAIN g[i] = Fields
             /\ \E l \in Known(p) : l.id = g[i].id /\ l.label = g[i].label /\ l.lists = g[i].lists
             /\ \A o \in DOMAIN g[i].options : <<o, g[i].options[o]>> \in Settings(p)
  <2>1. \E j \in 1 .. Len(file) : g[i] = file[j]
    BY <1>5
  <2>2. QED
    BY <1>3, <2>1
<1>7. ASSUME NEW i \in 1 .. Len(g), NEW j \in 1 .. Len(g), g[i].id = g[j].id
      PROVE  i = j
  <2>1. i \in Int /\ j \in Int /\ k \in Int
    BY <1>1, <1>2
  <2>2. PICK a \in 1 .. Len(file) : g[i] = file[a] /\ ((i < k /\ a = i) \/ (i >= k /\ a = i + 1))
    BY <1>5
  <2>3. PICK b \in 1 .. Len(file) : g[j] = file[b] /\ ((j < k /\ b = j) \/ (j >= k /\ b = j + 1))
    BY <1>5
  <2>4. a = b
    BY <1>4, <1>7, <2>2, <2>3
  <2>5. QED
    BY <2>1, <2>2, <2>3, <2>4
<1>8. Len(g) \in 0 .. Longest
  BY <1>1, <1>2
<1>9. Filed(p, g)
  BY <1>2, <1>6, <1>7, <1>8 DEF Filed
<1>10. QED
  BY <1>9 DEF g

LEMMA AssignKeeps ==
  ASSUME NEW p, NEW file, Filed(p, file), NEW k \in DOMAIN file,
         NEW a \in Assignments, file[k].id = a.id
  PROVE  Filed(p, [file EXCEPT ![k].options = Put(@, a.option, a.value)])
<1> DEFINE o2 == Put(file[k].options, a.option, a.value)
           s == [file[k] EXCEPT !.options = o2]
           g == [file EXCEPT ![k].options = Put(@, a.option, a.value)]
<1>1. /\ Len(file) \in Nat /\ file = [i \in 1 .. Len(file) |-> file[i]]
      /\ Len(file) \in 0 .. Longest /\ DOMAIN file = 1 .. Len(file)
  BY LongestIs DEF Filed
<1>2. \A i \in 1 .. Len(file) :
        /\ DOMAIN file[i] = Fields
        /\ \E l \in Known(p) : l.id = file[i].id /\ l.label = file[i].label /\ l.lists = file[i].lists
        /\ \A o \in DOMAIN file[i].options : <<o, file[i].options[o]>> \in Settings(p)
  BY DEF Filed
<1>3. \A i, j \in 1 .. Len(file) : file[i].id = file[j].id => i = j
  BY DEF Filed
<1>4. /\ DOMAIN s = Fields /\ s.id = file[k].id /\ s.label = file[k].label /\ s.options = o2
      /\ s.lists = file[k].lists
  BY <1>1, <1>2 DEF Fields
<1>5. \A o \in DOMAIN o2 : <<o, o2[o]>> \in Settings(p)
  <2>1. \A o \in DOMAIN file[k].options : <<o, file[k].options[o]>> \in Settings(p)
    BY <1>1, <1>2
  <2>2. <<a.option, a.value>> \in Settings(p)
    <3>1. PICK l \in Known(p) : l.id = a.id
      BY <1>1, <1>2
    <3>2. QED
      BY <3>1, SettingsAre
  <2>3. /\ DOMAIN o2 = {a.option} \cup DOMAIN file[k].options
        /\ \A o \in DOMAIN o2 :
             o2[o] = IF o = a.option THEN a.value ELSE file[k].options[o]
    BY DEF Put
  <2> HIDE DEF o2
  <2>4. QED
    BY <2>1, <2>2, <2>3
<1>6. g = [i \in 1 .. Len(file) |-> IF i = k THEN s ELSE file[i]]
  BY <1>1
<1>7. Len(g) = Len(file) /\ g = [i \in 1 .. Len(g) |-> g[i]]
  <2> HIDE DEF s, g
  <2>1. DOMAIN g = 1 .. Len(file)
    BY <1>6
  <2>2. Len(g) = Len(file)
    BY <1>1, <2>1
  <2>3. QED
    BY <1>6, <2>2
<1> HIDE DEF s, o2, g
<1>8. \A i \in 1 .. Len(g) : g[i] = IF i = k THEN s ELSE file[i]
  BY <1>6, <1>7
<1>9. \A i \in 1 .. Len(g) :
        /\ DOMAIN g[i] = Fields /\ g[i].id = file[i].id
        /\ \E l \in Known(p) : l.id = g[i].id /\ l.label = g[i].label /\ l.lists = g[i].lists
        /\ \A o \in DOMAIN g[i].options : <<o, g[i].options[o]>> \in Settings(p)
  BY <1>2, <1>4, <1>5, <1>7, <1>8
<1>10. Filed(p, g)
  BY <1>1, <1>3, <1>7, <1>9 DEF Filed
<1>11. QED
  BY <1>10 DEF g

(***************************************************************************)
(* The tool.                                                               *)
(***************************************************************************)

(* What uci answers of a file is a reading of it. *)
LEMMA BodyIsRead ==
  ASSUME NEW p, NEW file, Filed(p, file), NEW decoded
  PROVE  LET B == BodyOf(file, decoded)
         IN  /\ B = ToSet(ByIndex(B)) /\ Reading(p, ByIndex(B), decoded)
             /\ Len(ByIndex(B)) = Len(file)
             /\ \A i \in 1 .. Len(file) : ByIndex(B)[i] = RawSection(file[i], i, decoded)
<1> DEFINE n == Len(file)
           R == [i \in 1 .. n |-> RawSection(file[i], i, decoded)]
<1>1. /\ n \in 0 .. Longest /\ Longest \in Nat /\ DOMAIN file = 1 .. n
      /\ \A i, j \in 1 .. n : file[i].id = file[j].id => i = j
  BY LongestIs DEF Filed
<1>2. \A i \in 1 .. n :
        /\ \E k \in Known(p) : k.id = file[i].id /\ k.label = file[i].label /\ k.lists = file[i].lists
        /\ \A o \in DOMAIN file[i].options : <<o, file[i].options[o]>> \in Settings(p)
  BY DEF Filed
<1> HIDE DEF n
<1>3. Len(R) = n /\ R = [i \in 1 .. Len(R) |-> R[i]] /\ DOMAIN R = 1 .. n
  BY <1>1
<1>4. \A i \in 1 .. n : R[i] = RawSection(file[i], i, decoded)
  OBVIOUS
<1> HIDE DEF R
<1>5. ASSUME NEW i \in 1 .. n
      PROVE  /\ DOMAIN R[i] = RawFields /\ R[i].index = i - 1 /\ R[i].id = file[i].id
             /\ R[i].name = Name(file[i], i) /\ R[i].options = file[i].options
             /\ R[i].lists = file[i].lists
             /\ R[i].anonymous = IF decoded THEN file[i].label = "" ELSE Undecodable
  <2> DEFINE s == file[i]
             u == IF decoded THEN s.label = "" ELSE Undecodable
  <2>1. R[i] = [id |-> s.id, name |-> Name(s, i), type |-> s.type, index |-> i - 1,
                anonymous |-> u, options |-> s.options, lists |-> s.lists]
    BY <1>4 DEF RawSection
  <2> HIDE DEF u
  <2>2. /\ DOMAIN R[i] = RawFields /\ R[i].index = i - 1 /\ R[i].id = s.id
        /\ R[i].name = Name(s, i) /\ R[i].options = s.options /\ R[i].anonymous = u
        /\ R[i].lists = s.lists
    BY <2>1 DEF RawFields
  <2>3. QED
    BY <2>2 DEF u
<1>6. ASSUME NEW i \in 1 .. n
      PROVE  R[i].index = i - 1 /\ Answerable(p, R[i], decoded)
  <2>1. PICK k \in Known(p) : k.id = file[i].id /\ k.label = file[i].label /\ k.lists = file[i].lists
    BY <1>2
  <2>2. R[i].index + 1 = i /\ Name(k, i) = Name(file[i], i)
    <3>1. R[i].index = i - 1
      BY <1>5
    <3>2. i \in Int
      BY <1>1
    <3>3. QED
      BY <2>1, <3>1, <3>2 DEF Name
  <2>3. \A o \in DOMAIN R[i].options : <<o, R[i].options[o]>> \in Settings(p)
    BY <1>2, <1>5
  <2>4. /\ k.id = R[i].id /\ R[i].name = Name(k, R[i].index + 1) /\ k.lists = R[i].lists
        /\ R[i].anonymous = IF decoded THEN k.label = "" ELSE Undecodable
    BY <1>5, <2>1, <2>2
  <2>5. QED
    BY <1>5, <2>3, <2>4 DEF Answerable
<1>7. \A i, j \in 1 .. n : R[i].id = R[j].id => i = j
  BY <1>1, <1>5
<1>8. Reading(p, R, decoded)
  BY <1>1, <1>3, <1>6, <1>7 DEF Reading
<1>9. BodyOf(file, decoded) = ToSet(R)
  BY <1>1, <1>3, <1>4 DEF BodyOf, ToSet
<1>10. ByIndex(ToSet(R)) = R
  BY <1>8, ReadingIs
<1>11. QED
  BY <1>3, <1>4, <1>8, <1>9, <1>10 DEF n

LEMMA AnswersGrow ==
  ASSUME NEW A, NEW decoded, Answered(A, decoded),
         NEW p \in PackageNames, \A i \in 1 .. Len(A) : A[i].name # p,
         NEW a, a.name = p,
         HasValues(a) => /\ a = [name |-> p, body |-> a.body]
                         /\ a.body = ToSet(ByIndex(a.body))
                         /\ Reading(p, ByIndex(a.body), decoded)
  PROVE  LET C == Append(A, a)
         IN  /\ Answered(C, decoded) /\ Len(C) = Len(A) + 1
             /\ \A i \in 1 .. Len(C) : C[i].name = p \/ \E j \in 1 .. Len(A) : C[i] = A[j]
<1> DEFINE n == Len(A)
           C == Append(A, a)
<1>1. n \in Nat /\ A = [i \in 1 .. n |-> A[i]]
  BY DEF Answered
<1>2. C = [i \in 1 .. n + 1 |-> IF i = n + 1 THEN a ELSE A[i]] /\ Len(C) = n + 1
  <2> DEFINE S == {A[i] : i \in 1 .. n} \cup {a}
  <2>1. A \in Seq(S) /\ a \in S
    <3>1. (\A i \in 1 .. n : A[i] \in S) /\ a \in S
      OBVIOUS
    <3> HIDE DEF S, n
    <3>2. A \in Seq(S)
      BY <1>1, <3>1, FiledIsSeq DEF n
    <3>3. QED
      BY <3>1, <3>2
  <2> HIDE DEF S, n
  <2>2. Len(A) = n /\ DOMAIN A = 1 .. n
    BY DEF n, Answered
  <2>3. Len(C) = n + 1 /\ DOMAIN C = 1 .. n + 1
    BY <2>1, <2>2
  <2>4. \A i \in 1 .. n + 1 : C[i] = IF i = n + 1 THEN a ELSE A[i]
    BY <2>1, <2>2
  <2>5. C \in Seq(S)
    BY <2>1
  <2> HIDE DEF C
  <2>6. C = [i \in 1 .. n + 1 |-> C[i]]
    BY <2>3, <2>5
  <2>7. QED
    BY <2>3, <2>4, <2>6
<1> HIDE DEF C
<1>4. C[n + 1] = a /\ \A i \in 1 .. n : C[i] = A[i]
  BY <1>1, <1>2
<1>5. \A i \in 1 .. n + 1 : i \in 1 .. n \/ i = n + 1
  BY <1>1
<1>6. ASSUME NEW i \in 1 .. n + 1
      PROVE  /\ C[i].name \in PackageNames
             /\ HasValues(C[i]) =>
                  /\ C[i] = [name |-> C[i].name, body |-> C[i].body]
                  /\ C[i].body = ToSet(FileOf(C, i))
                  /\ Reading(C[i].name, FileOf(C, i), decoded)
  <2>1. CASE i \in 1 .. n
    <3>1. FileOf(C, i) = FileOf(A, i) /\ C[i] = A[i]
      BY <1>4, <2>1 DEF FileOf
    <3>2. QED
      BY <2>1, <3>1 DEF Answered
  <2>2. CASE i = n + 1
    <3>1. FileOf(C, i) = ByIndex(a.body) /\ C[i] = a
      BY <1>4, <2>2 DEF FileOf
    <3>2. QED
      BY <3>1
  <2>3. QED
    BY <1>5, <2>1, <2>2
<1>7. \A i, j \in 1 .. n : A[i].name = A[j].name => i = j
  BY DEF Answered
<1>8. ASSUME NEW i \in 1 .. n + 1, NEW j \in 1 .. n + 1, C[i].name = C[j].name
      PROVE  i = j
  BY <1>4, <1>5, <1>7, <1>8
<1>9. C = [i \in 1 .. Len(C) |-> C[i]]
  BY <1>2
<1>10. Answered(C, decoded)
  BY <1>1, <1>2, <1>6, <1>8, <1>9 DEF Answered
<1>11. QED
  BY <1>2, <1>4, <1>5, <1>10 DEF C

(***************************************************************************)
(* The invariant is kept.                                                  *)
(***************************************************************************)

LEMMA ReadNamedIs ==
  ASSUME NEW A, NEW decoded \in BOOLEAN, Answered(A, decoded), Surveyed(A, decoded),
         NEW i \in 1 .. Len(A), NEW j \in 1 .. Len(FileOf(A, i))
  PROVE  /\ IsAnonymous(FileOf(A, i)[j]) \in BOOLEAN
         /\ ~IsAnonymous(FileOf(A, i)[j]) => Labelled(A[i].name, FileOf(A, i)[j])
<1>1. A[i].name \in PackageNames /\ Reading(A[i].name, FileOf(A, i), decoded)
  BY DEF Surveyed
<1>2. QED
  BY <1>1, NamedIs

LEMMA NamedImports ==
  ASSUME NEW A, NEW decoded \in BOOLEAN, Answered(A, decoded), Surveyed(A, decoded),
         NEW e \in Imports(Survey(A).packages, "stable")
  PROVE  /\ e.package \in PackageNames
         /\ \E k \in Known(e.package) : k.id = e.id /\ k.label # "" /\ e.section = <<k.label>>
<1>1. PICK s \in InScope(SectionsOf(Survey(A).packages, "managed"), "stable") :
        e = [to |-> TerraformAddress(s), package |-> s.package, section |-> AsUci(s), id |-> s.id]
  BY DEF Imports
<1>2. s \in SectionsOf(Survey(A).packages, "managed") /\ ~s.anonymous
  BY <1>1 DEF InScope
<1>3. PICK t \in SpotsOf(A, "managed") : s = ParsedAt(A, t)
  BY <1>2, SectionsAre
<1> DEFINE p == A[t[1]].name
           R == FileOf(A, t[1])
           raw == R[t[2]]
<1>4. t[1] \in 1 .. Len(A) /\ t[2] \in 1 .. Len(R)
  BY SpotsAre DEF SpotsOf
<1>5. p \in PackageNames /\ Reading(p, R, decoded)
  BY <1>4 DEF Surveyed
<1>6. /\ s.package = p /\ s.id = raw.id /\ s.name = raw.name
      /\ s.anonymous = IsAnonymous(raw)
  BY <1>3 DEF ParsedAt, ParseSection
<1> HIDE DEF p, R, raw
<1>7. Labelled(p, raw)
  <2>1. ~IsAnonymous(raw)
    BY <1>2, <1>6
  <2>2. QED
    BY <1>4, <1>5, <2>1, ReadNamedIs DEF p, R, raw
<1>8. AsUci(s) = <<raw.name>>
  BY <1>2, <1>6 DEF AsUci
<1>9. e.package = p /\ e.id = raw.id /\ e.section = <<raw.name>>
  BY <1>1, <1>6, <1>8
<1>10. QED
  BY <1>5, <1>7, <1>9 DEF Labelled

LEMMA SurveyInit ==
  ASSUME Init
  PROVE  SurveyInv
<1>1. RouterInv
  <2>1. ASSUME NEW p \in DOMAIN Initial
        PROVE  Filed(p, Initial[p])
    <3> DEFINE f == Initial[p]
    <3>1. /\ f \in Seq(Known(p)) /\ Len(f) <= Longest /\ p \in PackageNames
          /\ \A i, j \in DOMAIN f : f[i].id = f[j].id => i = j
      BY <2>1, RouterAssumption
    <3> HIDE DEF f
    <3>2. /\ Len(f) \in 0 .. Longest /\ DOMAIN f = 1 .. Len(f)
          /\ f = [i \in 1 .. Len(f) |-> f[i]] /\ \A i \in 1 .. Len(f) : f[i] \in Known(p)
      BY <3>1, LongestIs
    <3>3. \A k \in Known(p) : DOMAIN k = Fields
      BY <3>1, RouterAssumption
    <3>4. \A k \in Known(p) : \A o \in DOMAIN k.options : <<o, k.options[o]>> \in Settings(p)
      BY SettingsAre
    <3>5. Filed(p, f)
      BY <3>1, <3>2, <3>3, <3>4 DEF Filed
    <3>6. QED
      BY <3>5 DEF f
  <2>2. DOMAIN Initial \subseteq PackageNames
    BY RouterAssumption
  <2>3. QED
    BY <2>1, <2>2 DEF Init, RouterInv
<1>2. AnswersInv
  <2>1. Answered(<<>>, decodes)
    BY DEF Answered
  <2>2. QED
    BY <2>1 DEF Init, AnswersInv
<1>3. output.kind = "none" /\ output = NoOutput /\ pc = "list" /\ answers = <<>> /\ emitted = {}
  BY DEF Init, NoOutput
<1>4. OutputInv
  BY <1>3 DEF OutputInv, ConcludedWell
<1>5. EmittedInv
  BY <1>3 DEF EmittedInv
<1>6. TypeOK
  BY <1>1, <1>3 DEF TypeOK, Init, RouterInv
<1>7. QED
  BY <1>1, <1>2, <1>4, <1>5, <1>6 DEF SurveyInv

LEMMA OutputKept ==
  ASSUME OutputInv, UNCHANGED <<pc, answers, output>>
  PROVE  OutputInv'
  BY DEF OutputInv, ConcludedWell

LEMMA EditedKeeps ==
  ASSUME SurveyInv, NEW p \in PackageNames, NEW file, Filed(p, file), Edited(p, file)
  PROVE  SurveyInv'
<1>1. /\ conf' = Put(conf, p, file) /\ pending' = pending \cup {p}
      /\ UNCHANGED <<decodes, pc, names, answers, output, emitted>>
  BY DEF Edited
<1>2. /\ DOMAIN conf' = DOMAIN conf \cup {p}
      /\ \A q \in DOMAIN conf' : conf'[q] = IF q = p THEN file ELSE conf[q]
  BY <1>1 DEF Put
<1>3. RouterInv'
  BY <1>1, <1>2 DEF SurveyInv, RouterInv
<1>4. AnswersInv'
  BY <1>1, <1>2 DEF SurveyInv, AnswersInv
<1>5. OutputInv'
  BY <1>1, OutputKept DEF SurveyInv
<1>6. EmittedInv'
  BY <1>1 DEF SurveyInv, EmittedInv
<1>7. TypeOK'
  BY <1>1, <1>2 DEF SurveyInv, TypeOK
<1>8. QED
  BY <1>3, <1>4, <1>5, <1>6, <1>7 DEF SurveyInv

LEMMA EditorsKeep ==
  ASSUME SurveyInv, Insert \/ Delete \/ Assign
  PROVE  SurveyInv'
<1>1. DOMAIN conf \subseteq PackageNames /\ \A p \in DOMAIN conf : Filed(p, conf[p])
  BY DEF SurveyInv, RouterInv
<1>2. CASE Insert
  <2> DEFINE F(n) == IF n.package \in DOMAIN conf THEN conf[n.package] ELSE <<>>
  <2>1. PICK n \in Newcomers :
          /\ Len(F(n)) < Longest
          /\ \A i \in DOMAIN F(n) : F(n)[i].id # n.section.id
          /\ \E k \in 1 .. Len(F(n)) + 1 : Edited(n.package, InsertAt(F(n), k, n.section))
    BY <1>2 DEF Insert
  <2> DEFINE file == F(n)
  <2>2. n.package \in PackageNames
    BY RouterAssumption
  <2>3. Filed(n.package, file)
    <3>1. CASE n.package \in DOMAIN conf
      BY <1>1, <3>1
    <3>2. CASE n.package \notin DOMAIN conf
      <4>1. file = <<>>
        BY <3>2
      <4>2. Filed(n.package, <<>>)
        BY LongestIs DEF Filed
      <4>3. QED
        BY <4>1, <4>2
    <3>3. QED
      BY <3>1, <3>2
  <2>4. PICK k \in 1 .. Len(file) + 1 : Edited(n.package, InsertAt(file, k, n.section))
    BY <2>1
  <2>5. Len(file) < Longest /\ \A i \in DOMAIN file : file[i].id # n.section.id
    BY <2>1
  <2> HIDE DEF file, F
  <2>6. Filed(n.package, InsertAt(file, k, n.section))
    BY <2>2, <2>3, <2>5, InsertKeeps
  <2>7. QED
    BY <2>2, <2>4, <2>6, EditedKeeps
<1>3. CASE Delete
  <2>1. PICK p \in DOMAIN conf : \E i \in DOMAIN conf[p] : Edited(p, RemoveAt(conf[p], i))
    BY <1>3 DEF Delete
  <2> PICK i \in DOMAIN conf[p] : Edited(p, RemoveAt(conf[p], i))
    BY <2>1
  <2>2. Filed(p, RemoveAt(conf[p], i))
    BY <1>1, RemoveKeeps
  <2>3. QED
    BY <1>1, <2>2, EditedKeeps
<1>4. CASE Assign
  <2>1. PICK p \in DOMAIN conf : \E a \in Assignments : \E i \in DOMAIN conf[p] :
          /\ conf[p][i].id = a.id
          /\ Edited(p, [conf[p] EXCEPT ![i].options = Put(@, a.option, a.value)])
    BY <1>4 DEF Assign
  <2>2. PICK a \in Assignments : \E i \in DOMAIN conf[p] :
          /\ conf[p][i].id = a.id
          /\ Edited(p, [conf[p] EXCEPT ![i].options = Put(@, a.option, a.value)])
    BY <2>1
  <2>3. PICK i \in DOMAIN conf[p] :
          /\ conf[p][i].id = a.id
          /\ Edited(p, [conf[p] EXCEPT ![i].options = Put(@, a.option, a.value)])
    BY <2>2
  <2>4. Filed(p, [conf[p] EXCEPT ![i].options = Put(@, a.option, a.value)])
    BY <1>1, <2>3, AssignKeeps
  <2>5. QED
    BY <1>1, <2>3, <2>4, EditedKeeps
<1>5. QED
  BY <1>2, <1>3, <1>4

LEMMA ToolKeeps ==
  ASSUME SurveyInv, Commit \/ List \/ (\E p \in names : Get(p)) \/ AdapterFails
  PROVE  SurveyInv'
<1>1. CASE Commit
  <2>1. /\ pending' \subseteq pending
        /\ UNCHANGED <<conf, decodes, pc, names, answers, output, emitted>>
    BY <1>1 DEF Commit
  <2>2. RouterInv' /\ AnswersInv' /\ EmittedInv' /\ TypeOK'
    BY <2>1 DEF SurveyInv, RouterInv, AnswersInv, EmittedInv, TypeOK
  <2>3. OutputInv'
    BY <2>1, OutputKept DEF SurveyInv
  <2>4. QED
    BY <2>2, <2>3 DEF SurveyInv
<1>2. CASE List
  <2>1. /\ pc = "list" /\ pc' = "get" /\ names' = DOMAIN conf
        /\ UNCHANGED <<conf, pending, decodes, answers, output, emitted>>
    BY <1>2 DEF List, device
  <2>2. answers = <<>> /\ Len(answers) = 0
    BY <2>1 DEF SurveyInv, AnswersInv
  <2>3. AnswersInv'
    BY <2>1, <2>2 DEF SurveyInv, AnswersInv
  <2>4. RouterInv' /\ EmittedInv' /\ TypeOK'
    BY <2>1 DEF SurveyInv, RouterInv, EmittedInv, TypeOK
  <2>5. OutputInv'
    BY <2>1 DEF SurveyInv, OutputInv, ConcludedWell, NoOutput
  <2>6. QED
    BY <2>3, <2>4, <2>5 DEF SurveyInv
<1>3. CASE \E p \in names : Get(p)
  <2>1. PICK p \in names : Get(p)
    BY <1>3
  <2> DEFINE good == [name |-> p, body |-> Body(p)]
             bad  == [name |-> p]
  <2>2. /\ pc = "get" /\ names' = names \ {p}
        /\ UNCHANGED <<conf, pending, decodes, pc, output, emitted>>
        /\ answers' = Append(answers, good) \/ answers' = Append(answers, bad)
    BY <2>1 DEF Get, device
  <2>3. /\ Answered(answers, decodes) /\ p \in PackageNames /\ p \in DOMAIN conf
        /\ names \subseteq DOMAIN conf
        /\ \A i \in 1 .. Len(answers) : answers[i].name # p /\ answers[i].name \notin names
    BY DEF SurveyInv, AnswersInv, RouterInv
  <2>4. PICK a : /\ answers' = Append(answers, a) /\ a.name = p
                 /\ HasValues(a) => /\ a = [name |-> p, body |-> a.body]
                                    /\ a.body = ToSet(ByIndex(a.body))
                                    /\ Reading(p, ByIndex(a.body), decodes)
    <3>1. Filed(p, conf[p])
      BY <2>3 DEF SurveyInv, RouterInv
    <3>2. Body(p) = ToSet(ByIndex(Body(p))) /\ Reading(p, ByIndex(Body(p)), decodes)
      BY <3>1, BodyIsRead DEF Body
    <3>3. good.name = p /\ good.body = Body(p) /\ bad.name = p /\ ~HasValues(bad)
      BY DEF HasValues
    <3>4. good = [name |-> p, body |-> good.body]
      BY <3>3
    <3> HIDE DEF good, bad
    <3>5. QED
      BY <2>2, <3>2, <3>3, <3>4
  <2>5. /\ Answered(answers', decodes)
        /\ \A i \in 1 .. Len(answers') :
             answers'[i].name = p \/ \E j \in 1 .. Len(answers) : answers'[i] = answers[j]
    <3> DEFINE C == Append(answers, a)
    <3>1. /\ Answered(C, decodes)
          /\ \A i \in 1 .. Len(C) : C[i].name = p \/ \E j \in 1 .. Len(answers) : C[i] = answers[j]
      BY <2>3, <2>4, AnswersGrow
    <3> HIDE DEF C
    <3>2. answers' = C
      BY <2>4 DEF C
    <3>3. QED
      BY <3>1, <3>2
  <2>6. AnswersInv'
    <3>1. \A i \in 1 .. Len(answers') : answers'[i].name \notin names'
      BY <2>2, <2>3, <2>5
    <3>2. QED
      BY <2>2, <2>3, <2>5, <3>1 DEF AnswersInv
  <2>7. RouterInv' /\ EmittedInv'
    BY <2>2 DEF SurveyInv, RouterInv, EmittedInv
  <2>8. OutputInv'
    <3>1. output' = NoOutput /\ pc' = "get"
      BY <2>2 DEF SurveyInv, OutputInv
    <3>2. QED
      BY <3>1 DEF OutputInv, ConcludedWell, NoOutput
  <2>9. TypeOK'
    <3>1. \A i \in DOMAIN answers' : answers'[i].name \in PackageNames
      BY <2>5 DEF Answered
    <3>2. QED
      BY <2>2, <3>1 DEF SurveyInv, TypeOK
  <2>10. QED
    BY <2>6, <2>7, <2>8, <2>9 DEF SurveyInv
<1>4. CASE AdapterFails
  <2>1. /\ pc \in {"list", "get"} /\ pc' = "done" /\ names' = {} /\ output' = [kind |-> "failed"]
        /\ UNCHANGED <<conf, pending, decodes, answers, emitted>>
    BY <1>4 DEF AdapterFails, device
  <2>2. output'.kind = "failed"
    BY <2>1
  <2>3. RouterInv' /\ AnswersInv' /\ EmittedInv' /\ TypeOK'
    BY <2>1, <2>2 DEF SurveyInv, RouterInv, AnswersInv, EmittedInv, TypeOK
  <2>4. OutputInv'
    BY <2>1, <2>2 DEF OutputInv, ConcludedWell
  <2>5. QED
    BY <2>3, <2>4 DEF SurveyInv
<1>5. QED
  BY <1>1, <1>2, <1>3, <1>4

(* What is concluded is computed from what was read. *)
LEMMA ConcludeKeeps ==
  ASSUME SurveyInv, Conclude
  PROVE  SurveyInv'
<1> DEFINE S == Survey(answers)
<1>1. /\ pc = "get" /\ names = {}
      /\ UNCHANGED <<conf, pending, decodes, names, answers, spent>>
      /\ \/ /\ S.refused # "none"
            /\ output' = [kind |-> "refused", why |-> S.refused, packages |-> S.packages]
            /\ pc' = "done" /\ UNCHANGED emitted
         \/ /\ S.refused = "none"
            /\ pc' = "ask" /\ UNCHANGED <<output, emitted>>
         \/ /\ S.refused = "none"
            /\ \E scope \in Scopes : \E o \in Outputs(S.packages, scope) :
                 /\ output' = o
                 /\ emitted' = IF o.kind = "imports" /\ scope = "stable" THEN emitted \cup o.of
                               ELSE emitted
            /\ pc' = "done"
  BY DEF Conclude, device
<1>2. RouterInv' /\ AnswersInv'
  BY <1>1 DEF SurveyInv, RouterInv, AnswersInv
<1>3. Answered(answers, decodes) /\ decodes \in BOOLEAN
  BY DEF SurveyInv, AnswersInv, RouterInv
<1>4. S' = S
  BY <1>1
<1> HIDE DEF S
<1>5. CASE S.refused # "none" /\ pc' = "done" /\ UNCHANGED emitted
           /\ output' = [kind |-> "refused", why |-> S.refused, packages |-> S.packages]
  <2>1. output'.kind = "refused"
    BY <1>5
  <2>2. OutputInv'
    BY <1>4, <1>5, <2>1 DEF OutputInv, ConcludedWell, S
  <2>3. EmittedInv' /\ TypeOK'
    BY <1>1, <1>5, <2>1 DEF SurveyInv, EmittedInv, TypeOK
  <2>4. QED
    BY <1>2, <2>2, <2>3 DEF SurveyInv
<1>6. CASE S.refused = "none" /\ pc' = "ask" /\ UNCHANGED <<output, emitted>>
  <2>1. output' = NoOutput
    BY <1>1, <1>6 DEF SurveyInv, OutputInv
  <2>2. OutputInv'
    BY <1>4, <1>6, <2>1 DEF OutputInv, ConcludedWell, NoOutput, S
  <2>3. EmittedInv' /\ TypeOK'
    BY <1>1, <1>6 DEF SurveyInv, EmittedInv, TypeOK
  <2>4. QED
    BY <1>2, <2>2, <2>3 DEF SurveyInv
<1>7. CASE /\ S.refused = "none" /\ pc' = "done"
           /\ \E scope \in Scopes : \E o \in Outputs(S.packages, scope) :
                /\ output' = o
                /\ emitted' = IF o.kind = "imports" /\ scope = "stable" THEN emitted \cup o.of
                              ELSE emitted
  <2>1. PICK scope \in Scopes : \E o \in Outputs(S.packages, scope) :
                /\ output' = o
                /\ emitted' = IF o.kind = "imports" /\ scope = "stable" THEN emitted \cup o.of
                              ELSE emitted
    BY <1>7
  <2>2. /\ output' \in Outputs(S.packages, scope)
        /\ emitted' = IF output'.kind = "imports" /\ scope = "stable" THEN emitted \cup output'.of
                      ELSE emitted
    BY <2>1
  <2>3. \/ output'.kind = "report" /\ output'.of = Report(S.packages)
        \/ output'.kind = "values" /\ output'.of = HelmValues(S.packages, scope)
        \/ output'.kind = "values" /\ output'.of = HelmValuesYaml(S.packages, scope)
        \/ output'.kind = "imports" /\ output'.of = Imports(S.packages, scope)
        \/ output'.kind = "fixture" /\ output'.of = Fixture(answers)
    <3>1. \/ output' = [kind |-> "report", of |-> Report(S.packages)]
          \/ output' = [kind |-> "values", of |-> HelmValues(S.packages, scope)]
          \/ output' = [kind |-> "values", of |-> HelmValuesYaml(S.packages, scope)]
          \/ output' = [kind |-> "imports", of |-> Imports(S.packages, scope)]
          \/ output' = [kind |-> "fixture", of |-> Fixture(answers)]
      BY <2>2 DEF Outputs
    <3>2. QED
      BY <3>1
  <2>4. OutputInv'
    BY <1>1, <1>4, <1>7, <2>3 DEF OutputInv, ConcludedWell, S
  <2>5. TypeOK'
    BY <1>1, <1>7, <2>3 DEF SurveyInv, TypeOK
  <2>6. ASSUME NEW e \in emitted'
        PROVE  /\ e.package \in PackageNames
               /\ \E k \in Known(e.package) :
                    k.id = e.id /\ k.label # "" /\ e.section = <<k.label>>
    <3>1. CASE e \in emitted
      BY <3>1 DEF SurveyInv, EmittedInv
    <3>2. CASE e \notin emitted
      <4>1. e \in Imports(S.packages, "stable")
        BY <2>2, <2>3, <2>6, <3>2
      <4>2. Surveyed(answers, decodes)
        BY <1>3, <1>7, SurveyedIs DEF S
      <4>3. QED
        BY <1>3, <4>1, <4>2, NamedImports DEF S
    <3>3. QED
      BY <3>1, <3>2
  <2>7. EmittedInv'
    BY <2>6 DEF EmittedInv
  <2>8. QED
    BY <1>2, <2>4, <2>5, <2>7 DEF SurveyInv
<1>8. QED
  BY <1>1, <1>5, <1>6, <1>7

LEMMA JudgeKeeps ==
  ASSUME SurveyInv, Judge
  PROVE  SurveyInv'
<1> DEFINE inv == Survey(answers).packages
           changes == IF "system" \in pending THEN 1 ELSE 0
<1>1. /\ pc = "ask" /\ pc' = "done"
      /\ UNCHANGED <<conf, pending, decodes, names, answers, emitted>>
      /\ \/ output' = [kind |-> "verdict", asked |-> TRUE, staged |-> pending,
                       fit |-> Ready(inv, changes)]
         \/ output' = [kind |-> "verdict", asked |-> FALSE, staged |-> pending,
                       fit |-> Ready(inv, Unset)]
  BY DEF Judge, device
<1>2. RouterInv' /\ AnswersInv' /\ EmittedInv'
  BY <1>1 DEF SurveyInv, RouterInv, AnswersInv, EmittedInv
<1>3. Survey(answers).refused = "none" /\ Survey(answers)' = Survey(answers)
  BY <1>1 DEF SurveyInv, OutputInv
<1> HIDE DEF inv
<1>4. /\ output'.kind = "verdict" /\ output'.staged = pending
      /\ output'.fit = Ready(inv, IF output'.asked THEN changes ELSE Unset)
  BY <1>1
<1>5. OutputInv'
  BY <1>1, <1>3, <1>4 DEF OutputInv, ConcludedWell, inv
<1>6. TypeOK'
  BY <1>1, <1>4 DEF SurveyInv, TypeOK
<1>7. QED
  BY <1>2, <1>5, <1>6 DEF SurveyInv

LEMMA SurveyNext ==
  ASSUME SurveyInv, [Next]_vars
  PROVE  SurveyInv'
<1>1. CASE Next
  BY <1>1, EditorsKeep, ToolKeeps, ConcludeKeeps, JudgeKeeps DEF Next, Tool
<1>2. CASE UNCHANGED vars
  BY <1>2, OutputKept DEF vars, SurveyInv, RouterInv, AnswersInv, EmittedInv, TypeOK
<1>3. QED
  BY <1>1, <1>2

THEOREM SurveyInvariant == Spec => []SurveyInv
<1>1. Init => SurveyInv
  BY SurveyInit
<1>2. SurveyInv /\ [Next]_vars => SurveyInv'
  BY SurveyNext
<1>3. QED
  BY <1>1, <1>2, PTL DEF Spec

(* Every state is typed: what is installed is a package there could be,    *)
(* what is staged is installed, and a command ends with what its kind has. *)
THEOREM SurveyTyped == Spec => []TypeOK
<1>1. SurveyInv => TypeOK
  BY DEF SurveyInv
<1>2. QED
  BY <1>1, SurveyInvariant, PTL

-----------------------------------------------------------------------------
(***************************************************************************)
(* Imports.                                                                *)
(***************************************************************************)

LEMMA LabelsStayPut ==
  ASSUME SurveyInv, NEW e \in emitted, e.package \in DOMAIN conf
  PROVE  {raw.id : raw \in At(Body(e.package), e.section)} \subseteq {e.id}
<1> DEFINE p == e.package
           file == conf[p]
<1>1. p \in PackageNames /\ Filed(p, file)
  BY DEF SurveyInv, RouterInv, EmittedInv
<1>2. PICK k \in Known(p) : k.id = e.id /\ k.label # "" /\ e.section = <<k.label>>
  BY DEF SurveyInv, EmittedInv
<1>3. Len(e.section) = 1 /\ e.section[1] = k.label
  <2> DEFINE w == <<k.label>>
  <2>1. Len(w) = 1 /\ w[1] = k.label
    OBVIOUS
  <2> HIDE DEF w
  <2>2. e.section = w
    BY <1>2 DEF w
  <2>3. QED
    BY <2>1, <2>2
<1>4. At(Body(p), e.section) = {raw \in Body(p) : raw.name = k.label}
  BY <1>3 DEF At
<1> HIDE DEF p, file
<1>5. ASSUME NEW raw \in Body(p), raw.name = k.label
      PROVE  raw.id = e.id
  <2>1. PICK i \in DOMAIN file : raw = RawSection(file[i], i, decodes)
    BY <1>5 DEF Body, BodyOf, file
  <2>2. i \in 1 .. Longest
    BY <1>1, LongestIs DEF Filed
  <2>3. raw.id = file[i].id /\ raw.name = Name(file[i], i)
    BY <2>1 DEF RawSection
  <2>4. PICK l \in Known(p) : l.id = file[i].id /\ l.label = file[i].label /\ l.lists = file[i].lists
    BY <1>1 DEF Filed
  <2>5. file[i].label # ""
    BY <1>1, <1>2, <1>5, <2>2, <2>3, GeneratedNames DEF Name
  <2>6. k.label = l.label
    BY <1>5, <2>3, <2>4, <2>5 DEF Name
  <2>7. k.id = l.id
    BY <1>1, <1>2, <2>6, RouterAssumption
  <2>8. QED
    BY <1>2, <2>3, <2>4, <2>7
<1>6. \A raw \in At(Body(p), e.section) : raw.id = e.id
  BY <1>4, <1>5
<1>7. QED
  BY <1>6 DEF p

(* Whatever an editor does later, an address that was emitted as stable    *)
(* denotes the section it was emitted for, or none (emit.rs, Scope).       *)
THEOREM StableAddressesKept == Spec => []StableAddressesStayPut
<1>1. SurveyInv => StableAddressesStayPut
  BY LabelsStayPut DEF StableAddressesStayPut
<1>2. QED
  BY <1>1, SurveyInvariant, PTL

(* What an import says is what was parsed. *)
LEMMA ImportIs ==
  ASSUME NEW A, NEW decoded, Answered(A, decoded), Surveyed(A, decoded), NEW scope,
         NEW e \in Imports(Survey(A).packages, scope)
  PROVE  \E t \in SpotsOf(A, "managed") :
           e = [to |-> TerraformAddress(ParsedAt(A, t)), package |-> A[t[1]].name,
                section |-> AsUci(ParsedAt(A, t)), id |-> RawAt(A, t).id]
<1>1. PICK s \in InScope(SectionsOf(Survey(A).packages, "managed"), scope) :
        e = [to |-> TerraformAddress(s), package |-> s.package, section |-> AsUci(s), id |-> s.id]
  BY DEF Imports
<1>2. s \in SectionsOf(Survey(A).packages, "managed")
  BY <1>1 DEF InScope
<1>3. SectionsOf(Survey(A).packages, "managed") = {ParsedAt(A, u) : u \in SpotsOf(A, "managed")}
  BY SectionsAre
<1> PICK t \in SpotsOf(A, "managed") : s = ParsedAt(A, t)
  BY <1>2, <1>3
<1>4. s.package = A[t[1]].name /\ s.id = RawAt(A, t).id
  BY DEF ParsedAt, ParseSection, RawAt
<1>5. QED
  BY <1>1, <1>4

LEMMA SpotIs ==
  ASSUME NEW A, NEW decoded, Answered(A, decoded), Surveyed(A, decoded),
         NEW d, NEW t \in SpotsOf(A, d)
  PROVE  /\ t \in Spots(A) /\ t = <<t[1], t[2]>>
         /\ t[1] \in 1 .. Len(A) /\ t[2] \in 1 .. Len(FileOf(A, t[1]))
         /\ Classify(A[t[1]].name) = d
         /\ A[t[1]].name \in PackageNames
         /\ A[t[1]].body = ToSet(FileOf(A, t[1]))
         /\ Reading(A[t[1]].name, FileOf(A, t[1]), decoded)
<1>1. t \in Spots(A) /\ Classify(A[t[1]].name) = d
  BY DEF SpotsOf
<1>2. t = <<t[1], t[2]>> /\ t[1] \in 1 .. Len(A) /\ t[2] \in 1 .. Len(FileOf(A, t[1]))
  BY <1>1, SpotsAre
<1>3. QED
  BY <1>1, <1>2 DEF Surveyed

LEMMA ImportResolves ==
  ASSUME NEW A, NEW decoded \in BOOLEAN, Answered(A, decoded), Surveyed(A, decoded),
         NEW scope, NEW e \in Imports(Survey(A).packages, scope),
         NEW i \in 1 .. Len(A), A[i].name = e.package
  PROVE  {raw.id : raw \in At(A[i].body, e.section)} = {e.id}
<1>1. PICK t \in SpotsOf(A, "managed") :
        e = [to |-> TerraformAddress(ParsedAt(A, t)), package |-> A[t[1]].name,
             section |-> AsUci(ParsedAt(A, t)), id |-> RawAt(A, t).id]
  BY ImportIs
<1>2. /\ t[1] \in 1 .. Len(A) /\ t[2] \in 1 .. Len(FileOf(A, t[1]))
      /\ A[t[1]].name \in PackageNames
      /\ A[t[1]].body = ToSet(FileOf(A, t[1]))
      /\ Reading(A[t[1]].name, FileOf(A, t[1]), decoded)
  BY SpotIs
<1>3. i = t[1]
  BY <1>1, <1>2 DEF Answered
<1>4. At(ToSet(FileOf(A, t[1])), AsUci(ParseSection(A[t[1]].name, FileOf(A, t[1]), t[2])))
        = {FileOf(A, t[1])[t[2]]}
  BY <1>2, AddressResolves
<1>5. At(A[i].body, e.section) = {RawAt(A, t)}
  BY <1>1, <1>2, <1>3, <1>4 DEF ParsedAt, RawAt
<1>6. QED
  BY <1>1, <1>5

LEMMA StableIs ==
  ASSUME NEW A, NEW decoded \in BOOLEAN, Answered(A, decoded), Surveyed(A, decoded),
         NEW t \in SpotsOf(A, "managed"), Len(AsUci(ParsedAt(A, t))) = 1
  PROVE  /\ TerraformAddress(ParsedAt(A, t)) = A[t[1]].name \o "_" \o RawAt(A, t).name
         /\ A[t[1]].name \in PackageNames \cap Managed
         /\ Labelled(A[t[1]].name, RawAt(A, t))
<1> DEFINE p == A[t[1]].name
           raw == RawAt(A, t)
           s == ParsedAt(A, t)
<1>1. /\ t[1] \in 1 .. Len(A) /\ t[2] \in 1 .. Len(FileOf(A, t[1]))
      /\ p \in PackageNames /\ Classify(p) = "managed"
  BY SpotIs
<1>2. s.package = p /\ s.name = raw.name /\ s.anonymous = IsAnonymous(raw)
  BY DEF ParsedAt, ParseSection, RawAt
<1>3. /\ IsAnonymous(raw) \in BOOLEAN
      /\ ~IsAnonymous(raw) => Labelled(p, raw)
  BY <1>1, ReadNamedIs DEF RawAt
<1>4. Len(AsUci(s)) = 1
  OBVIOUS
<1> HIDE DEF p, s, raw
<1>5. ~s.anonymous
  <2>1. Len(<<s.type, s.typeIndex>>) = 2
    OBVIOUS
  <2>2. QED
    BY <1>4, <2>1 DEF AsUci
<1>6. TerraformAddress(s) = p \o "_" \o raw.name
  BY <1>2, <1>5 DEF TerraformAddress
<1>7. ~IsAnonymous(raw)
  BY <1>2, <1>5
<1>8. p \in Managed
  BY <1>1, ClassifyIs
<1>9. QED
  BY <1>1, <1>3, <1>6, <1>7, <1>8 DEF p, s, raw

LEMMA StableImportsDiffer ==
  ASSUME NEW A, NEW decoded \in BOOLEAN, Answered(A, decoded), Surveyed(A, decoded),
         NEW scope, NEW e \in Imports(Survey(A).packages, scope),
         NEW f \in Imports(Survey(A).packages, scope),
         e.to = f.to, Len(e.section) = 1, Len(f.section) = 1
  PROVE  e = f
<1>1. PICK t \in SpotsOf(A, "managed") :
        e = [to |-> TerraformAddress(ParsedAt(A, t)), package |-> A[t[1]].name,
             section |-> AsUci(ParsedAt(A, t)), id |-> RawAt(A, t).id]
  BY ImportIs
<1>2. PICK u \in SpotsOf(A, "managed") :
        f = [to |-> TerraformAddress(ParsedAt(A, u)), package |-> A[u[1]].name,
             section |-> AsUci(ParsedAt(A, u)), id |-> RawAt(A, u).id]
  BY ImportIs
<1> DEFINE p == A[t[1]].name
           q == A[u[1]].name
<1>3. /\ e.to = p \o "_" \o RawAt(A, t).name
      /\ p \in PackageNames \cap Managed /\ Labelled(p, RawAt(A, t))
  <2>1. Len(AsUci(ParsedAt(A, t))) = 1 /\ e.to = TerraformAddress(ParsedAt(A, t))
    BY <1>1
  <2>2. QED
    BY <2>1, StableIs
<1>4. /\ f.to = q \o "_" \o RawAt(A, u).name
      /\ q \in PackageNames \cap Managed /\ Labelled(q, RawAt(A, u))
  <2>1. Len(AsUci(ParsedAt(A, u))) = 1 /\ f.to = TerraformAddress(ParsedAt(A, u))
    BY <1>2
  <2>2. QED
    BY <2>1, StableIs
<1>5. PICK k \in Known(p) : k.label # "" /\ RawAt(A, t).name = k.label
  BY <1>3 DEF Labelled
<1>6. PICK l \in Known(q) : l.label # "" /\ RawAt(A, u).name = l.label
  BY <1>4 DEF Labelled
<1>7. p = q /\ k.label = l.label
  <2>1. p \o "_" \o k.label = q \o "_" \o l.label
    BY <1>3, <1>4, <1>5, <1>6
  <2> HIDE DEF p, q
  <2>2. QED
    BY <1>3, <1>4, <1>5, <1>6, <2>1, AddressesDiffer
<1>8. /\ t[1] \in 1 .. Len(A) /\ t[2] \in 1 .. Len(FileOf(A, t[1]))
      /\ t = <<t[1], t[2]>> /\ Reading(p, FileOf(A, t[1]), decoded)
  BY SpotIs
<1>9. /\ u[1] \in 1 .. Len(A) /\ u[2] \in 1 .. Len(FileOf(A, u[1]))
      /\ u = <<u[1], u[2]>>
  BY SpotIs
<1>10. t[1] = u[1]
  BY <1>7, <1>8, <1>9 DEF Answered
<1>11. t[2] = u[2]
  <2>1. FileOf(A, t[1])[t[2]].name = FileOf(A, t[1])[u[2]].name
    BY <1>5, <1>6, <1>7, <1>10 DEF RawAt
  <2> HIDE DEF p
  <2>2. QED
    BY <1>3, <1>8, <1>9, <1>10, <2>1, NamesDiffer
<1>12. t = u
  BY <1>8, <1>9, <1>10, <1>11
<1>13. QED
  BY <1>1, <1>2, <1>12

(* An import names the section it is about, as uci resolves its id, and no *)
(* two stable ones have one terraform address (emit.rs, imports).          *)
THEOREM ImportsFindTheirSections == Spec => []ImportsResolve
<1>1. SurveyInv => ImportsResolve
  <2> SUFFICES ASSUME SurveyInv, output.kind = "imports"
               PROVE  ImportsResolve
    BY DEF ImportsResolve
  <2>1. Answered(answers, decodes) /\ decodes \in BOOLEAN
    BY DEF SurveyInv, AnswersInv, RouterInv
  <2>2. Surveyed(answers, decodes) /\ DOMAIN answers = 1 .. Len(answers)
    <3>1. Survey(answers).refused = "none"
      BY DEF SurveyInv, OutputInv, ConcludedWell
    <3>2. QED
      BY <2>1, <3>1, SurveyedIs, AnsweredIs
  <2>3. PICK scope \in Scopes : output.of = Imports(Survey(answers).packages, scope)
    BY DEF SurveyInv, OutputInv
  <2>4. ASSUME NEW e \in output.of, NEW i \in DOMAIN answers, answers[i].name = e.package
        PROVE  {raw.id : raw \in At(answers[i].body, e.section)} = {e.id}
    <3>1. e \in Imports(Survey(answers).packages, scope) /\ i \in 1 .. Len(answers)
      BY <2>2, <2>3
    <3>2. QED
      BY <2>1, <2>2, <2>4, <3>1, ImportResolves
  <2>5. \A e, f \in output.of :
          e.to = f.to /\ Len(e.section) = 1 /\ Len(f.section) = 1 => e = f
    BY <2>1, <2>2, <2>3, StableImportsDiffer
  <2>6. QED
    BY <2>4, <2>5 DEF ImportsResolve
<1>2. QED
  BY <1>1, SurveyInvariant, PTL

-----------------------------------------------------------------------------
(***************************************************************************)
(* Secrets.                                                                *)
(***************************************************************************)

(* SetToSeq lists every element of a finite set once. *)
LEMMA ListedIs ==
  ASSUME NEW S, IsFiniteSet(S)
  PROVE  LET c == SetToSeq(S)
         IN  /\ Cardinality(S) \in Nat /\ c \in [1 .. Cardinality(S) -> S]
             /\ \A k, l \in 1 .. Cardinality(S) : c[k] = c[l] => k = l
             /\ \A v \in S : \E k \in 1 .. Cardinality(S) : c[k] = v
<1> DEFINE n == Cardinality(S)
           T == 1 .. n
           c == SetToSeq(S)
<1>1. n \in Nat /\ ExistsBijection(T, S)
  BY FS_CardinalityType
<1>2. IsFiniteSet(T) /\ Cardinality(T) = n
  BY <1>1, UpTo
<1>3. \E f \in [T -> S] : IsInjective(f)
  <2>1. PICK f \in Bijection(T, S) : TRUE
    BY <1>1 DEF ExistsBijection
  <2>2. f \in [T -> S] /\ \A a, b \in T : f[a] = f[b] => a = b
    BY <2>1 DEF Bijection, Injection, IsInjective
  <2> HIDE DEF T
  <2>3. IsInjective(f)
    BY <2>2 DEF IsInjective
  <2>4. QED
    BY <2>2, <2>3
<1>4. c \in [T -> S] /\ IsInjective(c)
  <2>1. c = CHOOSE f \in [T -> S] : IsInjective(f)
    BY DEF SetToSeq
  <2> HIDE DEF c, T
  <2>2. QED
    BY <1>3, <2>1
<1> HIDE DEF T, c
<1>5. \A a, b \in T : c[a] = c[b] => a = b
  BY <1>4 DEF IsInjective
<1>6. c \in Injection(T, S)
  BY <1>4, <1>5, Fun_IsInj
<1>7. c \in Surjection(T, S)
  BY <1>2, <1>6, FS_Injection DEF n
<1>8. \A v \in S : \E k \in T : c[k] = v
  BY <1>7 DEF Surjection
<1>9. QED
  BY <1>1, <1>4, <1>5, <1>8 DEF T, c

(* The items of the lists a section may have are as they may be. *)
LEMMA ItemsAre ==
  ASSUME NEW p, NEW k \in Known(p), NEW o \in DOMAIN k.lists, NEW v \in ToSet(k.lists[o])
  PROVE  <<o, v>> \in Items(p)
<1>1. <<o, v>> \in {<<o, u>> : u \in ToSet(k.lists[o])}
  OBVIOUS
<1>2. <<o, v>> \in UNION {{<<q, u>> : u \in ToSet(k.lists[q])} : q \in DOMAIN k.lists}
  BY <1>1
<1>3. QED
  BY <1>2 DEF Items

(* What is set of a section that was read is as it may be set. *)
LEMMA SetIs ==
  ASSUME NEW A, NEW decoded, Answered(A, decoded), Surveyed(A, decoded),
         NEW i \in 1 .. Len(A), NEW raw \in A[i].body
  PROVE  /\ DOMAIN raw = RawFields /\ A[i].name \in PackageNames
         /\ \A o \in DOMAIN raw.options : <<o, raw.options[o]>> \in Settings(A[i].name)
         /\ \A o \in DOMAIN raw.lists : \A v \in ToSet(raw.lists[o]) :
              <<o, v>> \in Items(A[i].name)
<1>1. A[i].name \in PackageNames /\ Reading(A[i].name, FileOf(A, i), decoded)
  BY DEF Surveyed
<1>2. A[i].body = ToSet(FileOf(A, i))
  BY DEF Surveyed
<1>3. ToSet(FileOf(A, i)) = {FileOf(A, i)[j] : j \in 1 .. Len(FileOf(A, i))}
  BY <1>1, ReadingIs
<1>4. PICK j \in 1 .. Len(FileOf(A, i)) : raw = FileOf(A, i)[j]
  BY <1>2, <1>3
<1>5. Answerable(A[i].name, raw, decoded)
  BY <1>1, <1>4 DEF Reading
<1>6. PICK k \in Known(A[i].name) : k.lists = raw.lists
  BY <1>5 DEF Answerable
<1>7. \A o \in DOMAIN raw.lists : \A v \in ToSet(raw.lists[o]) : <<o, v>> \in Items(A[i].name)
  BY <1>6, ItemsAre
<1>8. QED
  BY <1>1, <1>5, <1>7 DEF Answerable

LEMMA ParsedIs ==
  ASSUME NEW A, NEW decoded, Answered(A, decoded), Surveyed(A, decoded),
         NEW d, NEW s \in SectionsOf(Survey(A).packages, d)
  PROVE  /\ s.package \in PackageNames /\ Classify(s.package) = d
         /\ DOMAIN s = {"package", "id", "name", "type", "anonymous", "typeIndex",
                        "options", "lists", "secrets"}
         /\ \A o \in DOMAIN s.options :
              ~OptionIsSecret(o) /\ <<o, s.options[o]>> \in Settings(s.package)
         /\ \A o \in DOMAIN s.lists :
              /\ ~OptionIsSecret(o)
              /\ \A v \in ToSet(s.lists[o]) : <<o, v>> \in Items(s.package)
<1>1. SectionsOf(Survey(A).packages, d) = {ParsedAt(A, u) : u \in SpotsOf(A, d)}
  BY SectionsAre
<1> PICK t \in SpotsOf(A, d) : s = ParsedAt(A, t)
  BY <1>1
<1> DEFINE p == A[t[1]].name
           raw == RawAt(A, t)
<1>2. /\ t[1] \in 1 .. Len(A) /\ t[2] \in 1 .. Len(FileOf(A, t[1]))
      /\ Classify(p) = d /\ A[t[1]].body = ToSet(FileOf(A, t[1]))
      /\ Reading(p, FileOf(A, t[1]), decoded)
  BY SpotIs
<1>3. raw \in A[t[1]].body
  <2>1. ToSet(FileOf(A, t[1])) = {FileOf(A, t[1])[j] : j \in 1 .. Len(FileOf(A, t[1]))}
    BY <1>2, ReadingIs
  <2>2. QED
    BY <1>2, <2>1 DEF RawAt
<1>4. /\ p \in PackageNames /\ \A o \in DOMAIN raw.options : <<o, raw.options[o]>> \in Settings(p)
      /\ \A o \in DOMAIN raw.lists : \A v \in ToSet(raw.lists[o]) : <<o, v>> \in Items(p)
  BY <1>2, <1>3, SetIs
<1>5. s = [package |-> p, id |-> raw.id, name |-> raw.name, type |-> raw.type,
           anonymous |-> IsAnonymous(raw), typeIndex |-> TypeIndex(FileOf(A, t[1]), t[2]),
           options |-> Restrict(raw.options, DOMAIN raw.options \ SecretNames(raw)),
           lists |-> Restrict(raw.lists, DOMAIN raw.lists \ SecretNames(raw)),
           secrets |-> SecretNames(raw)]
  BY DEF ParsedAt, ParseSection, RawAt
<1> HIDE DEF p, raw
<1>6. /\ s.package = p
      /\ s.options = Restrict(raw.options, DOMAIN raw.options \ SecretNames(raw))
      /\ s.lists = Restrict(raw.lists, DOMAIN raw.lists \ SecretNames(raw))
      /\ DOMAIN s = {"package", "id", "name", "type", "anonymous", "typeIndex",
                     "options", "lists", "secrets"}
  BY <1>5
<1>7. /\ \A o \in DOMAIN raw.options \ SecretNames(raw) : ~OptionIsSecret(o)
      /\ \A o \in DOMAIN raw.lists \ SecretNames(raw) : ~OptionIsSecret(o)
  BY DEF SecretNames, OptionNames
<1>8. \A o \in DOMAIN s.options :
        o \in DOMAIN raw.options \ SecretNames(raw) /\ s.options[o] = raw.options[o]
  BY <1>6 DEF Restrict
<1>9. \A o \in DOMAIN s.lists :
        o \in DOMAIN raw.lists \ SecretNames(raw) /\ s.lists[o] = raw.lists[o]
  BY <1>6 DEF Restrict
<1>10. QED
  BY <1>2, <1>4, <1>6, <1>7, <1>8, <1>9 DEF p

LEMMA NothingDeclared ==
  ASSUME NEW A, NEW decoded, Answered(A, decoded), Surveyed(A, decoded), NEW scope,
         NEW D, D \in {HelmValues(Survey(A).packages, scope),
                       HelmValuesYaml(Survey(A).packages, scope)},
         NEW c \in D, NEW o \in DOMAIN c.values
  PROVE  c.values[o] \notin Material
<1> DEFINE inv == Survey(A).packages
           M == InScope(SectionsOf(inv, "managed"), scope)
<1>1. PICK s \in M \cup StructuralSections(inv, scope) : c = Declaration(s)
  BY DEF HelmValues, HelmValuesYaml
<1>2. c.values = s.options
  BY <1>1 DEF Declaration
<1> HIDE DEF inv
<1>3. CASE s \in M
  <2>1. s \in SectionsOf(inv, "managed")
    BY <1>3 DEF InScope
  <2>2. /\ s.package \in PackageNames /\ Classify(s.package) = "managed"
        /\ ~OptionIsSecret(o) /\ <<o, s.options[o]>> \in Settings(s.package)
    BY <1>2, <2>1, ParsedIs DEF inv
  <2>3. ~ScrubbedWhole(s.package)
    BY <2>2 DEF ScrubbedWhole
  <2> DEFINE w == <<o, s.options[o]>>
  <2>4. w[1] = o /\ w[2] = s.options[o]
    OBVIOUS
  <2> HIDE DEF w
  <2>5. w[2] \notin Material
    BY <2>2, <2>3, <2>4, SecretsAreWhereClassified DEF w
  <2>6. QED
    BY <1>2, <2>4, <2>5
<1>4. CASE s \in StructuralSections(inv, scope)
  <2>1. PICK q \in InScope(SectionsOf(inv, "secret"), scope) : s = StructuralPart(q)
    BY <1>4 DEF StructuralSections
  <2>2. q \in SectionsOf(inv, "secret")
    BY DEF InScope
  <2>3. /\ q.package \in PackageNames
        /\ DOMAIN q = {"package", "id", "name", "type", "anonymous", "typeIndex",
                       "options", "lists", "secrets"}
        /\ \A n \in DOMAIN q.options :
             ~OptionIsSecret(n) /\ <<n, q.options[n]>> \in Settings(q.package)
    BY <2>2, ParsedIs DEF inv
  <2>4. s.options = Restrict(q.options, {n \in DOMAIN q.options : IsStructural(n)})
    BY <2>1, <2>3 DEF StructuralPart
  <2>5. o \in DOMAIN q.options /\ IsStructural(o) /\ s.options[o] = q.options[o]
    BY <1>2, <2>4 DEF Restrict
  <2>6. ~OptionIsSecret(o) /\ o \in Structural
    BY <2>5 DEF IsStructural
  <2> DEFINE w == <<o, q.options[o]>>
  <2>7. w[1] = o /\ w[2] = q.options[o] /\ w \in Settings(q.package)
    BY <2>3, <2>5
  <2> HIDE DEF w
  <2>8. w[2] \notin Material
    BY <2>3, <2>6, <2>7, SecretsAreWhereClassified
  <2>9. QED
    BY <1>2, <2>5, <2>7, <2>8
<1>5. QED
  BY <1>1, <1>3, <1>4

LEMMA NoItemDeclared ==
  ASSUME NEW A, NEW decoded, Answered(A, decoded), Surveyed(A, decoded), NEW scope,
         NEW D, D \in {HelmValues(Survey(A).packages, scope),
                       HelmValuesYaml(Survey(A).packages, scope)},
         NEW c \in D, NEW o \in DOMAIN c.lists, NEW v \in ToSet(c.lists[o])
  PROVE  v \notin Material
<1> DEFINE inv == Survey(A).packages
           M == InScope(SectionsOf(inv, "managed"), scope)
           w == <<o, v>>
<1>1. PICK s \in M \cup StructuralSections(inv, scope) : c = Declaration(s)
  BY DEF HelmValues, HelmValuesYaml
<1>2. c.lists = s.lists
  BY <1>1 DEF Declaration
<1>3. w[1] = o /\ w[2] = v
  OBVIOUS
<1> HIDE DEF inv
<1>4. CASE s \in M
  <2>1. s \in SectionsOf(inv, "managed")
    BY <1>4 DEF InScope
  <2>2. /\ s.package \in PackageNames /\ Classify(s.package) = "managed"
        /\ ~OptionIsSecret(o) /\ w \in Items(s.package)
    BY <1>2, <2>1, ParsedIs DEF inv
  <2>3. ~ScrubbedWhole(s.package)
    BY <2>2 DEF ScrubbedWhole
  <2> HIDE DEF w
  <2>4. QED
    BY <1>3, <2>2, <2>3, SecretsAreWhereClassified
<1>5. CASE s \in StructuralSections(inv, scope)
  <2>1. PICK q \in InScope(SectionsOf(inv, "secret"), scope) : s = StructuralPart(q)
    BY <1>5 DEF StructuralSections
  <2>2. q \in SectionsOf(inv, "secret")
    BY DEF InScope
  <2>3. /\ q.package \in PackageNames
        /\ DOMAIN q = {"package", "id", "name", "type", "anonymous", "typeIndex",
                       "options", "lists", "secrets"}
        /\ \A n \in DOMAIN q.lists :
             /\ ~OptionIsSecret(n)
             /\ \A u \in ToSet(q.lists[n]) : <<n, u>> \in Items(q.package)
    BY <2>2, ParsedIs DEF inv
  <2>4. s.lists = Restrict(q.lists, {n \in DOMAIN q.lists : IsStructural(n)})
    BY <2>1, <2>3 DEF StructuralPart
  <2>5. o \in DOMAIN q.lists /\ IsStructural(o) /\ s.lists[o] = q.lists[o]
    BY <1>2, <2>4 DEF Restrict
  <2>6. ~OptionIsSecret(o) /\ o \in Structural
    BY <2>5 DEF IsStructural
  <2>7. w \in Items(q.package)
    BY <1>2, <2>3, <2>5
  <2> HIDE DEF w
  <2>8. QED
    BY <1>3, <2>3, <2>6, <2>7, SecretsAreWhereClassified
<1>6. QED
  BY <1>1, <1>4, <1>5

LEMMA SecretsAre ==
  ASSUME NEW A, NEW decoded, Answered(A, decoded), Surveyed(A, decoded)
  PROVE  /\ IsFiniteSet(Secrets(A)) /\ Cardinality(Secrets(A)) <= Cardinality(Values)
         /\ Cardinality(Secrets(A)) \in Nat /\ Cardinality(Values) \in Nat
         /\ \A i \in 1 .. Len(A) : \A raw \in A[i].body : \A o \in DOMAIN raw.options :
              Scrubbed(A[i].name, o, raw.options[o]) => raw.options[o] \in Secrets(A)
<1>1. DOMAIN A = 1 .. Len(A)
  BY AnsweredIs
<1>2. ASSUME NEW v \in Secrets(A)
      PROVE  v \in Values
  <2>1. PICK i \in 1 .. Len(A) : v \in UNION {SecretsOf(A[i].name, raw) : raw \in A[i].body}
    BY <1>1, <1>2 DEF Secrets
  <2>2. PICK raw \in A[i].body : v \in SecretsOf(A[i].name, raw)
    BY <2>1
  <2>3. PICK o \in DOMAIN raw.options : v = raw.options[o]
    BY <2>2 DEF SecretsOf
  <2> DEFINE w == <<o, raw.options[o]>>
  <2>4. w \in Settings(A[i].name) /\ A[i].name \in PackageNames /\ w[2] = v
    BY <2>3, SetIs
  <2> HIDE DEF w
  <2>5. QED
    BY <2>4 DEF Values
<1>3. IsFiniteSet(Values) /\ Secrets(A) \in SUBSET Values
  BY <1>2, RouterAssumption
<1>4. /\ IsFiniteSet(Secrets(A)) /\ Cardinality(Secrets(A)) <= Cardinality(Values)
      /\ Cardinality(Secrets(A)) \in Nat /\ Cardinality(Values) \in Nat
  <2>1. IsFiniteSet(Secrets(A)) /\ Cardinality(Secrets(A)) <= Cardinality(Values)
    BY <1>3, FS_Subset
  <2>2. Cardinality(Secrets(A)) \in Nat /\ Cardinality(Values) \in Nat
    BY <1>3, <2>1, FS_CardinalityType
  <2>3. QED
    BY <2>1, <2>2
<1>5. ASSUME NEW i \in 1 .. Len(A), NEW raw \in A[i].body, NEW o \in DOMAIN raw.options,
             Scrubbed(A[i].name, o, raw.options[o])
      PROVE  raw.options[o] \in Secrets(A)
  <2>1. raw.options[o] \in SecretsOf(A[i].name, raw)
    BY <1>5 DEF SecretsOf
  <2>2. raw.options[o] \in UNION {SecretsOf(A[i].name, q) : q \in A[i].body}
    BY <2>1
  <2>3. Secrets(A) = UNION {UNION {SecretsOf(A[j].name, q) : q \in A[j].body} : j \in 1 .. Len(A)}
    BY <1>1 DEF Secrets
  <2>4. QED
    BY <2>2, <2>3
<1>6. QED
  BY <1>4, <1>5

(* A placeholder is a number, and tells one secret from another.           *)
LEMMA PlaceholderIs ==
  ASSUME NEW A, NEW decoded, Answered(A, decoded), Surveyed(A, decoded),
         NEW v \in Secrets(A)
  PROVE  /\ Placeholder(SetToSeq(Secrets(A)), v) \notin Material \cup {""}
         /\ \A u \in Secrets(A) :
              Placeholder(SetToSeq(Secrets(A)), u) = Placeholder(SetToSeq(Secrets(A)), v) => u = v
<1> DEFINE S == Secrets(A)
           n == Cardinality(S)
           c == SetToSeq(S)
           Number(u) == CHOOSE k \in 1 .. n : c[k] = u
<1>1. IsFiniteSet(S) /\ n \in Nat /\ n <= Cardinality(Values) /\ Cardinality(Values) \in Nat
  BY SecretsAre
<1>2. /\ DOMAIN c = 1 .. n
      /\ \A u \in S : \E k \in 1 .. n : c[k] = u
  BY <1>1, ListedIs
<1> HIDE DEF S, n, c
<1>3. ASSUME NEW u \in S
      PROVE  /\ Number(u) \in 1 .. n /\ c[Number(u)] = u /\ Number(u) \in 1 .. Cardinality(Values)
             /\ Placeholder(c, u) = Numbered(Number(u))
  <2>1. Number(u) \in 1 .. n /\ c[Number(u)] = u
    BY <1>2
  <2>2. Placeholder(c, u) = Numbered(Number(u))
    BY <1>2 DEF Placeholder
  <2>3. \A k \in 1 .. n : k \in 1 .. Cardinality(Values)
    BY <1>1
  <2> HIDE DEF Number
  <2>4. QED
    BY <2>1, <2>2, <2>3
<1> HIDE DEF Number
<1>4. v \in S
  BY DEF S
<1>5. Placeholder(c, v) \notin Material \cup {""}
  BY <1>3, <1>4, PlaceholdersDiffer
<1>6. \A u \in S : Placeholder(c, u) = Placeholder(c, v) => u = v
  <2> SUFFICES ASSUME NEW u \in S, Placeholder(c, u) = Placeholder(c, v) PROVE u = v
    OBVIOUS
  <2>1. Numbered(Number(u)) = Numbered(Number(v))
    BY <1>3, <1>4
  <2>2. Number(u) = Number(v)
    BY <1>3, <1>4, <2>1, PlaceholdersDiffer
  <2>3. QED
    BY <1>3, <1>4, <2>2
<1>7. QED
  BY <1>5, <1>6 DEF S, c

LEMMA ScrubIs ==
  ASSUME NEW p, NEW c, NEW raw, DOMAIN raw = RawFields
  PROVE  LET s == Scrub(p, raw, c)
         IN  /\ DOMAIN s = RawFields /\ s.id = raw.id /\ s.name = raw.name /\ s.type = raw.type
             /\ s.index = raw.index /\ s.anonymous = raw.anonymous /\ s.lists = raw.lists
             /\ DOMAIN s.options = DOMAIN raw.options
             /\ \A o \in DOMAIN raw.options :
                  s.options[o] = IF Scrubbed(p, o, raw.options[o])
                                   THEN Placeholder(c, raw.options[o]) ELSE raw.options[o]
<1> DEFINE u == [o \in DOMAIN raw.options |->
                   IF Scrubbed(p, o, raw.options[o]) THEN Placeholder(c, raw.options[o])
                   ELSE raw.options[o]]
           s == Scrub(p, raw, c)
<1>1. s = [raw EXCEPT !.options = u]
  BY DEF Scrub
<1>2. /\ DOMAIN u = DOMAIN raw.options
      /\ \A o \in DOMAIN raw.options :
           u[o] = IF Scrubbed(p, o, raw.options[o])
                    THEN Placeholder(c, raw.options[o]) ELSE raw.options[o]
  OBVIOUS
<1> HIDE DEF u, s
<1>3. /\ DOMAIN s = RawFields /\ s.id = raw.id /\ s.name = raw.name /\ s.type = raw.type
      /\ s.index = raw.index /\ s.anonymous = raw.anonymous /\ s.lists = raw.lists
      /\ s.options = u
  BY <1>1 DEF RawFields
<1>4. QED
  BY <1>2, <1>3 DEF s

LEMMA FixtureIs ==
  ASSUME NEW A, NEW decoded, Answered(A, decoded), Surveyed(A, decoded)
  PROVE  LET F == Fixture(A)
             c == SetToSeq(Secrets(A))
         IN  /\ Len(F) = Len(A) /\ F = [i \in 1 .. Len(A) |-> F[i]]
             /\ \A i \in 1 .. Len(A) :
                  /\ F[i] = [name |-> F[i].name, body |-> F[i].body]
                  /\ F[i].name = A[i].name
                  /\ F[i].body = {Scrub(A[i].name, raw, c) : raw \in A[i].body}
<1> DEFINE F == Fixture(A)
           c == SetToSeq(Secrets(A))
           B(i) == {Scrub(A[i].name, raw, c) : raw \in A[i].body}
           f(i) == [A[i] EXCEPT !.body = B(i)]
<1>1. Len(A) \in Nat /\ DOMAIN A = 1 .. Len(A)
  BY AnsweredIs
<1>2. F = [i \in 1 .. Len(A) |-> f(i)]
  BY <1>1 DEF Fixture
<1>3. ASSUME NEW i \in 1 .. Len(A)
      PROVE  f(i) = [name |-> A[i].name, body |-> B(i)]
  <2>1. A[i] = [name |-> A[i].name, body |-> A[i].body]
    BY DEF Answered, Surveyed
  <2> HIDE DEF B
  <2>2. QED
    BY <2>1
<1> HIDE DEF F, f
<1>4. Len(F) = Len(A) /\ F = [i \in 1 .. Len(A) |-> F[i]]
  BY <1>1, <1>2
<1>5. ASSUME NEW i \in 1 .. Len(A)
      PROVE  /\ F[i] = [name |-> F[i].name, body |-> F[i].body]
             /\ F[i].name = A[i].name /\ F[i].body = B(i)
  <2> HIDE DEF B
  <2>1. F[i] = [name |-> A[i].name, body |-> B(i)]
    BY <1>2, <1>3
  <2>2. QED
    BY <2>1
<1>6. QED
  BY <1>4, <1>5 DEF F

LEMMA NothingCaptured ==
  ASSUME NEW A, NEW decoded, Answered(A, decoded), Surveyed(A, decoded),
         NEW i \in 1 .. Len(A), NEW s \in Fixture(A)[i].body, NEW o \in DOMAIN s.options
  PROVE  s.options[o] \notin Material
<1> DEFINE c == SetToSeq(Secrets(A))
           p == A[i].name
<1>1. PICK raw \in A[i].body : s = Scrub(p, raw, c)
  <2>1. Fixture(A)[i].body = {Scrub(p, raw, c) : raw \in A[i].body}
    BY FixtureIs
  <2>2. QED
    BY <2>1
<1>2. /\ DOMAIN raw = RawFields /\ p \in PackageNames
      /\ \A n \in DOMAIN raw.options : <<n, raw.options[n]>> \in Settings(p)
  BY SetIs
<1>3. /\ o \in DOMAIN raw.options
      /\ s.options[o] = IF Scrubbed(p, o, raw.options[o])
                          THEN Placeholder(c, raw.options[o]) ELSE raw.options[o]
  BY <1>1, <1>2, ScrubIs
<1>4. CASE Scrubbed(p, o, raw.options[o])
  <2>1. raw.options[o] \in Secrets(A)
    BY <1>3, <1>4, SecretsAre
  <2>2. Placeholder(c, raw.options[o]) \notin Material \cup {""}
    BY <2>1, PlaceholderIs
  <2>3. QED
    BY <1>3, <1>4, <2>2
<1>5. CASE ~Scrubbed(p, o, raw.options[o])
  <2> DEFINE w == <<o, raw.options[o]>>
  <2>1. w \in Settings(p) /\ w[1] = o /\ w[2] = raw.options[o]
    BY <1>2, <1>3
  <2> HIDE DEF w, p
  <2>2. w[2] \in Material => OptionIsSecret(o) \/ (ScrubbedWhole(p) /\ o \notin Structural)
    BY <1>2, <2>1, SecretsAreWhereClassified
  <2>3. w[2] \in Material => w[2] # ""
    BY SecretsAreWhereClassified
  <2>4. w[2] \notin Material
    BY <1>5, <2>1, <2>2, <2>3 DEF Scrubbed, IsStructural
  <2>5. QED
    BY <1>3, <1>5, <2>1, <2>4
<1>6. QED
  BY <1>4, <1>5

(* The items of the lists of a fixture are those of the router. *)
LEMMA ListsAreKept ==
  ASSUME NEW A, NEW decoded, Answered(A, decoded), Surveyed(A, decoded)
  PROVE  DOMAIN Fixture(A) = DOMAIN A /\ ListItems(Fixture(A)) = ListItems(A)
<1> DEFINE F == Fixture(A)
           c == SetToSeq(Secrets(A))
           Of(i) == UNION {ItemsOf(raw.lists) : raw \in A[i].body}
           Kept(i) == UNION {ItemsOf(s.lists) : s \in F[i].body}
<1>1. DOMAIN A = 1 .. Len(A)
  BY AnsweredIs
<1>2. F = [i \in 1 .. Len(A) |-> F[i]]
  BY FixtureIs
<1>3. \A i \in 1 .. Len(A) : F[i].body = {Scrub(A[i].name, raw, c) : raw \in A[i].body}
  BY FixtureIs
<1> HIDE DEF F, c
<1>4. DOMAIN F = 1 .. Len(A)
  BY <1>2
<1>5. ASSUME NEW i \in 1 .. Len(A)
      PROVE  Kept(i) = Of(i)
  <2>1. \A raw \in A[i].body : Scrub(A[i].name, raw, c).lists = raw.lists
    BY SetIs, ScrubIs
  <2>2. Kept(i) = UNION {ItemsOf(Scrub(A[i].name, raw, c).lists) : raw \in A[i].body}
    BY <1>3
  <2>3. QED
    BY <2>1, <2>2
<1>6. ListItems(F) = UNION {Kept(i) : i \in 1 .. Len(A)}
  BY <1>4 DEF ListItems
<1>7. ListItems(A) = UNION {Of(i) : i \in 1 .. Len(A)}
  BY <1>1 DEF ListItems
<1> HIDE DEF Kept, Of
<1>8. QED
  BY <1>1, <1>4, <1>5, <1>6, <1>7 DEF F

(* No secret leaves the router in what is declared (emit.rs), and in a     *)
(* fixture (capture.rs) none but the items of lists, which it copies,      *)
(* whatever field a vendor keeps it in.                                    *)
THEOREM SecretsStay == Spec => []MaterialLeavesInListsOnly
<1>1. SurveyInv => MaterialLeavesInListsOnly
  <2> SUFFICES ASSUME SurveyInv, output.kind \in {"values", "fixture"}
               PROVE  MaterialLeavesInListsOnly
    BY DEF MaterialLeavesInListsOnly
  <2>1. Answered(answers, decodes)
    BY DEF SurveyInv, AnswersInv
  <2>2. Surveyed(answers, decodes)
    <3>1. Survey(answers).refused = "none"
      BY DEF SurveyInv, OutputInv, ConcludedWell
    <3>2. QED
      BY <2>1, <3>1, SurveyedIs
  <2>3. ASSUME output.kind = "values", NEW v \in ValuesIn(output.of)
        PROVE  v \notin Material
    <3>1. PICK scope \in Scopes :
            output.of \in {HelmValues(Survey(answers).packages, scope),
                           HelmValuesYaml(Survey(answers).packages, scope)}
      BY <2>3 DEF SurveyInv, OutputInv
    <3>2. PICK c \in output.of :
            v \in {c.values[o] : o \in DOMAIN c.values} \cup ItemsOf(c.lists)
      BY <2>3 DEF ValuesIn
    <3>3. CASE v \in {c.values[o] : o \in DOMAIN c.values}
      BY <2>1, <2>2, <3>1, <3>3, NothingDeclared
    <3>4. CASE v \in ItemsOf(c.lists)
      <4>1. PICK o \in DOMAIN c.lists : v \in ToSet(c.lists[o])
        BY <3>4 DEF ItemsOf
      <4>2. QED
        BY <2>1, <2>2, <3>1, <4>1, NoItemDeclared
    <3>5. QED
      BY <3>2, <3>3, <3>4
  <2>4. ASSUME output.kind = "fixture"
        PROVE  output.of = Fixture(answers) /\ DOMAIN output.of = 1 .. Len(answers)
    <3>1. output.of = Fixture(answers)
      BY <2>4 DEF SurveyInv, OutputInv
    <3>2. DOMAIN answers = 1 .. Len(answers)
      BY <2>1, AnsweredIs
    <3>3. QED
      BY <2>1, <2>2, <3>1, <3>2, ListsAreKept
  <2>5. ASSUME output.kind = "fixture", NEW v \in Scalars(output.of)
        PROVE  v \notin Material
    <3>1. PICK i \in 1 .. Len(answers) :
            v \in UNION {{raw.options[o] : o \in DOMAIN raw.options} : raw \in output.of[i].body}
      BY <2>4, <2>5 DEF Scalars
    <3>2. PICK s \in output.of[i].body : v \in {s.options[o] : o \in DOMAIN s.options}
      BY <3>1
    <3>3. PICK o \in DOMAIN s.options : v = s.options[o]
      BY <3>2
    <3>4. s \in Fixture(answers)[i].body
      BY <2>4, <2>5
    <3>5. QED
      BY <2>1, <2>2, <3>3, <3>4, NothingCaptured
  <2>6. ASSUME output.kind = "fixture"
        PROVE  ListItems(output.of) = ListItems(answers)
    BY <2>1, <2>2, <2>4, <2>6, ListsAreKept
  <2>7. QED
    BY <2>3, <2>5, <2>6 DEF MaterialLeavesInListsOnly
<1>2. QED
  BY <1>1, SurveyInvariant, PTL

-----------------------------------------------------------------------------
(***************************************************************************)
(* Everything is accounted for.                                            *)
(***************************************************************************)

(* A set counted by what stands for its elements, one for each.            *)
LEMMA CountBy ==
  ASSUME NEW S, IsFiniteSet(S), NEW f, DOMAIN f = S,
         \A a, b \in S : f[a] = f[b] => a = b,
         NEW T, \A x \in S : f[x] \in T, \A y \in T : \E x \in S : y = f[x]
  PROVE  IsFiniteSet(T) /\ Cardinality(T) = Cardinality(S)
<1>1. T = {f[x] : x \in S}
  OBVIOUS
<1>2. IsFiniteSet({f[x] : x \in S}) /\ Cardinality({f[x] : x \in S}) = Cardinality(S)
  BY ImageCount
<1>3. QED
  BY <1>1, <1>2

LEMMA SectionOnce ==
  ASSUME NEW A, NEW decoded, Answered(A, decoded), Surveyed(A, decoded),
         NEW s \in Spots(A), NEW t \in Spots(A),
         A[s[1]].name = A[t[1]].name, RawAt(A, s).id = RawAt(A, t).id
  PROVE  s = t
<1>1. /\ s = <<s[1], s[2]>> /\ t = <<t[1], t[2]>>
      /\ s[1] \in 1 .. Len(A) /\ s[2] \in 1 .. Len(FileOf(A, s[1]))
      /\ t[1] \in 1 .. Len(A) /\ t[2] \in 1 .. Len(FileOf(A, t[1]))
  BY SpotsAre
<1>2. s[1] = t[1]
  BY <1>1 DEF Answered
<1>3. Reading(A[s[1]].name, FileOf(A, s[1]), decoded)
  BY <1>1 DEF Surveyed
<1>4. \A i, j \in 1 .. Len(FileOf(A, s[1])) :
        FileOf(A, s[1])[i].id = FileOf(A, s[1])[j].id => i = j
  BY <1>3 DEF Reading
<1>5. s[2] = t[2]
  BY <1>1, <1>2, <1>4 DEF RawAt
<1>6. QED
  BY <1>1, <1>2, <1>5

(* As many sections are declared as were read of managed packages. *)
LEMMA ManagedCount ==
  ASSUME Answered(answers, decodes), Surveyed(answers, decodes)
  PROVE  Cardinality(SectionsOf(Survey(answers).packages, "managed"))
           = Cardinality({a \in Read : a[1] \in Managed})
<1> DEFINE A == answers
           S == SpotsOf(A, "managed")
           f == [s \in S |-> ParsedAt(A, s)]
           g == [s \in S |-> <<A[s[1]].name, RawAt(A, s)>>]
           M == SectionsOf(Survey(A).packages, "managed")
           N == {a \in Read : a[1] \in Managed}
<1>1. IsFiniteSet(S)
  <2>1. IsFiniteSet(Spots(A)) /\ S \in SUBSET Spots(A)
    BY SpotsAre DEF SpotsOf
  <2>2. QED
    BY <2>1, FS_Subset
<1>2. \A s \in S : s \in Spots(A) /\ A[s[1]].name \in Managed
  BY ClassifyIs DEF SpotsOf
<1>3. DOMAIN f = S /\ DOMAIN g = S
  OBVIOUS
<1>4. \A s \in S : f[s].package = A[s[1]].name /\ f[s].id = RawAt(A, s).id
  BY DEF ParsedAt, ParseSection, RawAt
<1>5. \A s \in S : g[s][1] = A[s[1]].name /\ g[s][2] = RawAt(A, s)
  OBVIOUS
<1>6. M = {ParsedAt(A, s) : s \in S}
  BY SectionsAre
<1>7. Read = {<<A[s[1]].name, RawAt(A, s)>> : s \in Spots(A)}
  BY ReadIs
<1>8. ASSUME NEW a \in N
      PROVE  \E s \in S : a = g[s]
  <2>1. PICK s \in Spots(A) : a = <<A[s[1]].name, RawAt(A, s)>>
    BY <1>7
  <2>2. A[s[1]].name \in Managed
    BY <2>1
  <2>3. Classify(A[s[1]].name) = "managed"
    BY <2>2, ClassifyIs
  <2>4. s \in S
    BY <2>3 DEF SpotsOf
  <2>5. QED
    BY <2>1, <2>4
<1>9. ASSUME NEW s \in S
      PROVE  g[s] \in N
  <2>1. <<A[s[1]].name, RawAt(A, s)>> \in Read
    BY <1>2, <1>7
  <2>2. QED
    BY <1>2, <2>1
<1>10. \A x \in M : \E s \in S : x = f[s]
  BY <1>6
<1>11. \A s \in S : f[s] \in M
  BY <1>6
<1> HIDE DEF S, f, g, M, N
<1>12. \A s, t \in S : f[s] = f[t] => s = t
  BY <1>2, <1>4, SectionOnce
<1>13. \A s, t \in S : g[s] = g[t] => s = t
  BY <1>2, <1>5, SectionOnce
<1>14. Cardinality(M) = Cardinality(S)
  BY <1>1, <1>3, <1>10, <1>11, <1>12, CountBy
<1>15. Cardinality(N) = Cardinality(S)
  BY <1>1, <1>3, <1>8, <1>9, <1>13, CountBy
<1>16. QED
  BY <1>14, <1>15 DEF M, N

(* A package has as many sections as were read of it. *)
LEMMA PackageCount ==
  ASSUME Answered(answers, decodes), Surveyed(answers, decodes), NEW i \in 1 .. Len(answers)
  PROVE  Len(FileOf(answers, i)) = Cardinality({a \in Read : a[1] = answers[i].name})
<1> DEFINE A == answers
           n == Len(FileOf(A, i))
           S == 1 .. n
           f == [j \in S |-> <<A[i].name, FileOf(A, i)[j]>>]
           T == {a \in Read : a[1] = A[i].name}
<1>1. Reading(A[i].name, FileOf(A, i), decodes)
  BY DEF Surveyed
<1>2. n \in Nat
  BY <1>1, ReadingIs
<1>3. IsFiniteSet(S) /\ Cardinality(S) = n
  BY <1>2, UpTo
<1>4. \A j, k \in S : FileOf(A, i)[j].id = FileOf(A, i)[k].id => j = k
  BY <1>1 DEF Reading
<1>5. DOMAIN f = S /\ \A j \in S : f[j] = <<A[i].name, FileOf(A, i)[j]>>
  OBVIOUS
<1>6. \A j, k \in S : f[j] = f[k] => j = k
  BY <1>4, <1>5
<1>7. Read = {<<A[s[1]].name, RawAt(A, s)>> : s \in Spots(A)}
  BY ReadIs
<1>8. ASSUME NEW j \in S
      PROVE  f[j] \in T
  <2>1. <<i, j>> \in Spots(A)
    BY SpotsAre
  <2>2. f[j] = <<A[<<i, j>>[1]].name, RawAt(A, <<i, j>>)>>
    BY DEF RawAt
  <2>3. f[j] \in Read
    BY <1>7, <2>1, <2>2
  <2>4. QED
    BY <2>3
<1>9. ASSUME NEW a \in T
      PROVE  \E j \in S : a = f[j]
  <2>1. PICK s \in Spots(A) : a = <<A[s[1]].name, RawAt(A, s)>>
    BY <1>7
  <2>2. s[1] \in 1 .. Len(A) /\ s[2] \in 1 .. Len(FileOf(A, s[1])) /\ A[s[1]].name = A[i].name
    BY <2>1, SpotsAre
  <2>3. s[1] = i
    BY <2>2 DEF Answered
  <2>4. s[2] \in S /\ a = f[s[2]]
    BY <2>1, <2>2, <2>3 DEF RawAt
  <2>5. QED
    BY <2>4
<1> HIDE DEF S, f, T
<1>10. Cardinality(T) = Cardinality(S)
  BY <1>3, <1>5, <1>6, <1>8, <1>9, CountBy
<1>11. QED
  BY <1>3, <1>10 DEF T

(* The packages read are those with sections to declare, those declined,   *)
(* and those that turned out empty.                                        *)
LEMMA PackagesCount ==
  ASSUME Answered(answers, decodes), Surveyed(answers, decodes),
         NEW D, D = {answers[i].name :
                       i \in {j \in 1 .. Len(answers) : answers[j].name \notin Managed}}
  PROVE  Len(answers) =
           Cardinality({a[1] : a \in {b \in Read : b[1] \in Managed}} \cup D)
             + Cardinality({i \in DOMAIN answers : answers[i].body = {}
                              /\ answers[i].name \in Managed})
<1> DEFINE A == answers
           n == Len(A)
           E == {i \in 1 .. n : A[i].body = {} /\ A[i].name \in Managed}
           I == (1 .. n) \ E
           f == [i \in I |-> A[i].name]
           T == {a[1] : a \in {b \in Read : b[1] \in Managed}} \cup D
<1>1. n \in Nat /\ DOMAIN A = 1 .. n
  BY AnsweredIs
<1>2. IsFiniteSet(1 .. n) /\ Cardinality(1 .. n) = n
  BY <1>1, UpTo
<1>3. IsFiniteSet(E) /\ IsFiniteSet(I) /\ n = Cardinality(I) + Cardinality(E)
      /\ Cardinality(E) \in Nat /\ Cardinality(I) \in Nat
  <2>1. E \in SUBSET (1 .. n) /\ I \in SUBSET (1 .. n) /\ I \cup E = 1 .. n /\ I \cap E = {}
    OBVIOUS
  <2> DEFINE N == 1 .. n
  <2> HIDE DEF E, I, N, n
  <2>2. IsFiniteSet(E) /\ IsFiniteSet(I)
    BY <1>2, <2>1, FS_Subset DEF N
  <2>3. Cardinality(I \cup E) = Cardinality(I) + Cardinality(E) - Cardinality(I \cap E)
    BY <2>2, FS_Union
  <2>4. Cardinality(I \cap E) = 0
    BY <2>1, FS_EmptySet
  <2>5. Cardinality(E) \in Nat /\ Cardinality(I) \in Nat
    BY <2>2, FS_CardinalityType
  <2>6. Cardinality(1 .. n) = Cardinality(I) + Cardinality(E) - 0
    BY <2>1, <2>3, <2>4
  <2>7. n = Cardinality(I) + Cardinality(E)
    BY <1>2, <2>5, <2>6
  <2>8. QED
    BY <2>2, <2>5, <2>7
<1>4. DOMAIN f = I /\ \A i \in I : f[i] = A[i].name
  OBVIOUS
<1>5. \A i, j \in 1 .. n : A[i].name = A[j].name => i = j
  BY DEF Answered
<1>6. ASSUME NEW i \in 1 .. n
      PROVE  A[i].body = {} <=> Len(FileOf(A, i)) = 0
  <2>1. A[i].body = ToSet(FileOf(A, i)) /\ Reading(A[i].name, FileOf(A, i), decodes)
    BY DEF Surveyed
  <2>2. /\ Len(FileOf(A, i)) \in Nat
        /\ ToSet(FileOf(A, i)) = {FileOf(A, i)[j] : j \in 1 .. Len(FileOf(A, i))}
    BY <2>1, ReadingIs
  <2> DEFINE m == Len(FileOf(A, i))
             B == {FileOf(A, i)[j] : j \in 1 .. m}
  <2>3. m # 0 => FileOf(A, i)[1] \in B
    BY <2>2
  <2>4. m = 0 => B = {}
    OBVIOUS
  <2>5. A[i].body = B
    BY <2>1, <2>2
  <2> HIDE DEF B, m
  <2>6. A[i].body = {} <=> m = 0
    BY <2>3, <2>4, <2>5
  <2>7. QED
    BY <2>6 DEF m
<1>7. Read = {<<A[s[1]].name, RawAt(A, s)>> : s \in Spots(A)}
  BY ReadIs
<1>8. ASSUME NEW i \in I
      PROVE  f[i] \in T
  <2>1. CASE A[i].name \notin Managed
    BY <1>4, <2>1
  <2>2. CASE A[i].name \in Managed
    <3>1. Len(FileOf(A, i)) # 0 /\ Len(FileOf(A, i)) \in Nat
      <4>1. Reading(A[i].name, FileOf(A, i), decodes)
        BY DEF Surveyed
      <4>2. QED
        BY <1>6, <2>2, <4>1, ReadingIs
    <3>2. <<i, 1>> \in Spots(A)
      BY <3>1, SpotsAre
    <3> DEFINE s == <<i, 1>>
               a == <<A[s[1]].name, RawAt(A, s)>>
    <3>3. a \in Read /\ a[1] = A[i].name
      BY <1>7, <3>2
    <3> HIDE DEF a
    <3>4. QED
      BY <1>4, <2>2, <3>3
  <2>3. QED
    BY <2>1, <2>2
<1>9. ASSUME NEW x \in T
      PROVE  \E i \in I : x = f[i]
  <2>1. CASE x \in D
    BY <1>4, <2>1
  <2>2. CASE x \notin D
    <3>1. PICK a \in Read : a[1] \in Managed /\ x = a[1]
      BY <2>2
    <3>2. PICK s \in Spots(A) : a = <<A[s[1]].name, RawAt(A, s)>>
      BY <1>7
    <3>3. s[1] \in 1 .. n /\ s[2] \in 1 .. Len(FileOf(A, s[1])) /\ x = A[s[1]].name
      BY <3>1, <3>2, SpotsAre
    <3>4. A[s[1]].body # {}
      <4>1. Len(FileOf(A, s[1])) # 0
        BY <3>3
      <4>2. QED
        BY <1>6, <3>3, <4>1
    <3>5. s[1] \in I
      BY <3>3, <3>4
    <3>6. QED
      BY <1>4, <3>3, <3>5
  <2>3. QED
    BY <2>1, <2>2
<1>10. {i \in DOMAIN answers : answers[i].body = {} /\ answers[i].name \in Managed} = E
  BY <1>1
<1>11. \A i, j \in I : f[i] = f[j] => i = j
  BY <1>4, <1>5
<1> HIDE DEF I, f, T, E
<1>12. Cardinality(T) = Cardinality(I)
  BY <1>3, <1>4, <1>8, <1>9, <1>11, CountBy
<1>13. QED
  BY <1>3, <1>10, <1>12 DEF T

LEMMA ReportAccounts ==
  ASSUME Answered(answers, decodes), Surveyed(answers, decodes)
  PROVE  LET r == Report(Survey(answers).packages)
         IN  /\ r.managed = Cardinality({a \in Read : a[1] \in Managed})
             /\ \A d \in r.declined :
                  d.sections = Cardinality({a \in Read : a[1] = d.package})
             /\ r.packages = Cardinality({a[1] : a \in {b \in Read : b[1] \in Managed}}
                                          \cup {d.package : d \in r.declined})
                              + Cardinality({i \in DOMAIN answers : answers[i].body = {}
                                               /\ answers[i].name \in Managed})
<1> DEFINE A == answers
           inv == Survey(A).packages
           P(i) == ParsePackage(A[i].name, A[i].body)
           Declined(i) == [package |-> A[i].name, disposition |-> Classify(A[i].name),
                           sections |-> Len(FileOf(A, i))]
           r == Report(inv)
           Rest == {j \in 1 .. Len(A) : A[j].name \notin Managed}
<1>1. /\ DOMAIN inv = 1 .. Len(A) /\ \A i \in 1 .. Len(A) : inv[i] = P(i)
      /\ Len(inv) = Len(A)
  <2>1. inv = [i \in 1 .. Len(A) |-> P(i)] /\ Len(A) \in Nat
    BY AnsweredIs DEF Surveyed
  <2> HIDE DEF inv, P
  <2>2. QED
    BY <2>1
<1>2. ASSUME NEW i \in 1 .. Len(A)
      PROVE  /\ P(i).name = A[i].name /\ P(i).disposition = Classify(A[i].name)
             /\ Len(P(i).sections) = Len(FileOf(A, i))
  <2>1. Reading(A[i].name, FileOf(A, i), decodes)
    BY DEF Surveyed
  <2>2. DOMAIN FileOf(A, i) = 1 .. Len(FileOf(A, i)) /\ Len(FileOf(A, i)) \in Nat
    BY <2>1, ReadingIs
  <2>3. P(i).sections = [j \in DOMAIN FileOf(A, i) |-> ParseSection(A[i].name, FileOf(A, i), j)]
    BY DEF ParsePackage, FileOf
  <2>4. P(i).name = A[i].name /\ P(i).disposition = Classify(A[i].name)
    BY DEF ParsePackage
  <2>5. Len(P(i).sections) = Len(FileOf(A, i))
    <3> DEFINE R == FileOf(A, i)
               Q == [j \in DOMAIN R |-> ParseSection(A[i].name, R, j)]
    <3>1. DOMAIN Q = 1 .. Len(R)
      BY <2>2
    <3>2. P(i).sections = Q
      BY <2>3
    <3> HIDE DEF P, R, Q
    <3>3. Len(Q) = Len(R)
      BY <2>2, <3>1 DEF R
    <3>4. QED
      BY <3>2, <3>3 DEF R
  <2>6. QED
    BY <2>4, <2>5
<1>3. r.packages = Len(inv) /\ r.managed = Cardinality(SectionsOf(inv, "managed"))
      /\ r.declined = {[package |-> p.name, disposition |-> p.disposition,
                        sections |-> Len(p.sections)]
                         : p \in {q \in ToSet(inv) : q.disposition # "managed"}}
  BY DEF Report
<1> HIDE DEF r, inv, P
<1>4. \A d : d \in r.declined <=> \E i \in Rest : d = Declined(i)
  <2>1. \A i \in 1 .. Len(A) : P(i).disposition # "managed" <=> i \in Rest
    BY <1>2, ClassifyIs
  <2>2. {q \in ToSet(inv) : q.disposition # "managed"} = {P(i) : i \in Rest}
    <3>1. ToSet(inv) = {P(i) : i \in 1 .. Len(A)}
      BY <1>1 DEF ToSet
    <3>2. QED
      BY <2>1, <3>1
  <2>3. \A i \in Rest : [package |-> P(i).name, disposition |-> P(i).disposition,
                         sections |-> Len(P(i).sections)] = Declined(i)
    BY <1>2
  <2> HIDE DEF Declined
  <2>4. QED
    BY <1>3, <2>2, <2>3
<1>5. \A i \in Rest : Declined(i).package = A[i].name /\ Declined(i).sections = Len(FileOf(A, i))
  OBVIOUS
<1> HIDE DEF Declined
<1>6. {d.package : d \in r.declined} = {A[i].name : i \in Rest}
  BY <1>4, <1>5
<1>7. ASSUME NEW d \in r.declined
      PROVE  d.sections = Cardinality({a \in Read : a[1] = d.package})
  <2>1. PICK i \in Rest : d = Declined(i)
    BY <1>4
  <2>2. i \in 1 .. Len(A) /\ d.package = A[i].name /\ d.sections = Len(FileOf(A, i))
    BY <1>5, <2>1
  <2>3. Len(FileOf(A, i)) = Cardinality({a \in Read : a[1] = A[i].name})
    BY <2>2, PackageCount
  <2>4. QED
    BY <2>2, <2>3
<1>8. r.managed = Cardinality({a \in Read : a[1] \in Managed})
  BY <1>3, ManagedCount DEF inv
<1>9. r.packages = Cardinality({a[1] : a \in {b \in Read : b[1] \in Managed}}
                                 \cup {d.package : d \in r.declined})
                     + Cardinality({i \in DOMAIN answers : answers[i].body = {}
                                      /\ answers[i].name \in Managed})
  <2> DEFINE D == {d.package : d \in r.declined}
  <2>1. D = {answers[i].name : i \in {j \in 1 .. Len(answers) : answers[j].name \notin Managed}}
    BY <1>6
  <2> HIDE DEF D
  <2>2. Len(answers) = Cardinality({a[1] : a \in {b \in Read : b[1] \in Managed}} \cup D)
                         + Cardinality({i \in DOMAIN answers : answers[i].body = {}
                                          /\ answers[i].name \in Managed})
    BY <2>1, PackagesCount
  <2>3. QED
    BY <1>1, <1>3, <2>2 DEF D
<1>10. QED
  BY <1>7, <1>8, <1>9 DEF r, inv

(* Every section of the router is declared, or counted with its package; a *)
(* package nobody classified is refused with all the others of the kind    *)
(* (inventory.rs, survey and report).                                      *)
THEOREM NothingIsLost == Spec => []EverythingAccountedFor
<1>1. SurveyInv => EverythingAccountedFor
  <2> SUFFICES ASSUME SurveyInv
               PROVE  EverythingAccountedFor
    OBVIOUS
  <2>1. Answered(answers, decodes) /\ DOMAIN answers = 1 .. Len(answers) /\ Len(answers) \in Nat
    BY AnsweredIs DEF SurveyInv, AnswersInv
  <2>2. ConcludedWell => Surveyed(answers, decodes)
    <3>1. ConcludedWell => Survey(answers).refused = "none"
      BY DEF SurveyInv, OutputInv
    <3>2. QED
      BY <2>1, <3>1, SurveyedIs
  <2>3. ASSUME ConcludedWell, NEW a \in Read
        PROVE  a[1] \in Classified
    <3>1. Read = {<<answers[s[1]].name, RawAt(answers, s)>> : s \in Spots(answers)}
      BY <2>1, <2>2, <2>3, ReadIs
    <3>2. PICK s \in Spots(answers) : a = <<answers[s[1]].name, RawAt(answers, s)>>
      BY <3>1
    <3>3. s[1] \in 1 .. Len(answers)
      BY DEF Spots
    <3>4. QED
      BY <2>2, <2>3, <3>2, <3>3 DEF Surveyed
  <2>4. ASSUME output.kind = "refused", output.why = "unclassified"
        PROVE  output.packages = {answers[i].name : i \in DOMAIN answers} \ Classified
    <3> DEFINE S == Survey(answers)
    <3>1. output = [kind |-> "refused", why |-> S.refused, packages |-> S.packages]
      BY <2>4 DEF SurveyInv, OutputInv
    <3> HIDE DEF S
    <3>2. S.refused = "unclassified" /\ output.packages = S.packages
      BY <2>4, <3>1
    <3>3. S.packages = {answers[i].name : i \in 1 .. Len(answers)} \ Classified
      BY <2>1, <3>2, SurveyIs DEF S
    <3>4. QED
      BY <2>1, <3>2, <3>3
  <2>5. CASE output.kind = "report"
    <3>1. ConcludedWell /\ output.kind # "refused"
      BY <2>5 DEF ConcludedWell
    <3>2. output.of = Report(Survey(answers).packages)
      BY <2>5 DEF SurveyInv, OutputInv
    <3>3. LET r == output.of
          IN  /\ r.managed = Cardinality({a \in Read : a[1] \in Managed})
              /\ \A d \in r.declined :
                   d.sections = Cardinality({a \in Read : a[1] = d.package})
              /\ r.packages = Cardinality({a[1] : a \in {b \in Read : b[1] \in Managed}}
                                           \cup {d.package : d \in r.declined})
                               + Cardinality({i \in DOMAIN answers : answers[i].body = {}
                                                /\ answers[i].name \in Managed})
      BY <2>1, <2>2, <3>1, <3>2, ReportAccounts
    <3>4. QED
      BY <2>3, <3>1, <3>3 DEF EverythingAccountedFor
  <2>6. CASE output.kind # "report"
    BY <2>3, <2>4, <2>6 DEF EverythingAccountedFor
  <2>7. QED
    BY <2>5, <2>6
<1>2. QED
  BY <1>1, SurveyInvariant, PTL

-----------------------------------------------------------------------------
(***************************************************************************)
(* The verdict.                                                            *)
(***************************************************************************)

(* Where a section of that name says something in an option. *)
Where(A, p, name, o) ==
  {t \in Spots(A) : /\ A[t[1]].name = p /\ RawAt(A, t).name = name
                    /\ ~IsAnonymous(RawAt(A, t)) /\ o \in DOMAIN RawAt(A, t).options}

Decided(A) == \A t \in Spots(A) : IsAnonymous(RawAt(A, t)) \in BOOLEAN

LEMMA ParsedFrom ==
  ASSUME NEW A, NEW t
  PROVE  /\ ParsedAt(A, t).package = A[t[1]].name
         /\ ParsedAt(A, t).name = RawAt(A, t).name
         /\ ParsedAt(A, t).anonymous = IsAnonymous(RawAt(A, t))
         /\ ParsedAt(A, t).options =
              Restrict(RawAt(A, t).options, DOMAIN RawAt(A, t).options \ SecretNames(RawAt(A, t)))
  BY DEF ParsedAt, ParseSection, RawAt

LEMMA OpenOption ==
  ASSUME NEW A, NEW t, NEW o, ~OptionIsSecret(o)
  PROVE  /\ o \in DOMAIN ParsedAt(A, t).options <=> o \in DOMAIN RawAt(A, t).options
         /\ o \in DOMAIN RawAt(A, t).options =>
              ParsedAt(A, t).options[o] = RawAt(A, t).options[o]
<1> DEFINE raw == RawAt(A, t)
           s == ParsedAt(A, t)
<1>1. s.options = Restrict(raw.options, DOMAIN raw.options \ SecretNames(raw))
  BY ParsedFrom
<1>2. o \notin SecretNames(raw)
  BY DEF SecretNames
<1> HIDE DEF raw, s
<1>3. QED
  BY <1>1, <1>2 DEF Restrict, raw, s

LEMMA NamedBy ==
  ASSUME NEW A, NEW t, IsAnonymous(RawAt(A, t)) \in BOOLEAN, NEW name
  PROVE  AsUci(ParsedAt(A, t)) = <<name>> <=>
           RawAt(A, t).name = name /\ ~IsAnonymous(RawAt(A, t))
<1> DEFINE s == ParsedAt(A, t)
           raw == RawAt(A, t)
<1>1. s.name = raw.name /\ s.anonymous = IsAnonymous(raw) /\ IsAnonymous(raw) \in BOOLEAN
  BY ParsedFrom
<1> HIDE DEF s, raw
<1>2. CASE s.anonymous
  <2>1. <<s.type, s.typeIndex>> # <<name>>
    OBVIOUS
  <2>2. AsUci(s) = <<s.type, s.typeIndex>>
    BY <1>2 DEF AsUci
  <2>3. QED
    BY <1>1, <1>2, <2>1, <2>2 DEF s, raw
<1>3. CASE ~s.anonymous
  <2>1. <<s.name>> = <<name>> <=> s.name = name
    OBVIOUS
  <2>2. AsUci(s) = <<s.name>>
    BY <1>3 DEF AsUci
  <2>3. QED
    BY <1>1, <1>3, <2>1, <2>2 DEF s, raw
<1>4. QED
  BY <1>1, <1>2, <1>3

(* The checks of readiness see what is said there, if it is said once.     *)
LEMMA OptionIs ==
  ASSUME NEW A, Laid(A), Decided(A), NEW p \in Managed, NEW name, NEW o, ~OptionIsSecret(o)
  PROVE  /\ Where(A, p, name, o) = {} => OptionOf(Survey(A).packages, p, name, o) = Unset
         /\ \A t : Where(A, p, name, o) = {t} =>
              OptionOf(Survey(A).packages, p, name, o) = RawAt(A, t).options[o]
<1> DEFINE inv == Survey(A).packages
           W == Where(A, p, name, o)
           found == {s \in SectionsOf(inv, Classify(p)) :
                       s.package = p /\ AsUci(s) = <<name>> /\ o \in DOMAIN s.options}
<1>1. OptionOf(inv, p, name, o) =
        IF found = {} THEN Unset ELSE (CHOOSE s \in found : TRUE).options[o]
  BY DEF OptionOf
<1>2. Classify(p) = "managed"
  BY ClassifyIs
<1>3. SectionsOf(inv, "managed") = {ParsedAt(A, t) : t \in SpotsOf(A, "managed")}
  BY LaidSectionsAre
<1>4. ASSUME NEW t \in Spots(A)
      PROVE  t \in W <=> /\ ParsedAt(A, t).package = p /\ AsUci(ParsedAt(A, t)) = <<name>>
                         /\ o \in DOMAIN ParsedAt(A, t).options
  <2>1. IsAnonymous(RawAt(A, t)) \in BOOLEAN
    BY DEF Decided
  <2>2. AsUci(ParsedAt(A, t)) = <<name>> <=>
          RawAt(A, t).name = name /\ ~IsAnonymous(RawAt(A, t))
    BY <2>1, NamedBy
  <2>3. o \in DOMAIN ParsedAt(A, t).options <=> o \in DOMAIN RawAt(A, t).options
    BY OpenOption
  <2>4. ParsedAt(A, t).package = A[t[1]].name
    BY ParsedFrom
  <2>5. QED
    BY <2>2, <2>3, <2>4 DEF Where
<1>5. W \subseteq SpotsOf(A, "managed")
  BY <1>2 DEF Where, SpotsOf
<1>6. SpotsOf(A, "managed") \subseteq Spots(A)
  BY DEF SpotsOf
<1>7. found = {ParsedAt(A, t) : t \in W}
  BY <1>2, <1>3, <1>4, <1>5, <1>6
<1> HIDE DEF found, W, inv
<1>8. W = {} => OptionOf(inv, p, name, o) = Unset
  BY <1>1, <1>7
<1>9. ASSUME NEW t, W = {t}
      PROVE  OptionOf(inv, p, name, o) = RawAt(A, t).options[o]
  <2>1. found = {ParsedAt(A, t)}
    BY <1>7, <1>9
  <2>2. (CHOOSE s \in found : TRUE) = ParsedAt(A, t) /\ found # {}
    BY <2>1
  <2>3. o \in DOMAIN RawAt(A, t).options
    <3>1. t \in Where(A, p, name, o)
      BY <1>9 DEF W
    <3>2. QED
      BY <3>1 DEF Where
  <2>4. ParsedAt(A, t).options[o] = RawAt(A, t).options[o]
    BY <2>3, OpenOption
  <2>5. QED
    BY <1>1, <2>2, <2>4
<1>10. QED
  BY <1>8, <1>9 DEF W, inv

LEMMA WhereOnce ==
  ASSUME NEW A, NEW decoded \in BOOLEAN, Answered(A, decoded), Surveyed(A, decoded),
         NEW p, NEW name, NEW o
  PROVE  Where(A, p, name, o) = {} \/ \E t \in Spots(A) : Where(A, p, name, o) = {t}
<1>1. ASSUME NEW s \in Where(A, p, name, o), NEW t \in Where(A, p, name, o)
      PROVE  s = t
  <2>1. /\ s \in Spots(A) /\ A[s[1]].name = p /\ RawAt(A, s).name = name
        /\ t \in Spots(A) /\ A[t[1]].name = p /\ RawAt(A, t).name = name
    BY DEF Where
  <2>2. /\ s = <<s[1], s[2]>> /\ t = <<t[1], t[2]>>
        /\ s[1] \in 1 .. Len(A) /\ s[2] \in 1 .. Len(FileOf(A, s[1]))
        /\ t[1] \in 1 .. Len(A) /\ t[2] \in 1 .. Len(FileOf(A, t[1]))
    BY <2>1, SpotsAre
  <2>3. s[1] = t[1]
    BY <2>1, <2>2 DEF Answered
  <2>4. A[s[1]].name \in PackageNames /\ Reading(A[s[1]].name, FileOf(A, s[1]), decoded)
    BY <2>2 DEF Surveyed
  <2>5. FileOf(A, s[1])[s[2]].name = FileOf(A, s[1])[t[2]].name
    BY <2>1, <2>3 DEF RawAt
  <2>6. s[2] = t[2]
    BY <2>2, <2>3, <2>4, <2>5, NamesDiffer
  <2>7. QED
    BY <2>2, <2>3, <2>6
<1>2. Where(A, p, name, o) \subseteq Spots(A)
  BY DEF Where
<1>3. QED
  BY <1>1, <1>2

LEMMA AnswersDecided ==
  ASSUME NEW A, NEW decoded \in BOOLEAN, Answered(A, decoded), Surveyed(A, decoded)
  PROVE  Laid(A) /\ Decided(A)
<1>1. Laid(A)
  BY SurveyedIsLaid
<1>2. ASSUME NEW t \in Spots(A)
      PROVE  IsAnonymous(RawAt(A, t)) \in BOOLEAN
  <2>1. t[1] \in 1 .. Len(A) /\ t[2] \in 1 .. Len(FileOf(A, t[1]))
    BY SpotsAre
  <2>2. QED
    BY <2>1, ReadNamedIs DEF RawAt
<1>3. QED
  BY <1>1, <1>2 DEF Decided

LEMMA SaidIs ==
  ASSUME Answered(answers, decodes), Surveyed(answers, decodes), NEW p, NEW name, NEW o
  PROVE  Said(p, name, o) =
           {RawAt(answers, t).options[o] : t \in Where(answers, p, name, o)}
<1> DEFINE A == answers
           f(t) == <<A[t[1]].name, RawAt(A, t)>>
           Fits(a) == /\ a[1] = p /\ a[2].name = name /\ ~IsAnonymous(a[2])
                      /\ o \in DOMAIN a[2].options
<1>1. Read = {f(t) : t \in Spots(A)}
  BY ReadIs
<1>2. \A t : f(t)[1] = A[t[1]].name /\ f(t)[2] = RawAt(A, t)
  OBVIOUS
<1>3. Said(p, name, o) = {a[2].options[o] : a \in {b \in Read : Fits(b)}}
  BY DEF Said
<1>4. \A t \in Spots(A) : Fits(f(t)) <=> t \in Where(A, p, name, o)
  BY <1>2 DEF Where
<1>5. Where(A, p, name, o) \subseteq Spots(A)
  BY DEF Where
<1> HIDE DEF f, Fits
<1>6. {b \in Read : Fits(b)} = {f(t) : t \in Where(A, p, name, o)}
  BY <1>1, <1>4, <1>5
<1>7. QED
  BY <1>2, <1>3, <1>6

(* What a check sees in an option is what the section read there says.     *)
LEMMA OptionIsSaid ==
  ASSUME Answered(answers, decodes), Surveyed(answers, decodes), decodes \in BOOLEAN,
         NEW p \in Managed, NEW name, NEW o, ~OptionIsSecret(o)
  PROVE  LET v == OptionOf(Survey(answers).packages, p, name, o)
         IN  \/ Said(p, name, o) = {} /\ v = Unset
             \/ Said(p, name, o) = {v} /\ v # Unset
<1> DEFINE A == answers
           W == Where(A, p, name, o)
           v == OptionOf(Survey(A).packages, p, name, o)
<1>1. Laid(A) /\ Decided(A)
  BY AnswersDecided
<1>2. /\ W = {} => v = Unset
      /\ \A t : W = {t} => v = RawAt(A, t).options[o]
  BY <1>1, OptionIs
<1>3. Said(p, name, o) = {RawAt(A, t).options[o] : t \in W}
  BY SaidIs
<1>4. CASE W = {}
  BY <1>2, <1>3, <1>4
<1>5. CASE \E t \in Spots(A) : W = {t}
  <2>1. PICK t \in Spots(A) : W = {t}
    BY <1>5
  <2>2. v = RawAt(A, t).options[o] /\ Said(p, name, o) = {v}
    BY <1>2, <1>3, <2>1
  <2>3. v \in Values
    <3>1. t[1] \in 1 .. Len(A) /\ t[2] \in 1 .. Len(FileOf(A, t[1]))
      BY SpotsAre
    <3>2. t \in Where(A, p, name, o)
      BY <2>1
    <3>3. o \in DOMAIN RawAt(A, t).options
      BY <3>2 DEF Where
    <3>4. /\ Reading(A[t[1]].name, FileOf(A, t[1]), decodes)
          /\ A[t[1]].body = ToSet(FileOf(A, t[1]))
      BY <3>1 DEF Surveyed
    <3>5. RawAt(A, t) \in A[t[1]].body
      <4>1. ToSet(FileOf(A, t[1])) = {FileOf(A, t[1])[j] : j \in 1 .. Len(FileOf(A, t[1]))}
        BY <3>4, ReadingIs
      <4>2. QED
        BY <3>1, <3>4, <4>1 DEF RawAt
    <3> DEFINE w == <<o, RawAt(A, t).options[o]>>
    <3>6. w \in Settings(A[t[1]].name) /\ A[t[1]].name \in PackageNames
      BY <3>1, <3>3, <3>5, SetIs
    <3>7. w[2] = v
      BY <2>2
    <3> HIDE DEF w, v
    <3>8. QED
      BY <3>6, <3>7 DEF Values
  <2>4. QED
    BY <2>2, <2>3, Sentinels
<1>6. QED
  BY <1>4, <1>5, WhereOnce

(* The carriers of a secret within a network hold the same one.            *)
Agreed(R, o, n) == \A j, k \in Carriers(R, o, n) : R[j].options[o] = R[k].options[o]

United(R) == \A o, n : OptionIsSecret(o) => Agreed(R, o, n)

Shared(R) ==
  {h \in SecretScalars(R) \X Networks(R) : Cardinality(Carriers(R, h[1], h[2])) > 1}

LEMMA AgreementsAre ==
  ASSUME NEW R
  PROVE  Agreements(R) =
           {[option |-> h[1], network |-> h[2], agree |-> Agreed(R, h[1], h[2])] : h \in Shared(R)}
  BY DEF Agreements, Agreed, Shared

LEMMA TwoAreMore ==
  ASSUME NEW S, IsFiniteSet(S), NEW x \in S, NEW y \in S, x # y
  PROVE  Cardinality(S) > 1
<1>1. IsFiniteSet({x}) /\ Cardinality({x}) = 1
  BY FS_Singleton
<1>2. Cardinality({x} \cup {y}) = 2
  BY <1>1, FS_AddElement
<1>3. {x} \cup {y} \in SUBSET S
  OBVIOUS
<1>4. Cardinality({x} \cup {y}) <= Cardinality(S)
  BY <1>3, FS_Subset
<1>5. Cardinality(S) \in Nat
  BY FS_CardinalityType
<1>6. QED
  BY <1>2, <1>4, <1>5

LEMMA CarrierIs ==
  ASSUME NEW R, NEW o, NEW n, OptionIsSecret(o), NEW j \in Carriers(R, o, n)
  PROVE  /\ j \in DOMAIN R /\ o \in SecretScalars(R) /\ n \in Networks(R)
         /\ o \in SecretNames(R[j])
         /\ o \in DOMAIN R[j].options /\ "network" \in DOMAIN R[j].options
         /\ R[j].options[o] # "" /\ R[j].options["network"] = n
<1>1. /\ j \in DOMAIN R /\ o \in DOMAIN R[j].options /\ R[j].options[o] # ""
      /\ "network" \in DOMAIN R[j].options /\ R[j].options["network"] = n
  BY DEF Carriers
<1>2. o \in SecretNames(R[j])
  BY <1>1 DEF SecretNames, OptionNames
<1>3. o \in SecretScalars(R)
  <2> DEFINE X(i) == SecretNames(R[i]) \cap DOMAIN R[i].options
  <2>1. o \in X(j)
    BY <1>1, <1>2
  <2>2. SecretScalars(R) = UNION {X(i) : i \in DOMAIN R}
    BY DEF SecretScalars
  <2> HIDE DEF X
  <2>3. QED
    BY <1>1, <2>1, <2>2
<1>4. n \in Networks(R)
  BY <1>1 DEF Networks
<1>5. QED
  BY <1>1, <1>2, <1>3, <1>4

LEMMA AgreeIs ==
  ASSUME NEW R, Len(R) \in Nat, DOMAIN R = 1 .. Len(R)
  PROVE  (\A a \in Agreements(R) : a.agree) <=> United(R)
<1> DEFINE rec(h) == [option |-> h[1], network |-> h[2], agree |-> Agreed(R, h[1], h[2])]
<1>1. Agreements(R) = {rec(h) : h \in Shared(R)}
  BY AgreementsAre
<1>2. \A h : rec(h).agree = Agreed(R, h[1], h[2])
  OBVIOUS
<1> HIDE DEF rec
<1>3. (\A a \in Agreements(R) : a.agree) <=> \A h \in Shared(R) : Agreed(R, h[1], h[2])
  BY <1>1, <1>2
<1>4. ASSUME \A h \in Shared(R) : Agreed(R, h[1], h[2]), NEW o, NEW n, OptionIsSecret(o),
             NEW j \in Carriers(R, o, n), NEW k \in Carriers(R, o, n)
      PROVE  R[j].options[o] = R[k].options[o]
  <2>1. CASE j = k
    BY <2>1
  <2>2. CASE j # k
    <3>1. o \in SecretScalars(R) /\ n \in Networks(R)
      BY <1>4, CarrierIs
    <3>2. IsFiniteSet(Carriers(R, o, n))
      <4>1. Carriers(R, o, n) \in SUBSET (1 .. Len(R))
        BY DEF Carriers
      <4>2. IsFiniteSet(1 .. Len(R))
        BY UpTo
      <4>3. QED
        BY <4>1, <4>2, FS_Subset
    <3>3. Cardinality(Carriers(R, o, n)) > 1
      BY <2>2, <3>2, TwoAreMore
    <3>4. <<o, n>> \in Shared(R)
      BY <3>1, <3>3 DEF Shared
    <3>5. Agreed(R, o, n)
      BY <1>4, <3>4
    <3>6. QED
      BY <3>5 DEF Agreed
  <2>3. QED
    BY <2>1, <2>2
<1>5. ASSUME United(R), NEW h \in Shared(R)
      PROVE  Agreed(R, h[1], h[2])
  <2>1. h[1] \in SecretScalars(R)
    BY DEF Shared
  <2>2. OptionIsSecret(h[1])
    BY <2>1 DEF SecretScalars, SecretNames
  <2>3. QED
    BY <1>5, <2>2 DEF United
<1>6. QED
  BY <1>3, <1>4, <1>5 DEF United, Agreed

LEMMA PackagesAgree ==
  ASSUME NEW A, Laid(A)
  PROVE  SecretsAgree(Survey(A).packages) <=> \A i \in 1 .. Len(A) : United(FileOf(A, i))
<1> DEFINE inv == Survey(A).packages
           P(i) == ParsePackage(A[i].name, A[i].body)
<1>1. inv = [i \in 1 .. Len(A) |-> P(i)]
  BY DEF Laid
<1>2. \A i : P(i).agreements = Agreements(FileOf(A, i))
  BY DEF ParsePackage, FileOf
<1> HIDE DEF P, inv
<1>3. ToSet(inv) = {P(i) : i \in 1 .. Len(A)}
  BY <1>1 DEF ToSet
<1>4. SecretsAgree(inv) <=>
        \A i \in 1 .. Len(A) : \A a \in Agreements(FileOf(A, i)) : a.agree
  BY <1>2, <1>3 DEF SecretsAgree
<1>5. ASSUME NEW i \in 1 .. Len(A)
      PROVE  (\A a \in Agreements(FileOf(A, i)) : a.agree) <=> United(FileOf(A, i))
  <2>1. Len(FileOf(A, i)) \in Nat /\ DOMAIN FileOf(A, i) = 1 .. Len(FileOf(A, i))
    BY DEF Laid
  <2>2. QED
    BY <2>1, AgreeIs
<1>6. QED
  BY <1>4, <1>5 DEF inv

(* Bands are divided where an answer's carriers disagree. *)
LEMMA BandsAre ==
  ASSUME Answered(answers, decodes), Surveyed(answers, decodes),
         NEW i \in 1 .. Len(answers), NEW o
  PROVE  Divided(answers[i].name, o) <=> \E n : ~Agreed(FileOf(answers, i), o, n)
<1> DEFINE A == answers
           R == FileOf(A, i)
           p == A[i].name
           B == Bands(p, o)
<1>1. DOMAIN R = 1 .. Len(R)
  <2>1. Reading(p, R, decodes)
    BY DEF Surveyed
  <2>2. QED
    BY <2>1, ReadingIs
<1>2. Read = {<<A[s[1]].name, RawAt(A, s)>> : s \in Spots(A)}
  BY ReadIs
<1>3. ASSUME NEW raw
      PROVE  raw \in B <=> \E j \in DOMAIN R :
               /\ raw = R[j] /\ o \in DOMAIN raw.options /\ "network" \in DOMAIN raw.options
               /\ raw.options[o] # ""
  <2>1. raw \in {a[2] : a \in {b \in Read : b[1] = p}} <=> \E j \in DOMAIN R : raw = R[j]
    <3>1. ASSUME NEW j \in DOMAIN R, raw = R[j]
          PROVE  raw \in {a[2] : a \in {b \in Read : b[1] = p}}
      <4> DEFINE t == <<i, j>>
                 a == <<A[t[1]].name, RawAt(A, t)>>
      <4>1. t \in Spots(A)
        BY <1>1, SpotsAre
      <4>2. a \in Read /\ a[1] = p /\ a[2] = raw
        BY <1>2, <3>1, <4>1 DEF RawAt
      <4> HIDE DEF a
      <4>3. QED
        BY <4>2
    <3>2. ASSUME raw \in {a[2] : a \in {b \in Read : b[1] = p}}
          PROVE  \E j \in DOMAIN R : raw = R[j]
      <4>1. PICK a \in Read : a[1] = p /\ raw = a[2]
        BY <3>2
      <4>2. PICK t \in Spots(A) : a = <<A[t[1]].name, RawAt(A, t)>>
        BY <1>2
      <4>3. A[t[1]].name = A[i].name /\ raw = RawAt(A, t)
        BY <4>1, <4>2
      <4>4. t[1] \in 1 .. Len(A) /\ t[2] \in 1 .. Len(FileOf(A, t[1]))
        BY SpotsAre
      <4>5. t[1] = i
        BY <4>3, <4>4 DEF Answered
      <4>6. QED
        BY <1>1, <4>3, <4>4, <4>5 DEF RawAt
    <3>3. QED
      BY <3>1, <3>2
  <2>2. QED
    BY <2>1 DEF Bands
<1> HIDE DEF B, R, p
<1>4. ASSUME NEW r \in B, NEW q \in B, r.options["network"] = q.options["network"],
             r.options[o] # q.options[o]
      PROVE  \E n : ~Agreed(R, o, n)
  <2>1. PICK j \in DOMAIN R :
          /\ r = R[j] /\ o \in DOMAIN r.options /\ "network" \in DOMAIN r.options
          /\ r.options[o] # ""
    BY <1>3
  <2>2. PICK k \in DOMAIN R :
          /\ q = R[k] /\ o \in DOMAIN q.options /\ "network" \in DOMAIN q.options
          /\ q.options[o] # ""
    BY <1>3
  <2> DEFINE n == r.options["network"]
  <2>3. j \in Carriers(R, o, n) /\ k \in Carriers(R, o, n)
    BY <1>4, <2>1, <2>2 DEF Carriers
  <2>4. ~Agreed(R, o, n)
    BY <1>4, <2>1, <2>2, <2>3 DEF Agreed
  <2>5. QED
    BY <2>4
<1>5. ASSUME NEW n, ~Agreed(R, o, n)
      PROVE  \E r, q \in B : r.options["network"] = q.options["network"]
                             /\ r.options[o] # q.options[o]
  <2>1. PICK j \in Carriers(R, o, n) :
          \E k \in Carriers(R, o, n) : R[j].options[o] # R[k].options[o]
    BY <1>5 DEF Agreed
  <2> PICK k \in Carriers(R, o, n) : R[j].options[o] # R[k].options[o]
    BY <2>1
  <2>2. R[j] \in B /\ R[k] \in B
    BY <1>3 DEF Carriers
  <2>3. R[j].options["network"] = R[k].options["network"]
    BY DEF Carriers
  <2>4. QED
    BY <2>2, <2>3
<1>6. QED
  BY <1>4, <1>5 DEF Divided, B, R, p

LEMMA SecretsAgreeIs ==
  ASSUME Answered(answers, decodes), Surveyed(answers, decodes)
  PROVE  SecretsAgree(Survey(answers).packages) <=>
           \A a \in Read : \A o \in SecretNames(a[2]) : ~Divided(a[1], o)
<1> DEFINE A == answers
<1>1. Laid(A)
  BY SurveyedIsLaid
<1>2. SecretsAgree(Survey(A).packages) <=> \A i \in 1 .. Len(A) : United(FileOf(A, i))
  BY <1>1, PackagesAgree
<1>3. Read = {<<A[s[1]].name, RawAt(A, s)>> : s \in Spots(A)}
  BY ReadIs
<1>4. ASSUME \A i \in 1 .. Len(A) : United(FileOf(A, i)),
             NEW a \in Read, NEW o \in SecretNames(a[2])
      PROVE  ~Divided(a[1], o)
  <2>1. PICK s \in Spots(A) : a = <<A[s[1]].name, RawAt(A, s)>>
    BY <1>3
  <2>2. s[1] \in 1 .. Len(A) /\ a[1] = A[s[1]].name
    BY <2>1, SpotsAre
  <2>3. OptionIsSecret(o)
    BY DEF SecretNames
  <2>4. \A n : Agreed(FileOf(A, s[1]), o, n)
    BY <1>4, <2>2, <2>3 DEF United
  <2>5. QED
    BY <2>2, <2>4, BandsAre
<1>5. ASSUME \A a \in Read : \A o \in SecretNames(a[2]) : ~Divided(a[1], o),
             NEW i \in 1 .. Len(A), NEW o, NEW n, OptionIsSecret(o),
             ~Agreed(FileOf(A, i), o, n)
      PROVE  FALSE
  <2> DEFINE R == FileOf(A, i)
  <2>1. PICK j \in Carriers(R, o, n) : TRUE
    BY <1>5 DEF Agreed
  <2>2. j \in DOMAIN R /\ o \in SecretNames(R[j])
    BY <1>5, CarrierIs
  <2>3. DOMAIN R = 1 .. Len(R)
    BY <1>1 DEF Laid
  <2> DEFINE t == <<i, j>>
             a == <<A[t[1]].name, RawAt(A, t)>>
  <2>4. t \in Spots(A)
    BY <2>2, <2>3, SpotsAre
  <2>5. a \in Read
    BY <1>3, <2>4
  <2>6. a[1] = A[i].name /\ a[2] = R[j]
    BY DEF RawAt
  <2> HIDE DEF a, R
  <2>7. ~Divided(A[i].name, o)
    BY <1>5, <2>2, <2>5, <2>6
  <2>8. Divided(A[i].name, o)
    BY <1>5, BandsAre
  <2>9. QED
    BY <2>7, <2>8
<1>6. QED
  BY <1>2, <1>4, <1>5 DEF United

LEMMA FailingIs ==
  ASSUME NEW inv, NEW u
  PROVE  Failing(inv, u) = {} <=>
           /\ OptionOf(inv, "system", "ntp", "enabled") = "1"
           /\ OptionOf(inv, "system", "system_0", "hostname") \notin {"GL-MT6000", Unset}
           /\ OptionOf(inv, "tailscale", "settings", "enabled") = "1"
           /\ ~\E s \in SectionsOf(inv, "managed") : s.anonymous
           /\ u \in {Unset, 0}
           /\ OptionOf(inv, "roteador", "fleet", "owner") # Unset
           /\ SecretsAgree(inv)
  BY DEF Failing

LEMMA PositionalIs ==
  ASSUME Answered(answers, decodes), Surveyed(answers, decodes)
  PROVE  (\E s \in SectionsOf(Survey(answers).packages, "managed") : s.anonymous) <=>
           \E a \in Read : a[1] \in Managed /\ IsAnonymous(a[2])
<1> DEFINE A == answers
           f(t) == <<A[t[1]].name, RawAt(A, t)>>
<1>1. SectionsOf(Survey(A).packages, "managed") = {ParsedAt(A, t) : t \in SpotsOf(A, "managed")}
  BY SectionsAre
<1>2. Read = {f(t) : t \in Spots(A)}
  BY ReadIs
<1>3. \A t : ParsedAt(A, t).anonymous = IsAnonymous(RawAt(A, t))
  BY ParsedFrom
<1>4. \A t : f(t)[1] = A[t[1]].name /\ f(t)[2] = RawAt(A, t)
  OBVIOUS
<1>5. \A t : t \in SpotsOf(A, "managed") <=> t \in Spots(A) /\ A[t[1]].name \in Managed
  <2>1. \A p : Classify(p) = "managed" <=> p \in Managed
    BY ClassifyIs
  <2>2. QED
    BY <2>1 DEF SpotsOf
<1> HIDE DEF f
<1>6. QED
  BY <1>1, <1>2, <1>3, <1>4, <1>5

LEMMA Checked ==
  /\ {"system", "tailscale", "roteador"} \subseteq Managed
  /\ ~OptionIsSecret("enabled") /\ ~OptionIsSecret("hostname") /\ ~OptionIsSecret("owner")
  /\ ~OptionIsSecret("network")
<1>1. {"system", "tailscale", "roteador"} \subseteq Managed
  BY DEF Managed
<1>2. QED
  BY <1>1, ReadinessOptionsAreOpen

(* The verdict on a router is the one the sections that were read deserve  *)
(* (readiness.rs): every check sees what is said where it looks, and the   *)
(* bands of one network, no others, are held against one another.          *)
THEOREM VerdictIsDeserved == Spec => []FitMeansFit
<1>1. SurveyInv => FitMeansFit
  <2> SUFFICES ASSUME SurveyInv, output.kind = "verdict"
               PROVE  FitMeansFit
    BY DEF FitMeansFit
  <2>1. Answered(answers, decodes) /\ decodes \in BOOLEAN
    BY DEF SurveyInv, AnswersInv, RouterInv
  <2>2. Surveyed(answers, decodes)
    <3>1. Survey(answers).refused = "none"
      BY DEF SurveyInv, OutputInv, ConcludedWell
    <3>2. QED
      BY <2>1, <3>1, SurveyedIs
  <2> DEFINE inv == Survey(answers).packages
             u == IF output.asked THEN IF "system" \in output.staged THEN 1 ELSE 0 ELSE Unset
             ntp == OptionOf(inv, "system", "ntp", "enabled")
             host == OptionOf(inv, "system", "system_0", "hostname")
             tail == OptionOf(inv, "tailscale", "settings", "enabled")
             owner == OptionOf(inv, "roteador", "fleet", "owner")
  <2>3. output.fit = (Failing(inv, u) = {})
    BY DEF SurveyInv, OutputInv, Ready
  <2>4. ntp = "1" <=> "1" \in Said("system", "ntp", "enabled")
    <3>1. \/ Said("system", "ntp", "enabled") = {} /\ ntp = Unset
          \/ Said("system", "ntp", "enabled") = {ntp} /\ ntp # Unset
      BY <2>1, <2>2, Checked, OptionIsSaid
    <3> HIDE DEF ntp
    <3>2. QED
      BY <3>1, Sentinels
  <2>5. host \notin {"GL-MT6000", Unset} <=>
          Said("system", "system_0", "hostname") \ {"GL-MT6000"} # {}
    <3>1. \/ Said("system", "system_0", "hostname") = {} /\ host = Unset
          \/ Said("system", "system_0", "hostname") = {host} /\ host # Unset
      BY <2>1, <2>2, Checked, OptionIsSaid
    <3> HIDE DEF host
    <3>2. QED
      BY <3>1
  <2>6. tail = "1" <=> "1" \in Said("tailscale", "settings", "enabled")
    <3>1. \/ Said("tailscale", "settings", "enabled") = {} /\ tail = Unset
          \/ Said("tailscale", "settings", "enabled") = {tail} /\ tail # Unset
      BY <2>1, <2>2, Checked, OptionIsSaid
    <3> HIDE DEF tail
    <3>2. QED
      BY <3>1, Sentinels
  <2>7. owner # Unset <=> Said("roteador", "fleet", "owner") # {}
    <3>1. \/ Said("roteador", "fleet", "owner") = {} /\ owner = Unset
          \/ Said("roteador", "fleet", "owner") = {owner} /\ owner # Unset
      BY <2>1, <2>2, Checked, OptionIsSaid
    <3> HIDE DEF owner
    <3>2. QED
      BY <3>1
  <2>8. (~\E s \in SectionsOf(inv, "managed") : s.anonymous) <=>
          \A a \in Read : a[1] \in Managed => ~IsAnonymous(a[2])
    BY <2>1, <2>2, PositionalIs
  <2>9. SecretsAgree(inv) <=> \A a \in Read : \A o \in SecretNames(a[2]) : ~Divided(a[1], o)
    BY <2>1, <2>2, SecretsAgreeIs
  <2>10. u \in {Unset, 0} <=> (output.asked => "system" \notin output.staged)
    BY Sentinels
  <2> HIDE DEF inv, u, ntp, host, tail, owner
  <2>11. Failing(inv, u) = {} <=>
           /\ ntp = "1" /\ host \notin {"GL-MT6000", Unset} /\ tail = "1"
           /\ ~\E s \in SectionsOf(inv, "managed") : s.anonymous
           /\ u \in {Unset, 0} /\ owner # Unset /\ SecretsAgree(inv)
    BY FailingIs DEF ntp, host, tail, owner
  <2>12. QED
    BY <2>3, <2>4, <2>5, <2>6, <2>7, <2>8, <2>9, <2>10, <2>11 DEF FitMeansFit
<1>2. QED
  BY <1>1, SurveyInvariant, PTL

-----------------------------------------------------------------------------
(***************************************************************************)
(* The fixture.                                                            *)
(***************************************************************************)

(* It has the files of the router, every section scrubbed in its place.    *)
LEMMA FixtureFileIs ==
  ASSUME NEW A, NEW decoded, Answered(A, decoded), Surveyed(A, decoded),
         NEW i \in 1 .. Len(A)
  PROVE  LET S == FileOf(Fixture(A), i)
             R == FileOf(A, i)
         IN  /\ Len(S) = Len(R) /\ Len(R) \in Nat /\ Len(R) <= Longest
             /\ DOMAIN S = 1 .. Len(R) /\ DOMAIN R = 1 .. Len(R)
             /\ \A j \in 1 .. Len(R) :
                  /\ S[j] = Scrub(A[i].name, R[j], SetToSeq(Secrets(A)))
                  /\ DOMAIN R[j] = RawFields /\ R[j] \in A[i].body
<1> DEFINE R == FileOf(A, i)
           p == A[i].name
           c == SetToSeq(Secrets(A))
           n == Len(R)
           S == [j \in 1 .. n |-> Scrub(p, R[j], c)]
<1>1. Reading(p, R, decoded) /\ A[i].body = ToSet(R)
  BY DEF Surveyed
<1>2. /\ n \in Nat /\ n <= Longest /\ DOMAIN R = 1 .. n
      /\ ToSet(R) = {R[j] : j \in 1 .. n} /\ \A j \in 1 .. n : R[j].index = j - 1
  BY <1>1, ReadingIs
<1>3. \A j \in 1 .. n : DOMAIN R[j] = RawFields
  BY <1>1 DEF Reading, Answerable
<1>4. Fixture(A)[i].body = {Scrub(p, raw, c) : raw \in A[i].body}
  BY FixtureIs
<1> HIDE DEF R, p, c, n
<1>5. DOMAIN S = 1 .. n /\ \A j \in 1 .. n : S[j] = Scrub(p, R[j], c)
  OBVIOUS
<1>6. Len(S) = n
  BY <1>2
<1> HIDE DEF S
<1>7. ToSet(S) = {Scrub(p, R[j], c) : j \in 1 .. n}
  BY <1>5 DEF ToSet
<1>8. Fixture(A)[i].body = ToSet(S)
  BY <1>1, <1>2, <1>4, <1>7
<1>9. \A j \in 1 .. n : S[j].index = j - 1
  <2> SUFFICES ASSUME NEW j \in 1 .. n PROVE S[j].index = j - 1
    OBVIOUS
  <2>1. Scrub(p, R[j], c).index = R[j].index
    BY <1>3, ScrubIs
  <2>2. QED
    BY <1>2, <1>5, <2>1
<1>10. S = [j \in 1 .. n |-> S[j]]
  BY DEF S
<1>11. ByIndex(ToSet(S)) = S
  BY <1>2, <1>9, <1>10, IndexedBody
<1>12. FileOf(Fixture(A), i) = S
  BY <1>8, <1>11 DEF FileOf
<1>13. \A j \in 1 .. n : R[j] \in A[i].body
  BY <1>1, <1>2
<1>14. QED
  BY <1>2, <1>3, <1>5, <1>6, <1>12, <1>13 DEF R, p, c, n

(* What scrubbing leaves alone: the names of the options, every option of  *)
(* a managed package that is no secret, the wiring, and what was empty.    *)
LEMMA ScrubKeeps ==
  ASSUME NEW p, NEW c, NEW raw, DOMAIN raw = RawFields
  PROVE  LET s == Scrub(p, raw, c)
         IN  /\ SecretNames(s) = SecretNames(raw)
             /\ IsAnonymous(s) = IsAnonymous(raw)
             /\ \A o \in DOMAIN raw.options :
                  ~Scrubbed(p, o, raw.options[o]) => s.options[o] = raw.options[o]
<1> DEFINE s == Scrub(p, raw, c)
<1>1. /\ s.name = raw.name /\ s.anonymous = raw.anonymous /\ s.lists = raw.lists
      /\ DOMAIN s.options = DOMAIN raw.options
      /\ \A o \in DOMAIN raw.options :
           s.options[o] = IF Scrubbed(p, o, raw.options[o])
                            THEN Placeholder(c, raw.options[o]) ELSE raw.options[o]
  BY ScrubIs
<1> HIDE DEF s
<1>2. SecretNames(s) = SecretNames(raw)
  BY <1>1 DEF SecretNames, OptionNames
<1>3. IsAnonymous(s) = IsAnonymous(raw)
  BY <1>1 DEF IsAnonymous
<1>4. QED
  BY <1>1, <1>2, <1>3 DEF s

(* A secret is empty where it was, and alike where it was.                 *)
LEMMA ScrubbedSecret ==
  ASSUME NEW A, NEW decoded, Answered(A, decoded), Surveyed(A, decoded),
         NEW i \in 1 .. Len(A), NEW raw \in A[i].body, DOMAIN raw = RawFields,
         NEW o \in DOMAIN raw.options, OptionIsSecret(o)
  PROVE  LET s == Scrub(A[i].name, raw, SetToSeq(Secrets(A)))
         IN  /\ raw.options[o] = "" => s.options[o] = ""
             /\ raw.options[o] # "" =>
                  /\ s.options[o] # "" /\ raw.options[o] \in Secrets(A)
                  /\ s.options[o] = Placeholder(SetToSeq(Secrets(A)), raw.options[o])
<1> DEFINE c == SetToSeq(Secrets(A))
           p == A[i].name
           v == raw.options[o]
           s == Scrub(p, raw, c)
<1>1. s.options[o] = IF Scrubbed(p, o, v) THEN Placeholder(c, v) ELSE v
  BY ScrubIs
<1>2. Scrubbed(p, o, v) <=> v # ""
  BY DEF Scrubbed, IsStructural
<1>3. Scrubbed(p, o, v) => v \in Secrets(A)
  BY SecretsAre
<1>4. v \in Secrets(A) => Placeholder(c, v) \notin Material \cup {""}
  BY PlaceholderIs
<1> HIDE DEF s, c, v
<1>5. QED
  BY <1>1, <1>2, <1>3, <1>4 DEF s, c, v

LEMMA CarriersKept ==
  ASSUME NEW A, NEW decoded, Answered(A, decoded), Surveyed(A, decoded),
         NEW i \in 1 .. Len(A), NEW o, OptionIsSecret(o), NEW n
  PROVE  /\ Carriers(FileOf(Fixture(A), i), o, n) = Carriers(FileOf(A, i), o, n)
         /\ Agreed(FileOf(Fixture(A), i), o, n) <=> Agreed(FileOf(A, i), o, n)
<1> DEFINE R == FileOf(A, i)
           S == FileOf(Fixture(A), i)
           c == SetToSeq(Secrets(A))
           p == A[i].name
<1>1. DOMAIN S = 1 .. Len(R) /\ DOMAIN R = 1 .. Len(R)
  BY FixtureFileIs
<1>2. ASSUME NEW j \in 1 .. Len(R)
      PROVE  /\ S[j] = Scrub(p, R[j], c) /\ DOMAIN R[j] = RawFields /\ R[j] \in A[i].body
  BY FixtureFileIs
<1>3. ASSUME NEW j \in 1 .. Len(R)
      PROVE  /\ DOMAIN S[j].options = DOMAIN R[j].options
             /\ "network" \in DOMAIN R[j].options =>
                  S[j].options["network"] = R[j].options["network"]
             /\ o \in DOMAIN R[j].options =>
                  /\ R[j].options[o] = "" => S[j].options[o] = ""
                  /\ R[j].options[o] # "" =>
                       /\ S[j].options[o] # "" /\ R[j].options[o] \in Secrets(A)
                       /\ S[j].options[o] = Placeholder(c, R[j].options[o])
  <2>1. S[j] = Scrub(p, R[j], c) /\ DOMAIN R[j] = RawFields /\ R[j] \in A[i].body
    BY <1>2
  <2> HIDE DEF S
  <2>2. DOMAIN S[j].options = DOMAIN R[j].options
    BY <2>1, ScrubIs
  <2>3. IsStructural("network")
    BY Checked DEF IsStructural, Structural
  <2>4. ~Scrubbed(p, "network", R[j].options["network"])
    BY <2>3 DEF Scrubbed
  <2>5. "network" \in DOMAIN R[j].options => S[j].options["network"] = R[j].options["network"]
    BY <2>1, <2>4, ScrubKeeps
  <2>6. o \in DOMAIN R[j].options =>
          /\ R[j].options[o] = "" => S[j].options[o] = ""
          /\ R[j].options[o] # "" =>
               /\ S[j].options[o] # "" /\ R[j].options[o] \in Secrets(A)
               /\ S[j].options[o] = Placeholder(c, R[j].options[o])
    <3> HIDE DEF R
    <3>1. ASSUME NEW raw \in A[i].body, DOMAIN raw = RawFields, o \in DOMAIN raw.options
          PROVE  LET s == Scrub(p, raw, c)
                 IN  /\ raw.options[o] = "" => s.options[o] = ""
                     /\ raw.options[o] # "" =>
                          /\ s.options[o] # "" /\ raw.options[o] \in Secrets(A)
                          /\ s.options[o] = Placeholder(c, raw.options[o])
      BY <3>1, ScrubbedSecret
    <3> HIDE DEF p, c
    <3>2. QED
      BY <2>1, <3>1
  <2>7. QED
    BY <2>2, <2>5, <2>6
<1>4. \A u, v \in Secrets(A) : Placeholder(c, u) = Placeholder(c, v) => u = v
  BY PlaceholderIs
<1> HIDE DEF S, R, c
<1>5. \A j \in 1 .. Len(R) : j \in Carriers(S, o, n) <=> j \in Carriers(R, o, n)
  BY <1>1, <1>3 DEF Carriers
<1>6. Carriers(S, o, n) \subseteq 1 .. Len(R) /\ Carriers(R, o, n) \subseteq 1 .. Len(R)
  BY <1>1 DEF Carriers
<1>7. Carriers(S, o, n) = Carriers(R, o, n)
  BY <1>5, <1>6
<1>8. ASSUME NEW j \in Carriers(R, o, n), NEW k \in Carriers(R, o, n)
      PROVE  S[j].options[o] = S[k].options[o] <=> R[j].options[o] = R[k].options[o]
  <2>1. /\ j \in 1 .. Len(R) /\ o \in DOMAIN R[j].options /\ R[j].options[o] # ""
        /\ k \in 1 .. Len(R) /\ o \in DOMAIN R[k].options /\ R[k].options[o] # ""
    BY <1>6 DEF Carriers
  <2>2. /\ S[j].options[o] = Placeholder(c, R[j].options[o]) /\ R[j].options[o] \in Secrets(A)
        /\ S[k].options[o] = Placeholder(c, R[k].options[o]) /\ R[k].options[o] \in Secrets(A)
    BY <1>3, <2>1
  <2>3. QED
    BY <1>4, <2>2
<1>9. Agreed(S, o, n) <=> Agreed(R, o, n)
  BY <1>7, <1>8 DEF Agreed
<1>10. QED
  BY <1>7, <1>9 DEF S, R

LEMMA AgreementsKept ==
  ASSUME NEW A, NEW decoded, Answered(A, decoded), Surveyed(A, decoded),
         NEW i \in 1 .. Len(A)
  PROVE  Agreements(FileOf(Fixture(A), i)) = Agreements(FileOf(A, i))
<1> DEFINE R == FileOf(A, i)
           S == FileOf(Fixture(A), i)
           c == SetToSeq(Secrets(A))
           p == A[i].name
           T(f, j) == SecretNames(f[j]) \cap DOMAIN f[j].options
<1>1. DOMAIN S = 1 .. Len(R) /\ DOMAIN R = 1 .. Len(R)
  BY FixtureFileIs
<1>2. ASSUME NEW j \in 1 .. Len(R)
      PROVE  /\ SecretNames(S[j]) = SecretNames(R[j])
             /\ DOMAIN S[j].options = DOMAIN R[j].options
             /\ "network" \in DOMAIN R[j].options =>
                  S[j].options["network"] = R[j].options["network"]
  <2>1. S[j] = Scrub(p, R[j], c) /\ DOMAIN R[j] = RawFields
    BY FixtureFileIs
  <2> HIDE DEF S
  <2>2. DOMAIN S[j].options = DOMAIN R[j].options
    BY <2>1, ScrubIs
  <2>3. IsStructural("network")
    BY Checked DEF IsStructural, Structural
  <2>4. ~Scrubbed(p, "network", R[j].options["network"])
    BY <2>3 DEF Scrubbed
  <2>5. /\ SecretNames(S[j]) = SecretNames(R[j])
        /\ "network" \in DOMAIN R[j].options => S[j].options["network"] = R[j].options["network"]
    BY <2>1, <2>4, ScrubKeeps
  <2>6. QED
    BY <2>2, <2>5
<1>3. SecretScalars(S) = UNION {T(S, j) : j \in 1 .. Len(R)}
  BY <1>1 DEF SecretScalars
<1>4. SecretScalars(R) = UNION {T(R, j) : j \in 1 .. Len(R)}
  BY <1>1 DEF SecretScalars
<1>5. \A j \in 1 .. Len(R) : T(S, j) = T(R, j)
  BY <1>2
<1> HIDE DEF S, R, T
<1>6. SecretScalars(S) = SecretScalars(R)
  BY <1>3, <1>4, <1>5
<1>7. Networks(S) = Networks(R)
  <2> DEFINE N == {j \in 1 .. Len(R) : "network" \in DOMAIN R[j].options}
  <2>1. {j \in DOMAIN S : "network" \in DOMAIN S[j].options} = N
    BY <1>1, <1>2
  <2>2. {j \in DOMAIN R : "network" \in DOMAIN R[j].options} = N
    BY <1>1
  <2>3. \A j \in N : S[j].options["network"] = R[j].options["network"]
    BY <1>2
  <2> HIDE DEF N
  <2>4. Networks(S) = {S[j].options["network"] : j \in N}
    BY <2>1 DEF Networks
  <2>5. Networks(R) = {R[j].options["network"] : j \in N}
    BY <2>2 DEF Networks
  <2>6. QED
    BY <2>3, <2>4, <2>5
<1>8. ASSUME NEW h \in SecretScalars(R) \X Networks(R)
      PROVE  /\ Carriers(S, h[1], h[2]) = Carriers(R, h[1], h[2])
             /\ Agreed(S, h[1], h[2]) = Agreed(R, h[1], h[2])
  <2>1. h[1] \in SecretScalars(R)
    OBVIOUS
  <2>2. OptionIsSecret(h[1])
    BY <2>1 DEF SecretScalars, SecretNames
  <2>3. /\ Carriers(S, h[1], h[2]) = Carriers(R, h[1], h[2])
        /\ Agreed(S, h[1], h[2]) <=> Agreed(R, h[1], h[2])
    BY <2>2, CarriersKept DEF S, R
  <2>4. Agreed(S, h[1], h[2]) \in BOOLEAN /\ Agreed(R, h[1], h[2]) \in BOOLEAN
    BY DEF Agreed
  <2>5. QED
    BY <2>3, <2>4
<1>9. Shared(S) = Shared(R)
  <2>1. Shared(S) = {h \in SecretScalars(R) \X Networks(R) :
                       Cardinality(Carriers(S, h[1], h[2])) > 1}
    BY <1>6, <1>7 DEF Shared
  <2>2. QED
    BY <1>8, <2>1 DEF Shared
<1> DEFINE rec(f, h) == [option |-> h[1], network |-> h[2], agree |-> Agreed(f, h[1], h[2])]
<1>10. \A h \in Shared(R) : rec(S, h) = rec(R, h)
  BY <1>8 DEF Shared
<1>11. Agreements(S) = {rec(S, h) : h \in Shared(S)} /\ Agreements(R) = {rec(R, h) : h \in Shared(R)}
  BY AgreementsAre
<1> HIDE DEF rec
<1>12. Agreements(S) = Agreements(R)
  BY <1>9, <1>10, <1>11
<1>13. QED
  BY <1>12 DEF S, R

(* A fixture is surveyed, section for section. *)
LEMMA FixtureLaid ==
  ASSUME NEW A, NEW decoded, Answered(A, decoded), Surveyed(A, decoded)
  PROVE  LET F == Fixture(A)
         IN  Survey(F).refused = "none" /\ Laid(F) /\ Len(F) = Len(A) /\ Spots(F) = Spots(A)
<1> DEFINE F == Fixture(A)
           c == SetToSeq(Secrets(A))
<1>1. /\ Len(F) = Len(A) /\ F = [i \in 1 .. Len(A) |-> F[i]]
      /\ \A i \in 1 .. Len(A) :
           /\ F[i] = [name |-> F[i].name, body |-> F[i].body]
           /\ F[i].name = A[i].name
           /\ F[i].body = {Scrub(A[i].name, raw, c) : raw \in A[i].body}
  BY FixtureIs
<1>2. Len(A) \in Nat
  BY AnsweredIs
<1>3. ASSUME NEW i \in 1 .. Len(A)
      PROVE  /\ Len(FileOf(F, i)) = Len(FileOf(A, i)) /\ Len(FileOf(A, i)) \in Nat
             /\ Len(FileOf(A, i)) <= Longest /\ DOMAIN FileOf(F, i) = 1 .. Len(FileOf(A, i))
  BY FixtureFileIs
<1>4. ASSUME NEW i \in 1 .. Len(A), A[i].name \in Managed, NEW s \in F[i].body
      PROVE  SecretNames(s) = {}
  <2>1. PICK raw \in A[i].body : s = Scrub(A[i].name, raw, c)
    BY <1>1
  <2>2. DOMAIN raw = RawFields
    BY SetIs
  <2>3. SecretNames(raw) = {}
    BY <1>4 DEF Surveyed
  <2>4. QED
    BY <2>1, <2>2, <2>3, ScrubKeeps
<1>5. \A i \in 1 .. Len(A) : A[i].name \in Classified
  BY DEF Surveyed
<1> HIDE DEF F, c
<1>6. Len(F) \in Nat /\ DOMAIN F = 1 .. Len(F)
  BY <1>1, <1>2
<1>7. ASSUME NEW i \in 1 .. Len(F)
      PROVE  /\ F[i].name \in Classified /\ HasValues(F[i])
             /\ F[i].name \in Managed => \A raw \in F[i].body : SecretNames(raw) = {}
  <2>1. i \in 1 .. Len(A)
    BY <1>1
  <2>2. F[i].name = A[i].name /\ F[i] = [name |-> F[i].name, body |-> F[i].body]
    BY <1>1, <2>1
  <2>3. HasValues(F[i])
    BY <2>2 DEF HasValues
  <2>4. QED
    BY <1>4, <1>5, <2>1, <2>2, <2>3
<1>8. Survey(F).refused = "none"
  BY <1>6, <1>7, SurveyIs
<1>9. Survey(F).packages = [i \in 1 .. Len(F) |-> ParsePackage(F[i].name, F[i].body)]
  BY <1>6, <1>8, SurveyIs
<1>10. Laid(F)
  BY <1>1, <1>3, <1>6, <1>9 DEF Laid
<1>11. Spots(F) = Spots(A)
  BY <1>1, <1>3 DEF Spots
<1>12. QED
  BY <1>1, <1>8, <1>10, <1>11 DEF F

(* What the inventory keeps of a section is not what scrubbing changes.    *)
LEMMA FixtureParsed ==
  ASSUME NEW A, NEW decoded, Answered(A, decoded), Surveyed(A, decoded),
         NEW t \in Spots(A)
  PROVE  LET F == Fixture(A)
         IN  /\ F[t[1]].name = A[t[1]].name
             /\ RawAt(F, t) = Scrub(A[t[1]].name, RawAt(A, t), SetToSeq(Secrets(A)))
             /\ DOMAIN RawAt(A, t) = RawFields
             /\ IsAnonymous(RawAt(F, t)) = IsAnonymous(RawAt(A, t))
             /\ RawAt(F, t).name = RawAt(A, t).name
             /\ ParsedAt(F, t).package = ParsedAt(A, t).package
             /\ ParsedAt(F, t).id = ParsedAt(A, t).id
             /\ ParsedAt(F, t).name = ParsedAt(A, t).name
             /\ ParsedAt(F, t).type = ParsedAt(A, t).type
             /\ ParsedAt(F, t).anonymous = ParsedAt(A, t).anonymous
             /\ ParsedAt(F, t).typeIndex = ParsedAt(A, t).typeIndex
<1> DEFINE F == Fixture(A)
           c == SetToSeq(Secrets(A))
           p == A[t[1]].name
           R == FileOf(A, t[1])
           S == FileOf(F, t[1])
<1>1. t[1] \in 1 .. Len(A) /\ t[2] \in 1 .. Len(R)
  BY SpotsAre
<1>2. /\ Len(R) \in Nat
      /\ \A j \in 1 .. Len(R) : S[j] = Scrub(p, R[j], c) /\ DOMAIN R[j] = RawFields
  BY <1>1, FixtureFileIs
<1>3. F[t[1]].name = p
  BY <1>1, FixtureIs
<1> HIDE DEF F, R, S, c, p
<1>4. ASSUME NEW j \in 1 .. Len(R)
      PROVE  /\ S[j].id = R[j].id /\ S[j].name = R[j].name /\ S[j].type = R[j].type
             /\ IsAnonymous(S[j]) = IsAnonymous(R[j])
  <2>1. /\ Scrub(p, R[j], c).id = R[j].id /\ Scrub(p, R[j], c).name = R[j].name
        /\ Scrub(p, R[j], c).type = R[j].type
    BY <1>2, ScrubIs
  <2>2. IsAnonymous(Scrub(p, R[j], c)) = IsAnonymous(R[j])
    BY <1>2, ScrubKeeps
  <2>3. QED
    BY <1>2, <2>1, <2>2
<1>5. TypeIndex(S, t[2]) = TypeIndex(R, t[2])
  <2>1. \A j \in 1 .. t[2] - 1 : j \in 1 .. Len(R)
    BY <1>1, <1>2
  <2>2. {j \in 1 .. t[2] - 1 : S[j].type = S[t[2]].type}
          = {j \in 1 .. t[2] - 1 : R[j].type = R[t[2]].type}
    BY <1>1, <1>4, <2>1
  <2>3. QED
    BY <2>2 DEF TypeIndex
<1>6. /\ ParsedAt(F, t).package = p /\ ParsedAt(A, t).package = p
      /\ ParsedAt(F, t).id = S[t[2]].id /\ ParsedAt(A, t).id = R[t[2]].id
      /\ ParsedAt(F, t).name = S[t[2]].name /\ ParsedAt(A, t).name = R[t[2]].name
      /\ ParsedAt(F, t).type = S[t[2]].type /\ ParsedAt(A, t).type = R[t[2]].type
      /\ ParsedAt(F, t).anonymous = IsAnonymous(S[t[2]])
      /\ ParsedAt(A, t).anonymous = IsAnonymous(R[t[2]])
      /\ ParsedAt(F, t).typeIndex = TypeIndex(S, t[2])
      /\ ParsedAt(A, t).typeIndex = TypeIndex(R, t[2])
  BY <1>3 DEF ParsedAt, ParseSection, S, R, p
<1>7. RawAt(F, t) = S[t[2]] /\ RawAt(A, t) = R[t[2]]
  BY DEF RawAt, S, R
<1>8. /\ RawAt(F, t) = Scrub(p, RawAt(A, t), c) /\ DOMAIN RawAt(A, t) = RawFields
  BY <1>1, <1>2, <1>7
<1>9. QED
  BY <1>1, <1>3, <1>4, <1>5, <1>6, <1>7, <1>8 DEF F, p, c

(* The imports of a fixture are those of the router.                       *)
LEMMA FixtureImports ==
  ASSUME NEW A, NEW decoded, Answered(A, decoded), Surveyed(A, decoded), NEW scope
  PROVE  Imports(Survey(Fixture(A)).packages, scope) = Imports(Survey(A).packages, scope)
<1> DEFINE F == Fixture(A)
           Import(s) == [to |-> TerraformAddress(s), package |-> s.package,
                         section |-> AsUci(s), id |-> s.id]
           In(s) == scope = "positional" \/ ~s.anonymous
           T == SpotsOf(A, "managed")
<1>1. Laid(A)
  BY SurveyedIsLaid
<1>2. Laid(F) /\ Spots(F) = Spots(A)
  BY FixtureLaid
<1>3. SectionsOf(Survey(A).packages, "managed") = {ParsedAt(A, t) : t \in T}
  BY <1>1, LaidSectionsAre
<1>4. SectionsOf(Survey(F).packages, "managed") = {ParsedAt(F, t) : t \in SpotsOf(F, "managed")}
  BY <1>2, LaidSectionsAre
<1>5. \A t \in Spots(A) : F[t[1]].name = A[t[1]].name
  BY FixtureParsed
<1>6. SpotsOf(F, "managed") = T
  BY <1>2, <1>5 DEF SpotsOf
<1>7. ASSUME NEW t \in T
      PROVE  /\ Import(ParsedAt(F, t)) = Import(ParsedAt(A, t))
             /\ In(ParsedAt(F, t)) <=> In(ParsedAt(A, t))
  <2> DEFINE s == ParsedAt(F, t)
             q == ParsedAt(A, t)
  <2>1. t \in Spots(A)
    BY DEF SpotsOf
  <2>2. /\ s.package = q.package /\ s.id = q.id /\ s.name = q.name /\ s.type = q.type
        /\ s.anonymous = q.anonymous /\ s.typeIndex = q.typeIndex
    BY <2>1, FixtureParsed
  <2> HIDE DEF s, q
  <2>3. AsUci(s) = AsUci(q)
    BY <2>2 DEF AsUci
  <2>4. TerraformAddress(s) = TerraformAddress(q)
    BY <2>2 DEF TerraformAddress
  <2>5. Import(s) = Import(q) /\ (In(s) <=> In(q))
    BY <2>2, <2>3, <2>4
  <2>6. QED
    BY <2>5 DEF s, q
<1>8. \A inv : Imports(inv, scope) = {Import(s) : s \in {q \in SectionsOf(inv, "managed") : In(q)}}
  BY DEF Imports, InScope
<1> HIDE DEF Import, In, T, F
<1>9. Imports(Survey(F).packages, scope)
        = {Import(ParsedAt(F, t)) : t \in {u \in T : In(ParsedAt(F, u))}}
  BY <1>4, <1>6, <1>8
<1>10. Imports(Survey(A).packages, scope)
         = {Import(ParsedAt(A, t)) : t \in {u \in T : In(ParsedAt(A, u))}}
  BY <1>3, <1>8
<1>11. Imports(Survey(F).packages, scope) = Imports(Survey(A).packages, scope)
  BY <1>7, <1>9, <1>10
<1>12. QED
  BY <1>11 DEF F

(* The checks of readiness see in a fixture what they see on the router.   *)
LEMMA FixtureOption ==
  ASSUME NEW A, NEW decoded \in BOOLEAN, Answered(A, decoded), Surveyed(A, decoded),
         NEW p \in Managed, NEW name, NEW o, ~OptionIsSecret(o)
  PROVE  OptionOf(Survey(Fixture(A)).packages, p, name, o)
           = OptionOf(Survey(A).packages, p, name, o)
<1> DEFINE F == Fixture(A)
           W(B) == Where(B, p, name, o)
           v(B) == OptionOf(Survey(B).packages, p, name, o)
<1>1. Laid(A) /\ Decided(A)
  BY AnswersDecided
<1>2. Laid(F) /\ Spots(F) = Spots(A)
  BY FixtureLaid
<1>3. ASSUME NEW t \in Spots(A)
      PROVE  /\ F[t[1]].name = A[t[1]].name
             /\ IsAnonymous(RawAt(F, t)) = IsAnonymous(RawAt(A, t))
             /\ RawAt(F, t).name = RawAt(A, t).name
             /\ DOMAIN RawAt(F, t).options = DOMAIN RawAt(A, t).options
             /\ A[t[1]].name = p /\ o \in DOMAIN RawAt(A, t).options =>
                  RawAt(F, t).options[o] = RawAt(A, t).options[o]
  <2> DEFINE raw == RawAt(A, t)
             s == RawAt(F, t)
             q == A[t[1]].name
             c == SetToSeq(Secrets(A))
  <2>1. /\ F[t[1]].name = q /\ IsAnonymous(s) = IsAnonymous(raw) /\ s.name = raw.name
        /\ s = Scrub(q, raw, c) /\ DOMAIN raw = RawFields
    BY FixtureParsed
  <2>2. Classify(p) = "managed"
    BY ClassifyIs
  <2>3. q = p => ~Scrubbed(q, o, raw.options[o])
    BY <2>2 DEF Scrubbed, ScrubbedWhole
  <2> HIDE DEF s, raw, q, c
  <2>4. DOMAIN s.options = DOMAIN raw.options
    BY <2>1, ScrubIs
  <2>5. q = p /\ o \in DOMAIN raw.options => s.options[o] = raw.options[o]
    BY <2>1, <2>3, ScrubKeeps
  <2>6. QED
    BY <2>1, <2>4, <2>5 DEF s, raw, q
<1> HIDE DEF F
<1>4. Decided(F)
  BY <1>1, <1>2, <1>3 DEF Decided
<1>5. W(F) = W(A)
  BY <1>2, <1>3 DEF Where
<1>6. /\ W(A) = {} => v(A) = Unset
      /\ \A t : W(A) = {t} => v(A) = RawAt(A, t).options[o]
  BY <1>1, OptionIs
<1>7. /\ W(F) = {} => v(F) = Unset
      /\ \A t : W(F) = {t} => v(F) = RawAt(F, t).options[o]
  BY <1>2, <1>4, OptionIs
<1>8. W(A) = {} \/ \E t \in Spots(A) : W(A) = {t}
  BY WhereOnce
<1>9. \A t \in W(A) : RawAt(F, t).options[o] = RawAt(A, t).options[o]
  BY <1>3 DEF Where
<1> HIDE DEF v, W
<1>10. v(F) = v(A)
  BY <1>5, <1>6, <1>7, <1>8, <1>9
<1>11. QED
  BY <1>10 DEF v, F

LEMMA FixtureUnited ==
  ASSUME NEW A, NEW decoded, Answered(A, decoded), Surveyed(A, decoded)
  PROVE  SecretsAgree(Survey(Fixture(A)).packages) <=> SecretsAgree(Survey(A).packages)
<1> DEFINE F == Fixture(A)
<1>1. Laid(A)
  BY SurveyedIsLaid
<1>2. Laid(F) /\ Len(F) = Len(A)
  BY FixtureLaid
<1>3. SecretsAgree(Survey(A).packages) <=> \A i \in 1 .. Len(A) : United(FileOf(A, i))
  BY <1>1, PackagesAgree
<1>4. SecretsAgree(Survey(F).packages) <=> \A i \in 1 .. Len(A) : United(FileOf(F, i))
  BY <1>2, PackagesAgree
<1>5. ASSUME NEW i \in 1 .. Len(A)
      PROVE  United(FileOf(F, i)) <=> United(FileOf(A, i))
  <2>1. \A o, n : OptionIsSecret(o) => (Agreed(FileOf(F, i), o, n) <=> Agreed(FileOf(A, i), o, n))
    BY CarriersKept
  <2>2. QED
    BY <2>1 DEF United
<1>6. QED
  BY <1>3, <1>4, <1>5

LEMMA FixturePositional ==
  ASSUME NEW A, NEW decoded, Answered(A, decoded), Surveyed(A, decoded)
  PROVE  (\E s \in SectionsOf(Survey(Fixture(A)).packages, "managed") : s.anonymous) <=>
           \E s \in SectionsOf(Survey(A).packages, "managed") : s.anonymous
<1> DEFINE F == Fixture(A)
           T == SpotsOf(A, "managed")
<1>1. Laid(A)
  BY SurveyedIsLaid
<1>2. Laid(F) /\ Spots(F) = Spots(A)
  BY FixtureLaid
<1>3. SectionsOf(Survey(A).packages, "managed") = {ParsedAt(A, t) : t \in T}
  BY <1>1, LaidSectionsAre
<1>4. SectionsOf(Survey(F).packages, "managed") = {ParsedAt(F, t) : t \in SpotsOf(F, "managed")}
  BY <1>2, LaidSectionsAre
<1>5. \A t \in Spots(A) :
        /\ F[t[1]].name = A[t[1]].name
        /\ ParsedAt(F, t).anonymous = ParsedAt(A, t).anonymous
  BY FixtureParsed
<1>6. SpotsOf(F, "managed") = T /\ T \subseteq Spots(A)
  BY <1>2, <1>5 DEF SpotsOf
<1> HIDE DEF T
<1>7. QED
  BY <1>3, <1>4, <1>5, <1>6

LEMMA FixtureFails ==
  ASSUME NEW A, NEW decoded \in BOOLEAN, Answered(A, decoded), Surveyed(A, decoded), NEW u
  PROVE  Failing(Survey(Fixture(A)).packages, u) = Failing(Survey(A).packages, u)
<1> DEFINE inv == Survey(A).packages
           fix == Survey(Fixture(A)).packages
<1>1. OptionOf(fix, "system", "ntp", "enabled") = OptionOf(inv, "system", "ntp", "enabled")
  BY Checked, FixtureOption
<1>2. OptionOf(fix, "system", "system_0", "hostname")
        = OptionOf(inv, "system", "system_0", "hostname")
  BY Checked, FixtureOption
<1>3. OptionOf(fix, "tailscale", "settings", "enabled")
        = OptionOf(inv, "tailscale", "settings", "enabled")
  BY Checked, FixtureOption
<1>4. OptionOf(fix, "roteador", "fleet", "owner") = OptionOf(inv, "roteador", "fleet", "owner")
  BY Checked, FixtureOption
<1>5. (\E s \in SectionsOf(fix, "managed") : s.anonymous) <=>
        \E s \in SectionsOf(inv, "managed") : s.anonymous
  BY FixturePositional
<1>6. SecretsAgree(fix) <=> SecretsAgree(inv)
  BY FixtureUnited
<1> HIDE DEF inv, fix
<1>7. Failing(fix, u) = Failing(inv, u)
  BY <1>1, <1>2, <1>3, <1>4, <1>5, <1>6 DEF Failing
<1>8. QED
  BY <1>7 DEF inv, fix

LEMMA FixtureAgreements ==
  ASSUME NEW A, NEW decoded, Answered(A, decoded), Surveyed(A, decoded),
         NEW i \in 1 .. Len(A)
  PROVE  Survey(Fixture(A)).packages[i].agreements = Survey(A).packages[i].agreements
<1> DEFINE P(B) == ParsePackage(B[i].name, B[i].body)
           F == Fixture(A)
<1>1. Laid(A)
  BY SurveyedIsLaid
<1>2. Laid(F) /\ Len(F) = Len(A)
  BY FixtureLaid
<1>3. \A B : P(B).agreements = Agreements(FileOf(B, i))
  BY DEF ParsePackage, FileOf
<1>4. Agreements(FileOf(F, i)) = Agreements(FileOf(A, i))
  BY AgreementsKept
<1> HIDE DEF F
<1>5. Survey(A).packages[i] = P(A) /\ Survey(F).packages[i] = P(F)
  BY <1>1, <1>2 DEF Laid
<1> HIDE DEF P
<1>6. Survey(F).packages[i].agreements = Survey(A).packages[i].agreements
  BY <1>3, <1>4, <1>5
<1>7. QED
  BY <1>6 DEF F

(* A fixture is the router to everything that reads it: it is surveyed to  *)
(* the same addresses, agreements and verdict (capture.rs).                *)
THEOREM FixtureStandsIn == Spec => []FixtureStandsForRouter
<1>1. SurveyInv => FixtureStandsForRouter
  <2> SUFFICES ASSUME SurveyInv, output.kind = "fixture"
               PROVE  FixtureStandsForRouter
    BY DEF FixtureStandsForRouter
  <2>1. Answered(answers, decodes) /\ decodes \in BOOLEAN
    BY DEF SurveyInv, AnswersInv, RouterInv
  <2>2. output.of = Fixture(answers)
    BY DEF SurveyInv, OutputInv
  <2>3. Surveyed(answers, decodes)
    <3>1. Survey(answers).refused = "none"
      BY DEF SurveyInv, OutputInv, ConcludedWell
    <3>2. QED
      BY <2>1, <3>1, SurveyedIs
  <2>4. Survey(Fixture(answers)).refused = "none"
    BY <2>1, <2>3, FixtureLaid
  <2>5. DOMAIN answers = 1 .. Len(answers)
    BY <2>1, AnsweredIs
  <2>6. \A i \in 1 .. Len(answers) :
          Survey(Fixture(answers)).packages[i].agreements = Survey(answers).packages[i].agreements
    BY <2>1, <2>3, FixtureAgreements
  <2>7. \A scope : Imports(Survey(Fixture(answers)).packages, scope)
                     = Imports(Survey(answers).packages, scope)
    BY <2>1, <2>3, FixtureImports
  <2>8. Failing(Survey(Fixture(answers)).packages, 0) = Failing(Survey(answers).packages, 0)
    BY <2>1, <2>3, FixtureFails
  <2>9. QED
    BY <2>2, <2>4, <2>5, <2>6, <2>7, <2>8 DEF FixtureStandsForRouter
<1>2. QED
  BY <1>1, SurveyInvariant, PTL

=============================================================================
