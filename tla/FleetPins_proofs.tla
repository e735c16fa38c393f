---------------------------- MODULE FleetPins_proofs ----------------------------
(***************************************************************************)
(* Proofs about FleetPins, for every set of routers and renders, command   *)
(* lines of any length, and any number of renders and reviews.             *)
(***************************************************************************)
EXTENDS FleetPins, TLAPS, FiniteSetTheorems, SequenceTheorems,
        WellFoundedInduction

(* What a pin file may be made of. *)
AllSettings == {Settings(m) : m \in Renders}
PinKeys     == UNION {DOMAIN s : s \in AllSettings}
PinValues   == {"other"} \cup UNION {{s[k] : k \in DOMAIN s} : s \in AllSettings}
Entries     == [key : PinKeys, value : PinValues] \cup {Malformed}

PinInv ==
  /\ render \in [Routers -> Renders]
  /\ edits \in 0 .. MaxEdits
  /\ pin # NoPin => pin \in Seq(Entries)
  /\ result.kind \in {"none", "refused", "report", "pinned", "holds", "breached"}
  /\ source \in Paths \cup {NoRouters}

(* What a pin that was only ever shortened still has in common with the    *)
(* routers it was taken from.                                              *)
SourceInv ==
  source # NoRouters =>
    /\ pin \in Seq(Entries)
    /\ \A i \in DOMAIN pin : /\ pin[i] # Malformed
                             /\ AllSay(source, pin[i].key, pin[i].value)

(* The inductive invariant: what a result says is said of the files as     *)
(* they are, for a file that changes takes the result with it.             *)
IInv == /\ PinInv /\ SourceInv
        /\ GateIsSound /\ BreachesAreExact /\ PinsAreUniversal /\ NoBreachIsInvented

-----------------------------------------------------------------------------
(* A set of naturals has a smallest element, if it has any.                *)
LEMMA Smallest ==
  ASSUME NEW T \in SUBSET Nat, T # {}
  PROVE  \E x \in T : \A y \in T : x <= y
<1> DEFINE R == OpToRel(<, Nat)
<1>1. IsWellFoundedOn(R, Nat)
  BY NatLessThanWellFounded, Zenon
<1>2. PICK x \in T : \A y \in T : ~ (<<y, x>> \in R)
  <2> HIDE DEF R
  <2> QED
    BY <1>1, WFMin
<1>3. \A y \in T : ~ (y < x)
  BY <1>2 DEF OpToRel
<1>4. QED
  BY <1>3

(* A set of positions has a last one, if it has any.                       *)
LEMMA Largest ==
  ASSUME NEW n \in Nat, NEW T \in SUBSET (1 .. n), T # {}
  PROVE  \E x \in T : \A y \in T : y <= x
<1> DEFINE U == {m \in 0 .. n : \A y \in T : y <= m}
<1>1. U \in SUBSET Nat /\ n \in U
  OBVIOUS
<1>2. PICK m \in U : \A l \in U : m <= l
  <2> HIDE DEF U
  <2> QED
    BY <1>1, Smallest
<1>3. m \in T
  <2> SUFFICES ASSUME m \notin T PROVE FALSE
    OBVIOUS
  <2>1. \A y \in T : y \in 1 .. n /\ y <= m /\ y # m
    BY <1>2
  <2>2. m \in 1 .. n
    <3>1. PICK y \in T : TRUE
      OBVIOUS
    <3>2. y \in 1 .. n /\ y <= m
      BY <2>1
    <3>3. m \in 0 .. n
      BY <1>2
    <3>4. QED
      BY <3>2, <3>3
  <2>3. \A y \in T : y <= m - 1
    BY <2>1, <2>2
  <2>4. m - 1 \in U
    BY <2>2, <2>3
  <2>5. m <= m - 1
    BY <1>2, <2>4
  <2>6. QED
    BY <2>2, <2>5
<1>4. QED
  BY <1>2, <1>3

(***************************************************************************)
(* What is compared.                                                       *)
(***************************************************************************)

(* The compared routers stand where their paths stand.                     *)
LEMMA ComparedIs ==
  ASSUME NEW paths \in Paths
  PROVE  /\ \E n \in Nat : DOMAIN paths = 1 .. n /\ Len(Compared(paths)) = n
         /\ DOMAIN Compared(paths) = DOMAIN paths
         /\ \A i \in DOMAIN paths : /\ paths[i] \in Routers
                                    /\ Compared(paths)[i] = Declared(paths[i])
<1>1. PICK n \in 0 .. MaxPaths : paths \in [1 .. n -> Routers]
  BY DEF Paths
<1>2. n \in Nat /\ DOMAIN paths = 1 .. n
  BY <1>1, PathsAssumption
<1>3. DOMAIN Compared(paths) = 1 .. n
  BY <1>2 DEF Compared
<1>4. Len(Compared(paths)) = n
  BY <1>2, <1>3
<1>5. \A i \in DOMAIN paths : paths[i] \in Routers /\ Compared(paths)[i] = Declared(paths[i])
  BY <1>1, <1>2 DEF Compared, Declared
<1>6. QED
  BY <1>2, <1>3, <1>4, <1>5

(* A comparison that is not refused is one of a first router at least, and *)
(* each of its routers can be read.                                        *)
LEMMA ComparedWell ==
  ASSUME NEW paths \in Paths, Refusal(paths) = "none"
  PROVE  /\ 1 \in DOMAIN paths
         /\ \A i \in DOMAIN paths : RenderError(render[paths[i]]) = "none"
<1>1. CASE Unreadable(paths) = {}
  <2>1. FleetError(Compared(paths)) = "none"
    BY <1>1 DEF Refusal
  <2>2. ~ Len(Compared(paths)) < 2
    BY <2>1 DEF FleetError
  <2>3. QED
    BY <1>1, <2>2, ComparedIs DEF Unreadable
<1>2. CASE Unreadable(paths) # {}
  <2>1. PICK n \in Nat : DOMAIN paths = 1 .. n
    BY ComparedIs
  <2>2. Unreadable(paths) \subseteq 1 .. n
    BY <2>1 DEF Unreadable
  <2>3. \E i \in Unreadable(paths) : \A j \in Unreadable(paths) : i <= j
    BY <1>2, <2>2, Smallest
  <2>4. QED
    BY <2>3 DEF Refusal, Unreadable
<1>3. QED
  BY <1>1, <1>2

(* What every router says alike is a setting of the first.                 *)
LEMMA ConstantIsFirst ==
  ASSUME NEW paths \in Paths, Refusal(paths) = "none",
         NEW k \in Of(Compared(paths), "Constant")
  PROVE  /\ k \in DOMAIN Compared(paths)[1]
         /\ AllSay(paths, k, Compared(paths)[1][k])
<1>1. Agreement(Compared(paths), k) = "Constant"
  BY DEF Of
<1>2. Everywhere(Compared(paths), k) /\ Unanimous(Compared(paths), k)
  BY <1>1 DEF Agreement
<1>3. 1 \in DOMAIN Compared(paths)
  BY ComparedWell, ComparedIs
<1>4. \A i \in DOMAIN paths : /\ k \in DOMAIN Compared(paths)[i]
                              /\ Compared(paths)[i][k] = Compared(paths)[1][k]
  BY <1>2, ComparedIs DEF Everywhere, Unanimous
<1>5. \A i \in DOMAIN paths : Says(paths[i], k, Compared(paths)[1][k])
  BY <1>4, ComparedIs DEF Says
<1>6. QED
  BY <1>2, <1>3, <1>5 DEF AllSay, Everywhere

(* The file of what they say alike is finite, and has such entries only.   *)
LEMMA PinFileIs ==
  ASSUME NEW paths \in Paths, Refusal(paths) = "none", render \in [Routers -> Renders]
  PROVE  /\ Cardinality(PinFile(Compared(paths))) \in Nat
         /\ PinFile(Compared(paths)) \subseteq Entries
         /\ \A e \in PinFile(Compared(paths)) : e # Malformed /\ AllSay(paths, e.key, e.value)
<1> DEFINE fleet == Compared(paths)
           S     == Of(fleet, "Constant")
           T     == PinFile(fleet)
           f     == [k \in S |-> [key |-> k, value |-> fleet[1][k]]]
<1>1. /\ 1 \in DOMAIN paths /\ paths[1] \in Routers /\ render[paths[1]] \in Renders
      /\ fleet[1] = Settings(render[paths[1]])
      /\ RenderError(render[paths[1]]) = "none"
  BY ComparedWell, ComparedIs DEF Declared
<1>2. S \subseteq DOMAIN fleet[1]
  BY ConstantIsFirst
<1>3. IsFiniteSet(S)
  <2>1. IsFiniteSet(DOMAIN fleet[1])
    BY <1>1, FiniteAssumption
  <2> HIDE DEF fleet, S
  <2> QED
    BY <1>2, <2>1, FS_Subset
<1>4. T = {[key |-> k, value |-> fleet[1][k]] : k \in S}
  BY DEF PinFile
<1>5. f \in Surjection(S, T)
  <2> HIDE DEF fleet, S, T
  <2> QED
    BY <1>4 DEF Surjection
<1>6. IsFiniteSet(T) /\ Cardinality(T) \in Nat
  <2> HIDE DEF S, T, f
  <2> QED
    BY <1>3, <1>5, FS_Surjection, FS_CardinalityType
<1>7. ASSUME NEW e \in T
      PROVE  e \in Entries /\ e # Malformed /\ AllSay(paths, e.key, e.value)
  <2>1. PICK k \in S : e = [key |-> k, value |-> fleet[1][k]]
    BY <1>4
  <2>2. k \in DOMAIN fleet[1] /\ AllSay(paths, k, fleet[1][k])
    BY ConstantIsFirst
  <2>3. fleet[1] \in AllSettings
    BY <1>1 DEF AllSettings
  <2>4. k \in PinKeys /\ fleet[1][k] \in PinValues
    BY <2>2, <2>3 DEF PinKeys, PinValues
  <2>5. e \in Entries
    BY <2>1, <2>4 DEF Entries
  <2>6. e # Malformed
    BY <1>1, <2>1, <2>2, MalformedAssumption
  <2>7. QED
    BY <2>1, <2>2, <2>5, <2>6
<1>8. QED
  BY <1>6, <1>7

-----------------------------------------------------------------------------
(***************************************************************************)
(* What a breach is.                                                       *)
(***************************************************************************)

(* There is none exactly when every router says what is pinned.            *)
LEMMA NoBreach ==
  ASSUME NEW paths \in Paths, Refusal(paths) = "none", NEW pinned, NEW k
  PROVE  Breach(Compared(paths), pinned, k) = "none" <=> AllSay(paths, k, pinned[k])
<1> DEFINE fleet == Compared(paths)
<1>1. /\ 1 \in DOMAIN paths /\ DOMAIN fleet = DOMAIN paths
      /\ \A i \in DOMAIN paths : fleet[i] = Declared(paths[i])
  BY ComparedWell, ComparedIs
<1> HIDE DEF fleet
<1>2. ASSUME Breach(fleet, pinned, k) = "none"
      PROVE  AllSay(paths, k, pinned[k])
  <2>1. k \in AllKeys(fleet) /\ Agreement(fleet, k) = "Constant" /\ fleet[1][k] = pinned[k]
    BY <1>2 DEF Breach
  <2>2. Everywhere(fleet, k) /\ Unanimous(fleet, k)
    BY <2>1 DEF Agreement
  <2>3. QED
    BY <1>1, <2>1, <2>2 DEF AllSay, Says, Everywhere, Unanimous
<1>3. ASSUME AllSay(paths, k, pinned[k])
      PROVE  Breach(fleet, pinned, k) = "none"
  <2>1. \A i \in DOMAIN fleet : k \in DOMAIN fleet[i] /\ fleet[i][k] = pinned[k]
    BY <1>1, <1>3 DEF AllSay, Says
  <2>2. k \in AllKeys(fleet)
    BY <1>1, <2>1 DEF AllKeys
  <2>3. Everywhere(fleet, k) /\ Unanimous(fleet, k)
    BY <1>1, <2>1 DEF Everywhere, Unanimous
  <2>4. QED
    BY <1>1, <2>1, <2>2, <2>3 DEF Breach, Agreement
<1>4. QED
  BY <1>2, <1>3 DEF fleet

(* A set with two elements has more than one, and one with one has not.    *)
LEMMA MoreThanOne ==
  ASSUME NEW S, IsFiniteSet(S), NEW x \in S
  PROVE  Cardinality(S) > 1 <=> \E y \in S : y # x
<1>1. CASE S = {x}
  BY <1>1, FS_Singleton
<1>2. CASE S # {x}
  <2>1. Cardinality(S) \in Nat
    BY FS_CardinalityType
  <2>2. Cardinality(S) # 0
    BY FS_EmptySet
  <2>3. Cardinality(S) # 1
    <3>1. SUFFICES ASSUME Cardinality(S) = 1 PROVE FALSE
      OBVIOUS
    <3>2. PICK y : S = {y}
      BY <3>1, FS_Singleton
    <3>3. QED
      BY <1>2, <3>2
  <2>4. \E y \in S : y # x
    BY <1>2
  <2>5. QED
    BY <2>1, <2>2, <2>3, <2>4
<1>3. QED
  BY <1>1, <1>2

(* What one is called is what happened to the setting.                     *)
LEMMA BreachIsExact ==
  ASSUME NEW paths \in Paths, Refusal(paths) = "none", NEW pinned, NEW k,
         Breach(Compared(paths), pinned, k) # "none"
  PROVE  Breach(Compared(paths), pinned, k) = HappenedTo(paths, k)
<1> DEFINE fleet    == Compared(paths)
           speaking == {i \in DOMAIN paths : k \in DOMAIN Declared(paths[i])}
           said     == {Declared(paths[i])[k] : i \in speaking}
<1>1. /\ 1 \in DOMAIN paths /\ DOMAIN fleet = DOMAIN paths
      /\ \A i \in DOMAIN paths : fleet[i] = Declared(paths[i])
  BY ComparedWell, ComparedIs
<1>2. HappenedTo(paths, k) =
        CASE speaking = {} -> "Vanished"
          [] speaking # DOMAIN paths /\ speaking # {} -> "NoLongerUniversal"
          [] OTHER -> IF Cardinality(said) > 1 THEN "Diverged" ELSE "ValueChanged"
  BY DEF HappenedTo
<1> HIDE DEF fleet
<1>3. k \in AllKeys(fleet) <=> speaking # {}
  BY <1>1 DEF AllKeys
<1>4. Everywhere(fleet, k) <=> speaking = DOMAIN paths
  BY <1>1 DEF Everywhere
<1>5. ASSUME speaking = DOMAIN paths
      PROVE  Unanimous(fleet, k) <=> ~ Cardinality(said) > 1
  <2>1. PICK n \in Nat : DOMAIN paths = 1 .. n
    BY ComparedIs
  <2>2. IsFiniteSet(said)
    <3> DEFINE f == [i \in DOMAIN paths |-> Declared(paths[i])[k]]
    <3>1. f \in Surjection(DOMAIN paths, said)
      BY <1>5 DEF Surjection
    <3>2. IsFiniteSet(DOMAIN paths)
      BY <2>1, FS_Interval
    <3> HIDE DEF f, said
    <3>3. QED
      BY <3>1, <3>2, FS_Surjection
  <2>3. fleet[1][k] \in said
    BY <1>1, <1>5
  <2>4. Unanimous(fleet, k) <=> ~ \E y \in said : y # fleet[1][k]
    BY <1>1, <1>5 DEF Unanimous
  <2> HIDE DEF said
  <2>5. QED
    BY <2>2, <2>3, <2>4, MoreThanOne
<1> HIDE DEF speaking, said
<1>6. CASE speaking = {}
  BY <1>2, <1>3, <1>6 DEF Breach, fleet
<1>7. CASE speaking # {} /\ speaking # DOMAIN paths
  <2>1. Agreement(fleet, k) = "Partial"
    BY <1>4, <1>7 DEF Agreement
  <2>2. HappenedTo(paths, k) = "NoLongerUniversal"
    BY <1>2, <1>7
  <2>3. QED
    BY <1>3, <1>7, <2>1, <2>2 DEF Breach, fleet
<1>8. CASE speaking # {} /\ speaking = DOMAIN paths
  <2>1. HappenedTo(paths, k) = IF Cardinality(said) > 1 THEN "Diverged" ELSE "ValueChanged"
    BY <1>2, <1>8
  <2>2. Agreement(fleet, k) = IF Cardinality(said) > 1 THEN "Divergent" ELSE "Constant"
    BY <1>4, <1>5, <1>8 DEF Agreement
  <2>3. QED
    BY <1>3, <1>8, <2>1, <2>2 DEF Breach, fleet
<1>9. QED
  BY <1>6, <1>7, <1>8

-----------------------------------------------------------------------------
(***************************************************************************)
(* The pin file.                                                           *)
(***************************************************************************)

(* What EmitPin writes is made of entries.                                 *)
LEMMA FileIsPin ==
  ASSUME NEW S, S \subseteq Entries, NEW n \in Nat, NEW file \in [1 .. n -> S]
  PROVE  file \in Seq(Entries)
<1>1. file \in [1 .. n -> Entries]
  OBVIOUS
<1>2. QED
  BY <1>1, SeqDef

(* A review leaves a file of entries.                                      *)
LEMMA ReviewedPin ==
  ASSUME pin \in Seq(Entries), Review
  PROVE  pin' \in Seq(Entries)
<1>1. PICK i \in DOMAIN pin :
        \/ pin' = [j \in 1 .. Len(pin) - 1 |-> IF j < i THEN pin[j] ELSE pin[j + 1]]
        \/ /\ pin[i] # Malformed
           /\ LET other == [pin[i] EXCEPT !.value = "other"]
              IN  pin' = Append(pin, other) \/ pin' = <<other>> \o pin
        \/ pin' = [pin EXCEPT ![i] = Malformed]
  BY DEF Review
<1>2. /\ Len(pin) \in Nat /\ DOMAIN pin = 1 .. Len(pin)
      /\ \A j \in 1 .. Len(pin) : pin[j] \in Entries
  BY LenProperties, ElementOfSeq
<1>3. CASE pin' = [j \in 1 .. Len(pin) - 1 |-> IF j < i THEN pin[j] ELSE pin[j + 1]]
  <2>1. Len(pin) - 1 \in Nat
    BY <1>1, <1>2
  <2>2. pin' \in [1 .. Len(pin) - 1 -> Entries]
    BY <1>2, <1>3
  <2>3. QED
    BY <2>1, <2>2, FileIsPin
<1>4. CASE /\ pin[i] # Malformed
           /\ LET other == [pin[i] EXCEPT !.value = "other"]
              IN  pin' = Append(pin, other) \/ pin' = <<other>> \o pin
  <2> DEFINE other == [pin[i] EXCEPT !.value = "other"]
  <2>1. pin[i] \in [key : PinKeys, value : PinValues]
    BY <1>1, <1>2, <1>4 DEF Entries
  <2>2. other \in Entries
    BY <2>1 DEF Entries, PinValues
  <2> HIDE DEF other
  <2>3. Append(pin, other) \in Seq(Entries)
    BY <2>2, AppendProperties
  <2>4. <<other>> \in Seq(Entries)
    BY <2>2
  <2>5. <<other>> \o pin \in Seq(Entries)
    BY <2>4, ConcatProperties
  <2>6. QED
    BY <1>4, <2>3, <2>5 DEF other
<1>5. CASE pin' = [pin EXCEPT ![i] = Malformed]
  <2>1. Malformed \in Entries
    BY DEF Entries
  <2>2. QED
    BY <1>1, <1>2, <1>5, <2>1, ExceptSeq
<1>6. QED
  BY <1>1, <1>3, <1>4, <1>5

(* A pin that is not refused asserts something, and none of it is damaged. *)
LEMMA PinAsserts ==
  ASSUME pin # NoPin => pin \in Seq(Entries), PinRefusal = "none"
  PROVE  /\ pin \in Seq(Entries) /\ DOMAIN pin # {}
         /\ \A i \in DOMAIN pin : pin[i] # Malformed
<1>1. pin \in Seq(Entries) /\ pin # <<>> /\ \A i \in DOMAIN pin : pin[i] # Malformed
  BY DEF PinRefusal
<1>2. 1 \in DOMAIN pin
  BY <1>1, EmptySeq, LenProperties
<1>3. QED
  BY <1>1, <1>2

(* What is pinned of a setting is said by the last of its entries.         *)
LEMMA LastEntryCounts ==
  ASSUME pin \in Seq(Entries), NEW k \in PinnedKeys(pin)
  PROVE  \E i \in DOMAIN pin : /\ pin[i].key = k /\ Pinned(pin)[k] = pin[i].value
                              /\ \A j \in DOMAIN pin : pin[j].key = k => j <= i
<1> DEFINE S == {i \in DOMAIN pin : pin[i].key = k}
           last == CHOOSE i \in DOMAIN pin : /\ pin[i].key = k
                                             /\ \A j \in DOMAIN pin : pin[j].key = k => j <= i
<1>1. Len(pin) \in Nat /\ DOMAIN pin = 1 .. Len(pin)
  BY LenProperties
<1>2. S \in SUBSET (1 .. Len(pin)) /\ S # {}
  BY <1>1 DEF PinnedKeys
<1>3. \E x \in S : \A y \in S : y <= x
  <2> HIDE DEF S
  <2> QED
    BY <1>1, <1>2, Largest
<1>4. /\ last \in DOMAIN pin /\ pin[last].key = k
      /\ \A j \in DOMAIN pin : pin[j].key = k => j <= last
  BY <1>3
<1>5. Pinned(pin)[k] = pin[last].value
  BY DEF Pinned
<1> HIDE DEF last
<1>6. QED
  BY <1>4, <1>5

(* An entry counts, unless it is overruled.                                *)
LEMMA CountsUnlessOverruled ==
  ASSUME pin \in Seq(Entries), NEW i \in DOMAIN pin, ~Overruled(i)
  PROVE  /\ pin[i].key \in DOMAIN Pinned(pin)
         /\ Pinned(pin)[pin[i].key] = pin[i].value
<1>1. Len(pin) \in Nat /\ DOMAIN pin = 1 .. Len(pin)
  BY LenProperties
<1>2. pin[i].key \in PinnedKeys(pin)
  BY DEF PinnedKeys
<1>3. PICK l \in DOMAIN pin : /\ pin[l].key = pin[i].key
                              /\ Pinned(pin)[pin[i].key] = pin[l].value
                              /\ \A j \in DOMAIN pin : pin[j].key = pin[i].key => j <= l
  BY <1>2, LastEntryCounts
<1>4. i <= l /\ ~(i < l)
  BY <1>3 DEF Overruled
<1>5. i = l
  BY <1>1, <1>4
<1>6. QED
  BY <1>2, <1>3, <1>5 DEF Pinned

(* A comparison is not refused for what a pin is refused for.              *)
LEMMA RefusalIsNotThePins ==
  ASSUME NEW paths
  PROVE  Refusal(paths) # "malformed"
<1>1. \A m : RenderError(m) # "malformed"
  BY DEF RenderError
<1>2. \A f : FleetError(f) # "malformed"
  BY DEF FleetError
<1>3. QED
  BY <1>1, <1>2 DEF Refusal

-----------------------------------------------------------------------------
(***************************************************************************)
(* The steps.                                                              *)
(***************************************************************************)

LEMMA Initially == Init => IInv
<1> SUFFICES ASSUME Init PROVE IInv
  OBVIOUS
<1>1. PinInv
  BY RendersAssumption, EditsAssumption DEF Init, PinInv, Nothing
<1>2. QED
  BY <1>1 DEF Init, IInv, SourceInv, Nothing, GateIsSound, BreachesAreExact,
              PinsAreUniversal, NoBreachIsInvented

(* Of the other kinds of result nothing is claimed.                        *)
LEMMA NothingClaimed ==
  ASSUME PinInv', SourceInv', result'.kind \in {"none", "refused", "report"},
         source' # NoRouters => result' # [kind |-> "refused", why |-> "malformed"]
  PROVE  IInv'
BY DEF IInv, GateIsSound, BreachesAreExact, PinsAreUniversal, NoBreachIsInvented

LEMMA RerenderKeeps ==
  ASSUME IInv, Rerender
  PROVE  IInv'
<1>1. render' \in [Routers -> Renders] /\ edits' \in 0 .. MaxEdits
  BY EditsAssumption DEF IInv, PinInv, Rerender
<1>2. PinInv' /\ SourceInv' /\ result'.kind = "none" /\ source' = NoRouters
  BY <1>1 DEF IInv, PinInv, SourceInv, Rerender, Nothing
<1>3. QED
  BY <1>2, NothingClaimed

LEMMA ReviewKeeps ==
  ASSUME IInv, Review
  PROVE  IInv'
<1>1. pin \in Seq(Entries)
  BY DEF IInv, PinInv, Review
<1>2. pin' \in Seq(Entries)
  BY <1>1, ReviewedPin
<1>3. render' \in [Routers -> Renders] /\ edits' \in 0 .. MaxEdits
  BY EditsAssumption DEF IInv, PinInv, Review
<1>4. /\ result' = Nothing /\ render' = render
      /\ source' \in {source, NoRouters}
  BY DEF Review
<1>5. PinInv'
  BY <1>2, <1>3, <1>4 DEF IInv, PinInv, Nothing
<1>6. SourceInv'
  <2> SUFFICES ASSUME source' # NoRouters
               PROVE  \A j \in DOMAIN pin' : /\ pin'[j] # Malformed
                                             /\ AllSay(source, pin'[j].key, pin'[j].value)
    BY <1>2, <1>4 DEF SourceInv, AllSay, Says, Declared
  <2>1. PICK i \in DOMAIN pin :
          pin' = [j \in 1 .. Len(pin) - 1 |-> IF j < i THEN pin[j] ELSE pin[j + 1]]
    BY DEF Review
  <2>2. Len(pin) \in Nat /\ DOMAIN pin = 1 .. Len(pin)
    BY <1>1, LenProperties
  <2>3. \A j \in DOMAIN pin' : \E l \in DOMAIN pin : pin'[j] = pin[l]
    BY <2>1, <2>2
  <2>4. \A l \in DOMAIN pin : /\ pin[l] # Malformed
                              /\ AllSay(source, pin[l].key, pin[l].value)
    BY <1>4 DEF IInv, SourceInv
  <2>5. QED
    BY <2>3, <2>4
<1>7. QED
  BY <1>4, <1>5, <1>6, NothingClaimed DEF Nothing

(* Of a pin it writes: every router says what it says.                     *)
LEMMA EmitPinKeeps ==
  ASSUME IInv, NEW paths \in Paths, EmitPin(paths)
  PROVE  IInv'
<1> DEFINE T == PinFile(Compared(paths))
<1>1. render \in [Routers -> Renders] /\ Refusal(paths) = "none"
  BY DEF IInv, PinInv, EmitPin
<1>2. /\ Cardinality(T) \in Nat /\ T \subseteq Entries
      /\ \A e \in T : e # Malformed /\ AllSay(paths, e.key, e.value)
  BY <1>1, PinFileIs
<1>3. PICK file \in [1 .. Cardinality(T) -> T] : pin' = file
  BY DEF EmitPin
<1>4. /\ result' = [kind |-> "pinned", paths |-> paths]
      /\ render' = render /\ edits' = edits /\ source' = paths
  BY DEF EmitPin
<1> HIDE DEF T
<1>5. pin' \in Seq(Entries)
  BY <1>2, <1>3, FileIsPin
<1>6. \A e \in DOMAIN pin' : /\ pin'[e] # Malformed
                              /\ AllSay(paths, pin'[e].key, pin'[e].value)
  BY <1>2, <1>3
<1>7. PinsAreUniversal'
  BY <1>4, <1>6 DEF PinsAreUniversal, AllSay, Says, Declared
<1>8. PinInv'
  BY <1>4, <1>5 DEF IInv, PinInv
<1>9. SourceInv'
  BY <1>4, <1>5, <1>6 DEF SourceInv, AllSay, Says, Declared
<1>10. QED
  BY <1>4, <1>7, <1>8, <1>9 DEF IInv, GateIsSound, BreachesAreExact, NoBreachIsInvented

(* Of a gate: what it says is so.                                          *)
LEMMA GateKeeps ==
  ASSUME IInv, NEW paths \in Paths, Gate(paths)
  PROVE  IInv'
<1> DEFINE fleet    == Compared(paths)
           pinned   == Pinned(pin)
           breached == Breaches(fleet, pinned)
<1>1. /\ Refusal(paths) = "none" /\ PinRefusal = "none"
      /\ render' = render /\ pin' = pin /\ edits' = edits /\ source' = source
      /\ result' = IF breached = {} THEN [kind |-> "holds", paths |-> paths]
                   ELSE [kind |-> "breached", paths |-> paths,
                         kinds |-> [k \in breached |-> Breach(fleet, pinned, k)]]
  BY DEF Gate
<1>2. /\ pin \in Seq(Entries) /\ DOMAIN pin # {}
      /\ \A i \in DOMAIN pin : pin[i] # Malformed
  BY <1>1, PinAsserts DEF IInv, PinInv
<1>3. \A k \in DOMAIN pinned : k \in breached <=> ~ AllSay(paths, k, pinned[k])
  BY <1>1, NoBreach DEF Breaches
<1>4. \A k \in breached : Breach(fleet, pinned, k) = HappenedTo(paths, k)
  BY <1>1, BreachIsExact DEF Breaches
<1>5. PinInv' /\ SourceInv'
  BY <1>1 DEF IInv, PinInv, SourceInv, AllSay, Says, Declared
<1> HIDE DEF fleet, pinned, breached
<1>6. pinned = Pinned(pin)'
  BY <1>1 DEF pinned
<1>7. \A k : AllSay(paths, k, pinned[k])' <=> AllSay(paths, k, pinned[k])
  BY <1>1, <1>6 DEF AllSay, Says, Declared, pinned
<1>8. \A k : HappenedTo(paths, k)' = HappenedTo(paths, k)
  BY <1>1 DEF HappenedTo, Declared
<1>9. CASE breached = {}
  <2>1. result' = [kind |-> "holds", paths |-> paths]
    BY <1>1, <1>9
  <2>2. \A k \in DOMAIN pinned : AllSay(paths, k, pinned[k])
    BY <1>3, <1>9
  <2>3. \A i \in DOMAIN pin :
          AllSay(paths, pin[i].key, pin[i].value) \/ Overruled(i)
    BY <1>2, <2>2, CountsUnlessOverruled DEF pinned
  <2>4. GateIsSound'
    BY <1>1, <1>2, <2>1, <2>3 DEF GateIsSound, Overruled, AllSay, Says, Declared
  <2>5. QED
    BY <1>5, <2>1, <2>4 DEF IInv, BreachesAreExact, PinsAreUniversal, NoBreachIsInvented
<1>10. CASE breached # {}
  <2>1. result' = [kind |-> "breached", paths |-> paths,
                   kinds |-> [k \in breached |-> Breach(fleet, pinned, k)]]
    BY <1>1, <1>10
  <2>2. BreachesAreExact'
    <3>1. \A k \in DOMAIN pinned :
            IF AllSay(paths, k, pinned[k]) THEN k \notin DOMAIN result'.kinds
            ELSE /\ k \in DOMAIN result'.kinds
                 /\ result'.kinds[k] = HappenedTo(paths, k)
      BY <1>3, <1>4, <2>1
    <3>2. DOMAIN result'.kinds # {} /\ result'.paths = paths
      BY <1>10, <2>1
    <3>3. \A k : AllSay(paths, k, Pinned(pin)[k])' <=> AllSay(paths, k, pinned[k])
      BY <1>1 DEF AllSay, Says, Declared, pinned
    <3>4. QED
      BY <1>6, <1>8, <3>1, <3>2, <3>3 DEF BreachesAreExact
  <2>3. NoBreachIsInvented'
    <3> SUFFICES ASSUME source # NoRouters
                 PROVE  \E i \in DOMAIN paths : \A j \in DOMAIN source : paths[i] # source[j]
      BY <1>1, <2>1 DEF NoBreachIsInvented
    <3>1. PICK k \in breached : k \in DOMAIN pinned
      BY <1>10 DEF breached, Breaches
    <3>2. PICK l \in DOMAIN pin : pin[l].key = k /\ pinned[k] = pin[l].value
      BY <1>2, <3>1, LastEntryCounts DEF pinned, Pinned
    <3>3. AllSay(source, k, pinned[k])
      BY <3>2 DEF IInv, SourceInv
    <3>4. PICK i \in DOMAIN paths : ~ Says(paths[i], k, pinned[k])
      BY <1>3, <3>1 DEF AllSay
    <3>5. QED
      BY <3>3, <3>4 DEF AllSay
  <2>4. QED
    BY <1>5, <2>1, <2>2, <2>3 DEF IInv, GateIsSound, PinsAreUniversal
<1>11. QED
  BY <1>9, <1>10

(* The commands that write nothing claim nothing, and refuse no pin that   *)
(* was only shortened.                                                     *)
LEMMA OthersKeep ==
  ASSUME IInv, NEW paths \in Paths,
         Refuse(paths) \/ Compare(paths) \/ RefusePin(paths)
  PROVE  IInv'
<1>1. /\ result'.kind \in {"refused", "report"}
      /\ render' = render /\ pin' = pin /\ edits' = edits /\ source' = source
  BY DEF Refuse, Compare, RefusePin
<1>2. PinInv' /\ SourceInv'
  BY <1>1 DEF IInv, PinInv, SourceInv, AllSay, Says, Declared
<1>3. source # NoRouters => result' # [kind |-> "refused", why |-> "malformed"]
  <2> SUFFICES ASSUME source # NoRouters PROVE result' # [kind |-> "refused", why |-> "malformed"]
    OBVIOUS
  <2>1. CASE Refuse(paths)
    BY <2>1, RefusalIsNotThePins DEF Refuse
  <2>2. CASE Compare(paths)
    BY <2>2 DEF Compare
  <2>3. CASE RefusePin(paths)
    <3>1. PinRefusal # "malformed"
      BY DEF IInv, SourceInv, PinRefusal
    <3>2. QED
      BY <2>3, <3>1 DEF RefusePin
  <2>4. QED
    BY <2>1, <2>2, <2>3
<1>4. QED
  BY <1>1, <1>2, <1>3, NothingClaimed

LEMMA EveryStepKeeps == IInv /\ [Next]_vars => IInv'
<1> SUFFICES ASSUME IInv, [Next]_vars PROVE IInv'
  OBVIOUS
<1>1. CASE Rerender
  BY <1>1, RerenderKeeps
<1>2. CASE Review
  BY <1>2, ReviewKeeps
<1>3. CASE Command
  <2>1. PICK paths \in Paths :
          Refuse(paths) \/ EmitPin(paths) \/ Compare(paths) \/ RefusePin(paths) \/ Gate(paths)
    BY <1>3 DEF Command
  <2>2. QED
    BY <2>1, OthersKeep, EmitPinKeeps, GateKeeps
<1>4. CASE UNCHANGED vars
  <2>1. /\ render' = render /\ pin' = pin /\ result' = result
        /\ edits' = edits /\ source' = source
    BY <1>4 DEF vars
  <2>2. PinInv' /\ SourceInv' /\ NoBreachIsInvented'
    BY <2>1 DEF IInv, PinInv, SourceInv, NoBreachIsInvented, AllSay, Says, Declared
  <2>3. GateIsSound'
    BY <2>1 DEF IInv, GateIsSound, Overruled, AllSay, Says, Declared
  <2>4. BreachesAreExact'
    <3>1. \A k : HappenedTo(result.paths, k)' = HappenedTo(result.paths, k)
      BY <2>1 DEF HappenedTo, Declared
    <3>2. \A k : AllSay(result.paths, k, Pinned(pin)[k])' <=> AllSay(result.paths, k, Pinned(pin)[k])
      BY <2>1 DEF AllSay, Says, Declared
    <3>3. QED
      BY <2>1, <3>1, <3>2 DEF IInv, BreachesAreExact
  <2>5. PinsAreUniversal'
    BY <2>1 DEF IInv, PinsAreUniversal, AllSay, Says, Declared
  <2>6. QED
    BY <2>2, <2>3, <2>4, <2>5 DEF IInv
<1>5. QED
  BY <1>1, <1>2, <1>3, <1>4 DEF Next

-----------------------------------------------------------------------------
(***************************************************************************)
(* The theorems.                                                           *)
(***************************************************************************)

(* Every reachable state satisfies the inductive invariant.                *)
THEOREM Invariance == Spec => []IInv
<1>1. QED
  BY Initially, EveryStepKeeps, PTL DEF Spec

(* The variables keep their types; in particular a pin file is made of     *)
(* entries and damaged entries, however it is reviewed.                    *)
THEOREM TypeCorrect == Spec => []TypeOK
<1>1. IInv => TypeOK
  <2> SUFFICES ASSUME IInv PROVE TypeOK
    OBVIOUS
  <2>1. ASSUME pin # NoPin, NEW i \in DOMAIN pin
        PROVE  pin[i] = Malformed \/ DOMAIN pin[i] = {"key", "value"}
    <3>1. pin \in Seq(Entries)
      BY <2>1 DEF IInv, PinInv
    <3>2. pin[i] \in Entries
      BY <2>1, <3>1, LenProperties, ElementOfSeq
    <3>3. QED
      BY <3>2 DEF Entries
  <2>2. QED
    BY <2>1 DEF IInv, PinInv, TypeOK
<1>2. QED
  BY <1>1, Invariance, PTL

(* When the gate of run_fleet holds, the pin asserts something, and every  *)
(* entry of the file is what every router compared is rendered to say,     *)
(* but for those that a later entry for the same setting overrules.        *)
THEOREM GateSound == Spec => []GateIsSound
<1>1. IInv => GateIsSound
  BY DEF IInv
<1>2. QED
  BY <1>1, Invariance, PTL

(* When it does not, it names every pinned setting the fleet no longer     *)
(* says alike, no other, and for each what happened to it (breaches).      *)
THEOREM BreachesReported == Spec => []BreachesAreExact
<1>1. IInv => BreachesAreExact
  BY DEF IInv
<1>2. QED
  BY <1>1, Invariance, PTL

(* What --emit-pin writes, every router compared is rendered to say.       *)
THEOREM PinsUniversal == Spec => []PinsAreUniversal
<1>1. IInv => PinsAreUniversal
  BY DEF IInv
<1>2. QED
  BY <1>1, Invariance, PTL

(* A pin as --emit-pin wrote it, or with entries taken out, is never       *)
(* refused as malformed, and is breached only by a router it was not taken *)
(* from, as long as no router is rendered again (pin_file, breaches).      *)
THEOREM NothingInvented == Spec => []NoBreachIsInvented
<1>1. IInv => NoBreachIsInvented
  BY DEF IInv
<1>2. QED
  BY <1>1, Invariance, PTL

=============================================================================
