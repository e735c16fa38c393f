----------------------------- MODULE SectionNames -----------------------------
(***************************************************************************)
(* crates/uci-inventory/src/rename.rs, propose: stable names for the       *)
(* anonymous sections of a package, derived from their content.            *)
(*                                                                         *)
(* A name is the sequence of its words: slug() breaks a value into words,  *)
(* and names are built by appending words.  So ends_with, which tells an   *)
(* option that says nothing new, compares words here and letters there.    *)
(***************************************************************************)
EXTENDS Naturals, Sequences, FiniteSets, SequencesExt, FiniteSetsExt

CONSTANTS
  Sections,   \* the sections of the router's packages
  PackageOf,  \* the package of each
  File,       \* per package, its sections in file order
  TypeOf,     \* the type of a section, in words
  Slugs,      \* per section, the nonempty slugs of its naming options, in the
              \* order NAMING_OPTIONS consults them
  Numeral,    \* the decimal numeral of a number, a word
  Anonymous,  \* what a section without a name is called
  Absent      \* what is said of a section that was deleted

Packages == {PackageOf[s] : s \in Sections}
Name     == Seq(STRING)

ASSUME SectionsAssumption ==
  /\ IsFiniteSet(Sections)
  /\ TypeOf \in [Sections -> Name]
  /\ Slugs \in [Sections -> Seq(Name)]
  /\ Anonymous \notin Name /\ Absent \notin Name /\ Anonymous # Absent

ASSUME FilesHoldSections ==
  \A p \in Packages :
    /\ File[p] \in Seq(Sections)
    /\ {File[p][i] : i \in DOMAIN File[p]} = {s \in Sections : PackageOf[s] = p}
    /\ \A i, j \in DOMAIN File[p] : File[p][i] = File[p][j] => i = j

(* Different numbers are written differently, as far as any is needed.     *)
ASSUME NumeralsDiffer ==
  LET Numbers == 0 .. Cardinality(Sections) + 2
  IN  /\ Numeral \in [Numbers -> STRING]
      /\ \A m, n \in Numbers : Numeral[m] = Numeral[n] => m = n

(* The place of a section in its file. *)
Place(s) ==
  CHOOSE i \in DOMAIN File[PackageOf[s]] : File[PackageOf[s]][i] = s

(* `label' is what each section is called now.  The sections there are, and *)
(* of them those before s in its file.                                      *)
Present(label) == {s \in Sections : label[s] # Absent}

Earlier(s, label) ==
  {q \in Present(label) : PackageOf[q] = PackageOf[s] /\ Place(q) < Place(s)}

(* The position of s among the sections of its type. *)
Index(s, label) == Cardinality({q \in Earlier(s, label) : TypeOf[q] = TypeOf[s]})

(* The option the name is derived from, or the position for want of one.   *)
Base(s, label) ==
  IF Slugs[s] = <<>> THEN TypeOf[s] \o <<Numeral[Index(s, label)]>>
  ELSE TypeOf[s] \o Slugs[s][1]

(* A collision is resolved by the first further option that says more and  *)
(* is free, and by a number when no option helps.                          *)
Telling(s, base, taken) ==
  {i \in DOMAIN Slugs[s] : ~IsSuffix(Slugs[s][i], base) /\ base \o Slugs[s][i] \notin taken}

Numbered(base, taken) ==
  LET free == {n \in 2 .. Cardinality(taken) + 2 : base \o <<Numeral[n]>> \notin taken}
  IN  base \o <<Numeral[Min(free)]>>

(* Mutant: a collision is not looked for. *)
BaseOnly(s, label, taken) == Base(s, label)

NameFor(s, label, taken) ==
  LET base == Base(s, label)
  IN  IF base \notin taken THEN base
      ELSE IF Telling(s, base, taken) # {}
             THEN base \o Slugs[s][Min(Telling(s, base, taken))]
             ELSE Numbered(base, taken)

(* propose: in file order, each anonymous section gets a name that neither *)
(* a named section nor an earlier proposal has.  The names that are taken  *)
(* after so many sections of the file of p.                                *)
Taken(p, label) ==
  LET named == {label[s] : s \in {q \in Present(label) : PackageOf[q] = p}} \ {Anonymous}
      taken[i \in 0 .. Len(File[p])] ==
        IF i = 0 THEN named
        ELSE IF label[File[p][i]] = Anonymous
        THEN taken[i - 1] \cup {NameFor(File[p][i], label, taken[i - 1])}
        ELSE taken[i - 1]
  IN  taken

(* The name proposed for an anonymous section. *)
Propose(s, label) ==
  NameFor(s, label, Taken(PackageOf[s], label)[Place(s) - 1])

=============================================================================
