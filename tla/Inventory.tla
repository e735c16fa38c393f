------------------------------- MODULE Inventory -------------------------------
(***************************************************************************)
(* crates/uci-inventory, the pure part: from the answers of the adapter,   *)
(* one per package, to the inventory (inventory.rs), to what is emitted of *)
(* it (emit.rs), to the verdict on the router (readiness.rs) and to the    *)
(* scrubbed fixture (capture.rs).                                          *)
(*                                                                         *)
(* An answer is [name, body] or, when it lacks `values', [name].  A body is *)
(* the set of the sections the answer holds, a section                     *)
(*   [id, name, type, anonymous, index, options, lists]                    *)
(* where `anonymous' is TRUE, FALSE or Undecodable, options maps the name  *)
(* of a scalar option to a string and lists that of a list to a sequence.  *)
(* `id' is the section itself, whatever it is called: no operator here     *)
(* looks at it, the properties do.                                         *)
(***************************************************************************)
EXTENDS Dispositions, FiniteSets, SequencesExt, TLC

CONSTANTS Undecodable, Unset

Structural ==
  {"network", "device", "mode", "ifname", "disabled", "enabled", "encryption", "ssid",
   "band", "htmode", "channel", "country", "hidden", "isolate", "wds", "port"}

HexDigits == {"0", "1", "2", "3", "4", "5", "6", "7", "8", "9", "a", "b", "c", "d", "e", "f"}

(* `cfg' and hex digits: what uci calls a section that has no name.        *)
IsUciInternalName(name) ==
  /\ Len(name) > 3 /\ SubSeq(name, 1, 3) = "cfg"
  /\ \A i \in 4 .. Len(name) : SubSeq(name, i, i) \in HexDigits

IsAnonymous(raw) ==
  IF raw.anonymous = Undecodable THEN IsUciInternalName(raw.name) ELSE raw.anonymous

(* The sections of a body in the order of their .index.                    *)
ByIndex(body) ==
  [i \in 1 .. Cardinality(body) |->
     CHOOSE raw \in body : Cardinality({q \in body : q.index < raw.index}) = i - 1]

(* The sections before the i-th that have its type.                        *)
(* Mutant: those before the i-th.                                          *)
IndexInPackage(file, i) == i - 1

TypeIndex(file, i) == Cardinality({j \in 1 .. i - 1 : file[j].type = file[i].type})

OptionNames(raw) == DOMAIN raw.options \cup DOMAIN raw.lists
SecretNames(raw) == {o \in OptionNames(raw) : OptionIsSecret(o)}

(* A section as the inventory keeps it: its package, its address, and      *)
(* every option but the secret ones.                                       *)
ParseSection(package, file, i) ==
  LET raw == file[i]
  IN  [package   |-> package,
       id        |-> raw.id,
       name      |-> raw.name,
       type      |-> raw.type,
       anonymous |-> IsAnonymous(raw),
       typeIndex |-> TypeIndex(file, i),
       options   |-> Restrict(raw.options, DOMAIN raw.options \ SecretNames(raw)),
       lists     |-> Restrict(raw.lists, DOMAIN raw.lists \ SecretNames(raw)),
       secrets   |-> SecretNames(raw)]

(* The sections that carry secret option o for network n: an empty value,  *)
(* or a network that is no scalar, takes no part.                          *)
Carriers(file, o, n) ==
  {i \in DOMAIN file :
     /\ o \in DOMAIN file[i].options /\ file[i].options[o] # ""
     /\ "network" \in DOMAIN file[i].options /\ file[i].options["network"] = n}

SecretScalars(file) ==
  UNION {SecretNames(file[i]) \cap DOMAIN file[i].options : i \in DOMAIN file}
Networks(file) ==
  {file[i].options["network"] :
     i \in {j \in DOMAIN file : "network" \in DOMAIN file[j].options}}

(* Mutant: the carriers are compared across the whole package.             *)
AgreementsOfPackage(file) ==
  {[option |-> o, network |-> n,
    agree |-> \A i, j \in UNION {Carriers(file, o, m) : m \in Networks(file)} :
                file[i].options[o] = file[j].options[o]]
     : o \in SecretScalars(file), n \in Networks(file)}

(* A verdict for every secret and network that have two carriers or more.  *)
Agreements(file) ==
  {[option |-> g[1], network |-> g[2],
    agree |-> \A i, j \in Carriers(file, g[1], g[2]) :
                file[i].options[g[1]] = file[j].options[g[1]]]
     : g \in {h \in SecretScalars(file) \X Networks(file) :
                Cardinality(Carriers(file, h[1], h[2])) > 1}}

ParsePackage(name, body) ==
  LET file == ByIndex(body)
  IN  [name        |-> name,
       disposition |-> Classify(name),
       sections    |-> [i \in DOMAIN file |-> ParseSection(name, file, i)],
       agreements  |-> Agreements(file)]

(* survey: refuse what nobody classified, whole and first; then the first  *)
(* answer without values, or managed package that holds a secret.          *)
Unclassified(answers) ==
  {answers[i].name : i \in {j \in DOMAIN answers : Classify(answers[j].name) = "unclassified"}}

HoldsSecret(name, body) ==
  Classify(name) = "managed" /\ \E raw \in body : SecretNames(raw) # {}

HasValues(answer) == "body" \in DOMAIN answer

Refusal(answer) ==
  IF ~HasValues(answer) THEN "malformed"
  ELSE IF HoldsSecret(answer.name, answer.body) THEN "managed package holds a secret"
  ELSE "none"

Survey(answers) ==
  LET refused == {i \in DOMAIN answers : Refusal(answers[i]) # "none"}
  IN  IF Unclassified(answers) # {}
        THEN [refused |-> "unclassified", packages |-> Unclassified(answers)]
      ELSE IF refused # {}
        THEN LET i == CHOOSE i \in refused : \A j \in refused : i <= j
             IN  [refused |-> Refusal(answers[i]), packages |-> {answers[i].name}]
      ELSE [refused  |-> "none",
            packages |-> [i \in DOMAIN answers |->
                            ParsePackage(answers[i].name, answers[i].body)]]

(* The surveyed sections of all packages of a disposition. *)
SectionsOf(inv, disposition) ==
  UNION {ToSet(p.sections) : p \in {q \in ToSet(inv) : q.disposition = disposition}}

------------------------------------------------------------------------------
(* emit.rs.  Addresses are what they are made of: the words the code joins. *)

AsUci(s) == IF s.anonymous THEN <<s.type, s.typeIndex>> ELSE <<s.name>>

(* Mutant: the positional sections are not left out.                       *)
EverySection(ss, scope) == ss

InScope(ss, scope) ==
  {s \in ss : scope = "positional" \/ ~s.anonymous}

(* What one section declares: every option in a managed package, of a      *)
(* secret-bearing one only those known to be no secret.                    *)
Declaration(s) ==
  [config |-> s.package, section |-> AsUci(s), type |-> s.type,
   values |-> s.options, lists |-> s.lists]

(* Mutant: an option is emitted unless its name is known to be a secret.   *)
NotKnownSecret(o) == ~OptionIsSecret(o)

(* Known to be no secret: a list of what says how a section is wired. *)
IsStructural(o) == o \in Structural /\ ~OptionIsSecret(o)

StructuralPart(s) ==
  [s EXCEPT !.options = Restrict(@, {o \in DOMAIN @ : IsStructural(o)}),
            !.lists   = Restrict(@, {o \in DOMAIN @ : IsStructural(o)})]

StructuralSections(inv, scope) ==
  {s \in {StructuralPart(q) : q \in InScope(SectionsOf(inv, "secret"), scope)} :
     OptionNames(s) # {}}

HelmValues(inv, scope) ==
  {Declaration(s) : s \in InScope(SectionsOf(inv, "managed"), scope)
                          \cup StructuralSections(inv, scope)}

HelmValuesYaml(inv, scope) == {Declaration(s) : s \in InScope(SectionsOf(inv, "managed"), scope)}

(* A type may hold a `-', an address may not. *)
Underscored(type) ==
  LET Upto[n \in 0 .. Len(type)] ==
        IF n = 0 THEN ""
        ELSE Upto[n - 1] \o (IF SubSeq(type, n, n) = "-" THEN "_" ELSE SubSeq(type, n, n))
  IN  Upto[Len(type)]

(* A terraform address: package and section joined by `_', and so the      *)
(* index of a positional one.                                              *)
TerraformAddress(s) ==
  s.package \o "_" \o
    (IF s.anonymous THEN Underscored(s.type) \o "_" \o ToString(s.typeIndex) ELSE s.name)

Imports(inv, scope) ==
  {[to |-> TerraformAddress(s), package |-> s.package, section |-> AsUci(s), id |-> s.id]
     : s \in InScope(SectionsOf(inv, "managed"), scope)}

(* What the survey declares and what it declines, against all there is.    *)
Report(inv) ==
  [packages  |-> Len(inv),
   managed   |-> Cardinality(SectionsOf(inv, "managed")),
   anonymous |-> Cardinality({s \in SectionsOf(inv, "managed") : s.anonymous}),
   declined  |-> {[package |-> p.name, disposition |-> p.disposition,
                   sections |-> Len(p.sections)]
                    : p \in {q \in ToSet(inv) : q.disposition # "managed"}}]

------------------------------------------------------------------------------
(* readiness.rs *)

OptionOf(inv, package, section, option) ==
  LET found == {s \in SectionsOf(inv, Classify(package)) :
                  s.package = package /\ AsUci(s) = <<section>> /\ option \in DOMAIN s.options}
  IN  IF found = {} THEN Unset ELSE (CHOOSE s \in found : TRUE).options[option]

SecretsAgree(inv) == \A p \in ToSet(inv) : \A a \in p.agreements : a.agree

(* The verdict of each check: on `uncommitted', Unset when the query went  *)
(* unanswered.  Two more are never observable.                             *)
Failing(inv, uncommitted) ==
  {c \in {"ntp-declared"}              : OptionOf(inv, "system", "ntp", "enabled") # "1"}
    \cup {c \in {"hostname-not-factory"} :
            OptionOf(inv, "system", "system_0", "hostname") \in {"GL-MT6000", Unset}}
    \cup {c \in {"tailnet-declared"}     : OptionOf(inv, "tailscale", "settings", "enabled") # "1"}
    \cup {c \in {"no-positional-identity"} :
            \E s \in SectionsOf(inv, "managed") : s.anonymous}
    \cup {c \in {"no-uncommitted-changes"} : uncommitted \notin {Unset, 0}}
    \cup {c \in {"fleet-marker"}         : OptionOf(inv, "roteador", "fleet", "owner") = Unset}
    \cup {c \in {"secrets-agree-across-bands"} : ~SecretsAgree(inv)}

Ready(inv, uncommitted) == Failing(inv, uncommitted) = {}

------------------------------------------------------------------------------
(* capture.rs: a secret becomes the number of its equality class.          *)

ScrubbedWhole(package) == Classify(package) \notin {"managed", "device"}

Scrubbed(package, o, v) ==
  ~IsStructural(o) /\ v # "" /\ (ScrubbedWhole(package) \/ OptionIsSecret(o))

(* The values that are replaced, in the order in which they are met. *)
SecretsOf(package, raw) ==
  {raw.options[o] : o \in {p \in DOMAIN raw.options : Scrubbed(package, p, raw.options[p])}}

Secrets(answers) ==
  UNION {UNION {SecretsOf(answers[i].name, raw) : raw \in answers[i].body}
           : i \in DOMAIN answers}

(* Mutant: every secret gets the same placeholder.                         *)
OnePlaceholder(classes, v) == "SECRET"

Numbered(k) == "SECRET-" \o ToString(k)

Placeholder(classes, v) == Numbered(CHOOSE k \in DOMAIN classes : classes[k] = v)

Scrub(package, raw, classes) ==
  [raw EXCEPT !.options =
     [o \in DOMAIN @ |-> IF Scrubbed(package, o, @[o]) THEN Placeholder(classes, @[o])
                         ELSE @[o]]]

(* The lists are kept as they are, secrets and all: only a string that is  *)
(* the value of an option is replaced.                                     *)
Fixture(answers) ==
  LET classes == SetToSeq(Secrets(answers))
  IN  [i \in DOMAIN answers |->
         [answers[i] EXCEPT !.body = {Scrub(answers[i].name, raw, classes) : raw \in @}]]

=============================================================================
