---------------------------- MODULE InventorySurvey ----------------------------
(***************************************************************************)
(* crates/uci-inventory, main.rs: one command surveys a router that others *)
(* edit meanwhile.  It lists the packages, gets them one by one (each get  *)
(* answers the package as it then is, staged changes included), and only   *)
(* then judges what it has read.  `ready' asks one thing more.             *)
(*                                                                         *)
(* The adapter (adapter.rs) either answers or the command ends: an answer  *)
(* with another status, cut short, or without the field it must have is an *)
(* error.                                                                  *)
(***************************************************************************)
EXTENDS Inventory, Integers

CONSTANTS
  Order,       \* every package there could be, as uci.configs lists them
  Initial,     \* per package first installed, its sections in file order
  Newcomers,   \* [package, section]: sections an editor may add
  Assignments, \* [id, option, value]: options an editor may set
  Longest,     \* bounds the sections of a file
  Limit,       \* bounds the edits, commits and faults
  Material     \* the values that are secrets on this router

PackageNames == ToSet(Order)

(* The sections a package may have, whoever puts them there, and the       *)
(* settings, <<option, value>>, they may have.                             *)
Known(p) ==
  (IF p \in DOMAIN Initial THEN ToSet(Initial[p]) ELSE {})
    \cup {n.section : n \in {m \in Newcomers : m.package = p}}

AtFirst(p)  == UNION {{<<o, k.options[o]>> : o \in DOMAIN k.options} : k \in Known(p)}
Settable(p) == {a \in Assignments : \E k \in Known(p) : k.id = a.id}
Settings(p) == AtFirst(p) \cup {<<a.option, a.value>> : a \in Settable(p)}

(* ... and the items, <<list, value>>, of their lists. *)
Items(p) ==
  UNION {UNION {{<<o, v>> : v \in ToSet(k.lists[o])} : o \in DOMAIN k.lists} : k \in Known(p)}

Values == {setting[2] : setting \in UNION {Settings(p) : p \in PackageNames}}

Fields == {"id", "label", "type", "options", "lists"}

ASSUME RouterAssumption ==
  /\ Longest \in Nat
  /\ DOMAIN Initial \subseteq PackageNames
  /\ \A n \in Newcomers : n.package \in PackageNames
  /\ \A p \in DOMAIN Initial :
       /\ Initial[p] \in Seq(Known(p)) /\ Len(Initial[p]) <= Longest
       /\ \A i, j \in DOMAIN Initial[p] : Initial[p][i].id = Initial[p][j].id => i = j
  /\ \A p \in PackageNames : \A k, l \in Known(p) :
       /\ DOMAIN k = Fields
       /\ k.label = l.label /\ k.label # "" => k.id = l.id
  /\ IsFiniteSet(Values)

(* What the values called so must not be mistaken for.                     *)
ASSUME Sentinels ==
  /\ Undecodable \notin BOOLEAN
  /\ Unset \notin Values /\ Unset \notin {0, 1} /\ Unset # "1"

(* uci names an anonymous section by its position in the file, and nobody  *)
(* else uses such a name: a name tells what is anonymous, and one section  *)
(* of the package.                                                         *)
Generated(i) == "cfg0" \o ToString(i)

ASSUME GeneratedNames ==
  /\ \A i \in 1 .. Longest : IsUciInternalName(Generated(i))
  /\ \A i, j \in 1 .. Longest : Generated(i) = Generated(j) => i = j
  /\ \A p \in PackageNames : \A k \in Known(p), i \in 1 .. Longest : k.label # Generated(i)

(* The joined words of two sections that have names differ.                *)
ASSUME AddressesDiffer ==
  \A p, q \in PackageNames \cap Managed : \A k \in Known(p), l \in Known(q) :
    k.label # "" /\ l.label # "" /\ p \o "_" \o k.label = q \o "_" \o l.label
      => p = q /\ k.label = l.label

(* A secret stands where the classification looks for it: in an option or  *)
(* a list that is called like one, or, in a package that may hold secrets, *)
(* in any that does not say how a section is wired.                        *)
ASSUME SecretsAreWhereClassified ==
  /\ "" \notin Material
  /\ \A p \in PackageNames : \A setting \in Settings(p) \cup Items(p) :
       setting[2] \in Material =>
         \/ OptionIsSecret(setting[1])
         \/ ScrubbedWhole(p) /\ setting[1] \notin Structural

(* The numbered placeholders are no secrets, and differ.                   *)
ASSUME PlaceholdersDiffer ==
  \A k, l \in 1 .. Cardinality(Values) :
    /\ Numbered(k) \notin Material \cup {""}
    /\ Numbered(k) = Numbered(l) => k = l

(* The options the checks of readiness look at are no secrets.             *)
ASSUME ReadinessOptionsAreOpen ==
  \A o \in {"network", "enabled", "hostname", "owner"} : ~OptionIsSecret(o)

VARIABLES
  conf,     \* the router: per installed package, its sections in file order
  pending,  \* packages with staged changes
  decodes,  \* does the adapter decode INT8, as which `.anonymous' arrives?
  pc,       \* "list", "get", "ask", "done"
  names,    \* the packages still to get
  answers,  \* the answers so far, [name, body]
  output,   \* what the command concluded
  emitted,  \* history: every import emitted as stable
  spent

device == <<conf, pending, decodes>>
vars == <<conf, pending, decodes, pc, names, answers, output, emitted, spent>>

NoOutput == [kind |-> "none"]

Ids(p) == {conf[p][i].id : i \in DOMAIN conf[p]}

Name(s, i) == IF s.label = "" THEN Generated(i) ELSE s.label

RawSection(s, i, decoded) ==
  [id |-> s.id, name |-> Name(s, i), type |-> s.type, index |-> i - 1,
   anonymous |-> IF decoded THEN s.label = "" ELSE Undecodable,
   options |-> s.options, lists |-> s.lists]

BodyOf(file, decoded) == {RawSection(file[i], i, decoded) : i \in DOMAIN file}

Body(p) == BodyOf(conf[p], decodes)

Init ==
  /\ conf = Initial /\ pending = {} /\ decodes \in BOOLEAN
  /\ pc = "list"
  /\ names = {} /\ answers = <<>> /\ output = NoOutput /\ emitted = {}
  /\ spent = [m \in DOMAIN Limit |-> 0]

Spend(m) == spent[m] < Limit[m] /\ spent' = [spent EXCEPT ![m] = @ + 1]

(***************************************************************************)
(* The router's other editors.                                             *)
(***************************************************************************)
Put(f, x, v) == [y \in DOMAIN f \cup {x} |-> IF y = x THEN v ELSE f[y]]

(* Mutant: the staged change is not part of what the router answers.       *)
EditedUnseen(p, file) ==
  /\ Spend("edit") /\ pending' = pending \cup {p}
  /\ UNCHANGED <<conf, decodes, pc, names, answers, output, emitted>>

Edited(p, file) ==
  /\ Spend("edit")
  /\ conf' = Put(conf, p, file)
  /\ pending' = pending \cup {p}
  /\ UNCHANGED <<decodes, pc, names, answers, output, emitted>>

Insert ==
  \E n \in Newcomers :
    LET file == IF n.package \in DOMAIN conf THEN conf[n.package] ELSE <<>>
    IN  /\ Len(file) < Longest
        /\ \A i \in DOMAIN file : file[i].id # n.section.id
        /\ \E k \in 1 .. Len(file) + 1 : Edited(n.package, InsertAt(file, k, n.section))

Delete ==
  \E p \in DOMAIN conf : \E i \in DOMAIN conf[p] : Edited(p, RemoveAt(conf[p], i))

Assign ==
  \E p \in DOMAIN conf, a \in Assignments : \E i \in DOMAIN conf[p] :
    /\ conf[p][i].id = a.id
    /\ Edited(p, [conf[p] EXCEPT ![i].options = Put(@, a.option, a.value)])

Commit ==
  \E p \in pending :
    /\ Spend("commit")
    /\ pending' = pending \ {p}
    /\ UNCHANGED <<conf, decodes, pc, names, answers, output, emitted>>

(***************************************************************************)
(* The tool.                                                               *)
(***************************************************************************)
(* Adapter::packages *)
List ==
  /\ pc = "list"
  /\ names' = DOMAIN conf
  /\ pc' = "get"
  /\ UNCHANGED <<device, answers, output, emitted, spent>>

Rank(p) == CHOOSE k \in DOMAIN Order : Order[k] = p

IsNext(p) == p \in names /\ \A q \in names : Rank(p) <= Rank(q)

(* Adapter::package: an answer may also be an object without `values'.     *)
Get(p) ==
  /\ pc = "get" /\ IsNext(p)
  /\ \/ answers' = Append(answers, [name |-> p, body |-> Body(p)])
        /\ UNCHANGED spent
     \/ answers' = Append(answers, [name |-> p])
        /\ Spend("fault")
  /\ names' = names \ {p}
  /\ UNCHANGED <<device, pc, output, emitted>>

(* Connect, Io, Status or Body: the command ends with what it has.         *)
AdapterFails ==
  /\ pc \in {"list", "get"} /\ Spend("fault")
  /\ pc' = "done" /\ names' = {} /\ output' = [kind |-> "failed"]
  /\ UNCHANGED <<device, answers, emitted>>

(* What a command prints of the inventory; `ready' asks once more first.   *)
Scopes == {"stable", "positional"}

Outputs(inv, scope) ==
  {[kind |-> "report", of |-> Report(inv)],
   [kind |-> "values", of |-> HelmValues(inv, scope)],
   [kind |-> "values", of |-> HelmValuesYaml(inv, scope)],
   [kind |-> "imports", of |-> Imports(inv, scope)],
   [kind |-> "fixture", of |-> Fixture(answers)]}

(* The command and its scope are arguments of the run.  Nothing before     *)
(* this step depends on them, so they are chosen here.                     *)
Conclude ==
  /\ pc = "get" /\ names = {}
  /\ LET s == Survey(answers) IN
     \/ /\ s.refused # "none"
        /\ output' = [kind |-> "refused", why |-> s.refused, packages |-> s.packages]
        /\ pc' = "done" /\ UNCHANGED emitted
     \/ /\ s.refused = "none"
        /\ pc' = "ask" /\ UNCHANGED <<output, emitted>>
     \/ /\ s.refused = "none"
        /\ \E scope \in Scopes : \E o \in Outputs(s.packages, scope) :
             /\ output' = o
             /\ emitted' = IF o.kind = "imports" /\ scope = "stable" THEN emitted \cup o.of
                           ELSE emitted
        /\ pc' = "done"
  /\ UNCHANGED <<device, names, answers, spent>>

(* run_ready: how many changes of `system' are uncommitted, or no answer.  *)
Judge ==
  /\ pc = "ask"
  /\ \/ LET changes == IF "system" \in pending THEN 1 ELSE 0
        IN  output' = [kind |-> "verdict", asked |-> TRUE, staged |-> pending,
                       fit |-> Ready(Survey(answers).packages, changes)]
        /\ UNCHANGED spent
     \/ output' = [kind |-> "verdict", asked |-> FALSE, staged |-> pending,
                   fit |-> Ready(Survey(answers).packages, Unset)]
        /\ Spend("fault")
  /\ pc' = "done"
  /\ UNCHANGED <<device, names, answers, emitted>>

Tool == List \/ (\E p \in names : Get(p)) \/ AdapterFails \/ Conclude \/ Judge

(* The editors go on when the tool is done. *)
Next == Insert \/ Delete \/ Assign \/ Commit \/ Tool

Spec == Init /\ [][Next]_vars

------------------------------------------------------------------------------
TypeOK ==
  /\ DOMAIN conf \subseteq PackageNames /\ pending \subseteq DOMAIN conf
  /\ pc \in {"list", "get", "ask", "done"}
  /\ \A i \in DOMAIN answers : answers[i].name \in PackageNames
  /\ output.kind \in {"none", "failed", "refused", "report", "values", "imports", "fixture",
                      "verdict"}

(***************************************************************************)
(* Properties.  They look at the answers and at the router, and work out   *)
(* for themselves what they should have led to.                            *)
(***************************************************************************)
ConcludedWell == output.kind \in {"report", "values", "imports", "fixture", "verdict"}

(* Every section that was read, with its package. *)
Read == UNION {{<<answers[i].name, raw>> : raw \in answers[i].body}
                 : i \in {j \in DOMAIN answers : HasValues(answers[j])}}

(* A package nobody classified is refused, with all the others of the kind *)
(* (inventory.rs, survey; disposition.rs: "a refusal, not a default"), and *)
(* every section of the router is declared, or counted with its package.   *)
Classified == Managed \cup SecretBearing \cup DeviceOwned

EverythingAccountedFor ==
  /\ ConcludedWell => \A a \in Read : a[1] \in Classified
  /\ output.kind = "refused" /\ output.why = "unclassified" =>
       output.packages = {answers[i].name : i \in DOMAIN answers} \ Classified
  /\ output.kind = "report" =>
       LET r == output.of
       IN  /\ r.managed = Cardinality({a \in Read : a[1] \in Managed})
           /\ \A d \in r.declined :
                d.sections = Cardinality({a \in Read : a[1] = d.package})
           /\ r.packages = Cardinality({a[1] : a \in {b \in Read : b[1] \in Managed}}
                                        \cup {d.package : d \in r.declined})
                            + Cardinality({i \in DOMAIN answers : answers[i].body = {}
                                             /\ answers[i].name \in Managed})

(* No secret leaves the router in what is declared, be it a value or an    *)
(* item of a list, and none in the scalar options of a fixture, in whatever*)
(* field a vendor put it.  In the lists of a fixture every secret leaves   *)
(* that the router has in a list: scrub replaces the string that is the    *)
(* value of a field and copies the items of an array.  The contract says   *)
(* otherwise: "every value in a secret-bearing package is replaced unless  *)
(* its field is named in STRUCTURAL" (capture.rs:19-20).                   *)
ItemsOf(lists) == UNION {ToSet(lists[o]) : o \in DOMAIN lists}

ValuesIn(sections) ==
  UNION {{s.values[o] : o \in DOMAIN s.values} \cup ItemsOf(s.lists) : s \in sections}

Scalars(bodies) ==
  UNION {UNION {{raw.options[o] : o \in DOMAIN raw.options} : raw \in bodies[i].body}
           : i \in DOMAIN bodies}

ListItems(bodies) ==
  UNION {UNION {ItemsOf(raw.lists) : raw \in bodies[i].body} : i \in DOMAIN bodies}

MaterialLeavesInListsOnly ==
  /\ output.kind = "values"  => ValuesIn(output.of) \cap Material = {}
  /\ output.kind = "fixture" =>
       /\ Scalars(output.of) \cap Material = {}
       /\ ListItems(output.of) \cap Material = ListItems(answers) \cap Material

(* The section uci finds at an address, among sections with an .index.     *)
At(body, address) ==
  IF Len(address) = 1 THEN {raw \in body : raw.name = address[1]}
  ELSE {raw \in body :
          /\ raw.type = address[1]
          /\ Cardinality({q \in body : q.type = raw.type /\ q.index < raw.index}) = address[2]}

(* An import names the section it is about: uci resolves its id to that    *)
(* section and no other, as the package stood when it was read; and of the *)
(* stable ones no two share a terraform address.                           *)
ImportsResolve ==
  output.kind = "imports" =>
    /\ \A e \in output.of : \A i \in DOMAIN answers :
         answers[i].name = e.package =>
           {raw.id : raw \in At(answers[i].body, e.section)} = {e.id}
    /\ \A e, f \in output.of :
         e.to = f.to /\ Len(e.section) = 1 /\ Len(f.section) = 1 => e = f

(* What was committed as stable stays right: whatever is inserted, deleted *)
(* or moved later, a stable address denotes the same section or none.      *)
(* (emit.rs, Scope: a positional address "keeps resolving - to a different *)
(* section".)                                                              *)
StableAddressesStayPut ==
  \A e \in emitted :
    e.package \in DOMAIN conf =>
      {raw.id : raw \in At(Body(e.package), e.section)} \subseteq {e.id}

(* The verdict on a router is the one the sections that were read deserve: *)
(* in particular, the bands of one network hold the same secret, and a     *)
(* guest network's own one is no offence.                                  *)
Bands(package, option) ==
  {raw \in {a[2] : a \in {b \in Read : b[1] = package}} :
     /\ {option, "network"} \subseteq DOMAIN raw.options
     /\ raw.options[option] # ""}

Divided(package, option) ==
  \E r, q \in Bands(package, option) :
    /\ r.options["network"] = q.options["network"]
    /\ r.options[option] # q.options[option]

(* What the section of that name says in an option. *)
Said(package, name, option) ==
  {a[2].options[option] :
     a \in {b \in Read : /\ b[1] = package /\ b[2].name = name /\ ~IsAnonymous(b[2])
                         /\ option \in DOMAIN b[2].options}}

FitMeansFit ==
  output.kind = "verdict" =>
    (output.fit <=>
       /\ "1" \in Said("system", "ntp", "enabled")
       /\ Said("system", "system_0", "hostname") \ {"GL-MT6000"} # {}
       /\ "1" \in Said("tailscale", "settings", "enabled")
       /\ Said("roteador", "fleet", "owner") # {}
       /\ \A a \in Read : a[1] \in Managed => ~IsAnonymous(a[2])
       /\ \A a \in Read : \A o \in SecretNames(a[2]) : ~Divided(a[1], o)
       /\ output.asked => "system" \notin output.staged)

(* A fixture is the router to everything that reads it: it is surveyed to  *)
(* the same addresses, agreements and verdict (capture.rs: "a fixture and  *)
(* a live run are fed identically").                                       *)
FixtureStandsForRouter ==
  output.kind = "fixture" =>
    LET live    == Survey(answers)
        fixture == Survey(output.of)
    IN  /\ fixture.refused = "none"
        /\ \A i \in DOMAIN answers :
             fixture.packages[i].agreements = live.packages[i].agreements
        /\ \A scope \in Scopes :
             Imports(fixture.packages, scope) = Imports(live.packages, scope)
        /\ Failing(fixture.packages, 0) = Failing(live.packages, 0)

=============================================================================
