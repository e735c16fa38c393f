--------------------------------- MODULE Fleet ---------------------------------
(***************************************************************************)
(* crates/uci-inventory, rendered.rs and fleet.rs: from the manifests the  *)
(* charts render, one per router, to what the fleet agrees on, and the     *)
(* breaches of a pin that was reviewed earlier.                            *)
(*                                                                         *)
(* A manifest is a sequence of documents [template, style, lines]: is it   *)
(* the InfrastructureTemplate, how is its `inline:' written, and the lines *)
(* that follow it.  A line is blank, deeper than its key or not, and       *)
(* carries one resource [config, section, values] of the JSON body, or     *)
(* NotJson.  A resource, or its values, may be no object, and each of its  *)
(* fields may be missing or hold no string.  The lines that only open and  *)
(* close the body are left out.                                            *)
(***************************************************************************)
EXTENDS Naturals, Sequences, FiniteSets

CONSTANTS
  NotJson,      \* a line that does not parse
  NotAString,   \* a field that is missing, or holds something else
  NotAnObject   \* a resource, or its values, that is missing or no object

Templates(manifest) == {d \in DOMAIN manifest : manifest[d].template}
Template(manifest) ==
  manifest[CHOOSE d \in Templates(manifest) : \A e \in Templates(manifest) : d <= e]

(* The block runs until a line indented no further than its key; a blank   *)
(* line belongs to it.                                                     *)
Block(lines) == {i \in DOMAIN lines : \A j \in 1 .. i : lines[j].depth # "outer"}

InlineBody(doc) == {i \in Block(doc.lines) : doc.lines[i].depth # "blank"}

(* Only a literal block is read: a folded one could parse and mean         *)
(* something else.                                                         *)
RenderError(manifest) ==
  IF Templates(manifest) = {} THEN "NoTemplate"
  ELSE IF Template(manifest).style = "absent" THEN "NoInline"
  ELSE IF Template(manifest).style # "|" THEN "NotLiteralBlock"
  ELSE IF \E i \in InlineBody(Template(manifest)) :
            Template(manifest).lines[i].resource = NotJson THEN "Body"
  ELSE "none"

(* from_manifest skips a resource without a config or a section, and a     *)
(* value that is no string; a setting is a triple of config, section and   *)
(* option.                                                                 *)
Named(resource) ==
  /\ resource # NotAnObject
  /\ resource.config # NotAString /\ resource.section # NotAString

Said(resource) ==
  IF ~Named(resource) \/ resource.values = NotAnObject THEN {}
  ELSE {<<resource.config, resource.section, o>> :
          o \in {p \in DOMAIN resource.values : resource.values[p] # NotAString}}

(* Of the resources that say a setting the last one decides. *)
Settings(manifest) ==
  LET body  == InlineBody(Template(manifest))
      At(i) == Template(manifest).lines[i].resource
      Deciding(k) == CHOOSE i \in body : /\ k \in Said(At(i))
                                         /\ \A j \in body : k \in Said(At(j)) => j <= i
  IN  [k \in UNION {Said(At(i)) : i \in body} |-> At(Deciding(k)).values[k[3]]]

------------------------------------------------------------------------------
(* Fleet::compare, on a sequence of settings.                              *)

FleetError(fleet) ==
  IF Len(fleet) < 2 THEN "TooFewRouters"
  ELSE IF \E i \in DOMAIN fleet : DOMAIN fleet[i] = {} THEN "EmptyRouter"
  ELSE "none"

AllKeys(fleet) == UNION {DOMAIN fleet[i] : i \in DOMAIN fleet}

Everywhere(fleet, k) == \A i \in DOMAIN fleet : k \in DOMAIN fleet[i]
Unanimous(fleet, k)  == \A i \in DOMAIN fleet : fleet[i][k] = fleet[1][k]

Agreement(fleet, k) ==
  IF ~Everywhere(fleet, k) THEN "Partial"
  ELSE IF Unanimous(fleet, k) THEN "Constant" ELSE "Divergent"

Of(fleet, agreement) == {k \in AllKeys(fleet) : Agreement(fleet, k) = agreement}

(* A pin entry is [key, value], or Malformed when a field is missing.      *)
(* Mutants: everything the first router says; the keys without the values. *)
FirstRouter(fleet) == {[key |-> k, value |-> fleet[1][k]] : k \in DOMAIN fleet[1]}
KeysOnly(fleet) == Of(fleet, "Constant")

PinFile(fleet) == {[key |-> k, value |-> fleet[1][k]] : k \in Of(fleet, "Constant")}

Report(fleet) ==
  [total |-> Cardinality(AllKeys(fleet)), constant |-> Cardinality(Of(fleet, "Constant")),
   partial |-> Cardinality(Of(fleet, "Partial")), divergences |-> Of(fleet, "Divergent")]

(* read_pin: of two entries with one key the later counts, and the earlier *)
(* is lost without a word.                                                 *)
PinnedKeys(file) == {file[i].key : i \in DOMAIN file}

Pinned(file) ==
  [k \in PinnedKeys(file) |->
     file[CHOOSE i \in DOMAIN file : /\ file[i].key = k
                                     /\ \A j \in DOMAIN file : file[j].key = k => j <= i].value]

(* Mutant: the class is looked at, the value is not.                       *)
ClassOnly(fleet, pinned, k) ==
  IF k \notin AllKeys(fleet) THEN "Vanished"
  ELSE IF Agreement(fleet, k) = "Constant" THEN "none"
  ELSE IF Agreement(fleet, k) = "Partial" THEN "NoLongerUniversal" ELSE "Diverged"

(* Mutant: an option some routers dropped is taken for one they differ on. *)
DivergedOnly(fleet, pinned, k) ==
  IF k \notin AllKeys(fleet) THEN "Vanished"
  ELSE IF Agreement(fleet, k) # "Constant" THEN "Diverged"
  ELSE IF fleet[1][k] = pinned[k] THEN "none" ELSE "ValueChanged"

Breach(fleet, pinned, k) ==
  IF k \notin AllKeys(fleet) THEN "Vanished"
  ELSE IF Agreement(fleet, k) = "Constant"
         THEN IF fleet[1][k] = pinned[k] THEN "none" ELSE "ValueChanged"
  ELSE IF Agreement(fleet, k) = "Partial" THEN "NoLongerUniversal" ELSE "Diverged"

Breaches(fleet, pinned) == {k \in DOMAIN pinned : Breach(fleet, pinned, k) # "none"}

=============================================================================
