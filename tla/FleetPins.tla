------------------------------- MODULE FleetPins -------------------------------
(***************************************************************************)
(* crates/uci-inventory, main.rs, run_fleet, over time: a pin is written   *)
(* from what the fleet agreed on, reviewed by hand, and later compared     *)
(* with routers that have been rendered again since.  No router is asked:  *)
(* the command reads files.                                                *)
(***************************************************************************)
EXTENDS Fleet

CONSTANTS
  Routers,
  Renders,     \* the manifests a router may be rendered as
  Rendered,    \* what each is rendered as at first
  MaxPaths,    \* bounds the routers on one command line
  MaxEdits,    \* bounds the renders and reviews
  Malformed,   \* a pin entry that lacks a field
  NoPin        \* no pin file

ASSUME PathsAssumption == MaxPaths \in Nat
ASSUME EditsAssumption == MaxEdits \in Nat
ASSUME RendersAssumption == Rendered \in [Routers -> Renders]
ASSUME FiniteAssumption ==
  \A m \in Renders : RenderError(m) = "none" => IsFiniteSet(DOMAIN Settings(m))

ASSUME MalformedAssumption ==
  \A m \in Renders : RenderError(m) = "none" =>
    \A k \in DOMAIN Settings(m) : Malformed # [key |-> k, value |-> Settings(m)[k]]

VARIABLES
  render,   \* per router, the file it is rendered to
  pin,      \* the pin file: a sequence of entries, or NoPin
  result,   \* what the last command said, until a file changes
  source,   \* history: the command line the pin was taken from, until one
            \* of the renders changes or the review adds to the pin
  edits

vars == <<render, pin, result, source, edits>>

Nothing   == [kind |-> "none"]
NoRouters == <<>>

Paths == UNION {[1 .. n -> Routers] : n \in 0 .. MaxPaths}

Init ==
  /\ render = Rendered /\ pin = NoPin
  /\ result = Nothing /\ source = NoRouters /\ edits = 0

(* A profile or a chart changes, and a router is rendered again. *)
Rerender ==
  \E r \in Routers, m \in Renders :
    /\ edits < MaxEdits
    /\ edits' = edits + 1
    /\ render' = [render EXCEPT ![r] = m]
    /\ result' = Nothing /\ source' = NoRouters
    /\ UNCHANGED pin

(* The review of a pin: an entry is taken out, repeated with another value  *)
(* above or below the rest, or damaged.                                    *)
Review ==
  /\ pin # NoPin /\ edits < MaxEdits
  /\ edits' = edits + 1
  /\ \E i \in DOMAIN pin :
       \/ /\ pin' = [j \in 1 .. Len(pin) - 1 |-> IF j < i THEN pin[j] ELSE pin[j + 1]]
          /\ UNCHANGED source
       \/ /\ pin[i] # Malformed
          /\ LET other == [pin[i] EXCEPT !.value = "other"]
             IN  pin' = Append(pin, other) \/ pin' = <<other>> \o pin
          /\ source' = NoRouters
       \/ pin' = [pin EXCEPT ![i] = Malformed] /\ source' = NoRouters
  /\ result' = Nothing
  /\ UNCHANGED render

------------------------------------------------------------------------------
Unreadable(paths) == {i \in DOMAIN paths : RenderError(render[paths[i]]) # "none"}

Compared(paths) == [i \in DOMAIN paths |-> Settings(render[paths[i]])]

(* Why a comparison is refused: the first router that cannot be read, then *)
(* a fleet that is too small or holds an empty router.                     *)
Refusal(paths) ==
  IF Unreadable(paths) # {}
    THEN RenderError(render[paths[CHOOSE i \in Unreadable(paths) :
                                    \A j \in Unreadable(paths) : i <= j]])
    ELSE FleetError(Compared(paths))

Refuse(paths) ==
  /\ Refusal(paths) # "none"
  /\ result' = [kind |-> "refused", why |-> Refusal(paths)]
  /\ UNCHANGED <<render, pin, source, edits>>

(* fleet --emit-pin, its output saved as the pin.  The entries come in the *)
(* order of their keys; any order will do.                                 *)
EmitPin(paths) ==
  /\ Refusal(paths) = "none"
  /\ \E file \in [1 .. Cardinality(PinFile(Compared(paths))) -> PinFile(Compared(paths))] :
       /\ {file[i] : i \in DOMAIN file} = PinFile(Compared(paths))
       /\ pin' = file
  /\ result' = [kind |-> "pinned", paths |-> paths] /\ source' = paths
  /\ UNCHANGED <<render, edits>>

(* fleet *)
Compare(paths) ==
  /\ Refusal(paths) = "none"
  /\ result' = [kind |-> "report", of |-> Report(Compared(paths))]
  /\ UNCHANGED <<render, pin, source, edits>>

(* fleet --pin.  An empty pin would pass while asserting nothing.          *)
PinRefusal ==
  IF pin = NoPin THEN "cannot read"
  ELSE IF \E i \in DOMAIN pin : pin[i] = Malformed THEN "malformed"
  ELSE IF pin = <<>> THEN "empty"
  ELSE "none"

RefusePin(paths) ==
  /\ Refusal(paths) = "none" /\ PinRefusal # "none"
  /\ result' = [kind |-> "refused", why |-> PinRefusal]
  /\ UNCHANGED <<render, pin, source, edits>>

Gate(paths) ==
  /\ Refusal(paths) = "none" /\ PinRefusal = "none"
  /\ LET fleet    == Compared(paths)
         pinned   == Pinned(pin)
         breached == Breaches(fleet, pinned)
     IN  result' = IF breached = {} THEN [kind |-> "holds", paths |-> paths]
                   ELSE [kind |-> "breached", paths |-> paths,
                         kinds |-> [k \in breached |-> Breach(fleet, pinned, k)]]
  /\ UNCHANGED <<render, pin, source, edits>>

Command ==
  \E paths \in Paths :
    Refuse(paths) \/ EmitPin(paths) \/ Compare(paths) \/ RefusePin(paths) \/ Gate(paths)

Next == Rerender \/ Review \/ Command

Spec == Init /\ [][Next]_vars

------------------------------------------------------------------------------
TypeOK ==
  /\ render \in [Routers -> Renders]
  /\ pin # NoPin => \A i \in DOMAIN pin : pin[i] = Malformed \/ DOMAIN pin[i] = {"key", "value"}
  /\ result.kind \in {"none", "refused", "report", "pinned", "holds", "breached"}
  /\ source \in Paths \cup {NoRouters}
  /\ edits \in 0 .. MaxEdits

(***************************************************************************)
(* Properties.                                                             *)
(***************************************************************************)
Declared(r) == Settings(render[r])

(* A router is rendered to say it. *)
Says(r, k, v) == k \in DOMAIN Declared(r) /\ Declared(r)[k] = v

AllSay(paths, k, v) == \A i \in DOMAIN paths : Says(paths[i], k, v)

(* When the gate holds, the pin asserts something (main.rs: "an empty pin  *)
(* passes while asserting nothing"), it has no damaged entry, and every    *)
(* entry is what each router on the command line is rendered to say -      *)
(* except one that a later entry for the same setting overrules.  That one *)
(* is lost and the gate still passes, which read_pin's documentation rules *)
(* out ("never a partial pin: a pin file that loses entries silently would *)
(* shrink the gate's coverage while still passing", fleet.rs:416-417).     *)
Overruled(i) == \E j \in DOMAIN pin : i < j /\ pin[j].key = pin[i].key

GateIsSound ==
  result.kind = "holds" =>
    /\ DOMAIN pin # {}
    /\ \A i \in DOMAIN pin :
         /\ pin[i] # Malformed
         /\ AllSay(result.paths, pin[i].key, pin[i].value) \/ Overruled(i)

(* A breach is reported as what happened to the setting, and nothing else  *)
(* is a breach.                                                            *)
HappenedTo(paths, k) ==
  LET speaking == {i \in DOMAIN paths : k \in DOMAIN Declared(paths[i])}
  IN  CASE speaking = {}            -> "Vanished"
        [] speaking # DOMAIN paths /\ speaking # {} -> "NoLongerUniversal"
        [] OTHER -> IF Cardinality({Declared(paths[i])[k] : i \in speaking}) > 1
                      THEN "Diverged" ELSE "ValueChanged"

BreachesAreExact ==
  result.kind = "breached" =>
    /\ DOMAIN result.kinds # {}
    /\ \A k \in DOMAIN Pinned(pin) :
         IF AllSay(result.paths, k, Pinned(pin)[k]) THEN k \notin DOMAIN result.kinds
         ELSE /\ k \in DOMAIN result.kinds
              /\ result.kinds[k] = HappenedTo(result.paths, k)

(* Only what every router declares is pinned: a setting that some lack is  *)
(* never a candidate, for prescribing it would create the section there    *)
(* (fleet.rs, Agreement::Partial).                                         *)
PinsAreUniversal ==
  result.kind = "pinned" =>
    \A e \in DOMAIN pin : AllSay(result.paths, pin[e].key, pin[e].value)

(* The gate invents no breach (fleet.rs:386-389): a pin as --emit-pin wrote *)
(* it, or with entries taken out, is never malformed, and while no router   *)
(* is rendered again it is only ever breached by a command line with a      *)
(* router that was not asked for it - however the others are arranged.      *)
NoBreachIsInvented ==
  source # NoRouters =>
    /\ result # [kind |-> "refused", why |-> "malformed"]
    /\ result.kind = "breached" =>
         \E i \in DOMAIN result.paths : \A j \in DOMAIN source : result.paths[i] # source[j]

=============================================================================
