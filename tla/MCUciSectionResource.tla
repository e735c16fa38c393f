------------------------ MODULE MCUciSectionResource ------------------------
(* Small instances of UciSectionResource for TLC. *)
EXTENDS UciSectionResource

CONSTANTS wan, lan, network, firewall, iface, opt1, opt2, v1, v2, l1

Opts(x, y) == [k \in Options |-> IF k = opt1 THEN x ELSE y]

(* Blocks an operator writes: a scalar only; another scalar in its place;   *)
(* a list declared next to a scalar; the empty map, which is authoritative. *)
ScalarOne  == [type |-> iface, values |-> Opts(v1, Unset), lists |-> NoLists]
ScalarTwo  == [type |-> iface, values |-> Opts(Unset, v2), lists |-> NoLists]
WithList   == [type |-> iface, values |-> Opts(v1, Unset), lists |-> Opts(Unset, l1)]
EmptyLists == [type |-> iface, values |-> Opts(v1, Unset), lists |-> Opts(Unset, Unset)]
BothMaps   == [type |-> iface, values |-> Opts(v1, Unset), lists |-> Opts(l1, Unset)]

(* Sections the device starts with: what an operator adopts. *)
Adopted  == [type |-> iface, opts |-> Opts(v2, l1)]
TwoLists == [type |-> iface, opts |-> Opts(l1, v1)]

(* Two resources: scalars only, a list the declaration empties, and a block *)
(* Update and Create refuse.                                                *)
PairDeclarations == {ScalarTwo, EmptyLists, BothMaps}
PairForeign == {Absent, TwoLists}
PairDevices == {[r \in Addresses |-> IF r = wan THEN Adopted ELSE Absent]}
PairLimit == [m \in Mishaps |-> 1]
OnePackage == [r \in Addresses |-> network]

(* One resource: a scalar, another one in its place, a list next to it. *)
OneDeclarations == {ScalarOne, ScalarTwo, WithList}
AdoptedEverywhere == {[r \in Addresses |-> Adopted]}

(* One fault, nothing else; and nothing at all. *)
OneFault == [m \in Mishaps |-> IF m = "fault" THEN 1 ELSE 0]
NoMishap == [m \in Mishaps |-> 0]

(* A wireless section: opt1 is structural (ssid), opt2 is the key. *)
WithKey == [type |-> iface, opts |-> Opts(v1, v2)]
StructuralOnly == {ScalarOne}
KeyDevices == {[r \in Addresses |-> WithKey]}
=============================================================================
