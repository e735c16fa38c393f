------------------------------- MODULE Characters -------------------------------
(* The characters a text is made of.  A symbol stands for a character, or   *)
(* for a word that no rule looks into, with a code of its own.              *)
EXTENDS Integers, Sequences

CONSTANTS
  Code,   \* the code of every symbol
  Other   \* any character that has none

Codes == {Code[c] : c \in DOMAIN Code}

ASSUME CodesAreDistinct == \A c, d \in DOMAIN Code : Code[c] = Code[d] => c = d

(* as_bytes and from_utf8. *)
Bytes(text) == [i \in DOMAIN text |-> Code[text[i]]]
IsText(bytes) == \A i \in DOMAIN bytes : bytes[i] \in Codes
Text(bytes)   == [i \in DOMAIN bytes |-> CHOOSE c \in DOMAIN Code : Code[c] = bytes[i]]

=============================================================================
