------------------------------ MODULE UciDocument ------------------------------
(***************************************************************************)
(* crates/openwrt-uci: a UCI document, its parser and its renderer.        *)
(*                                                                         *)
(* Text is a sequence of symbols: a letter, a quote, a backslash, a blank, *)
(* a line break, or one of the keywords with the blank after it.  Names    *)
(* and values are texts.                                                   *)
(***************************************************************************)
EXTENDS Naturals, Sequences, SequencesExt

CONSTANTS
  Anonymous,
  Letters     \* what names are spelled with, and values with blanks and quotes too

Package == "package "
Config  == "config "
Option  == "option "
List    == "list "
Tab     == "\t"
Break   == "\n"

Keywords == {Package, Config, Option, List}
Blank(c) == c \in {" ", Tab}

ASSUME LettersAssumption == Letters \cap (Keywords \cup {Break, " ", Tab, "'"}) = {}

(***************************************************************************)
(* The documents a router has.  A value is on one line, and a word of it   *)
(* that is a keyword is spelled; packages, types and keys are words.       *)
(***************************************************************************)
Symbols == Letters \cup {" ", Tab, "'", "\\"}
Word    == Seq(Letters) \ {<<>>}

AnEntry   == [kind : {Option, List}, key : Word, value : Seq(Symbols)]
ASection  == [kind : Word, name : {Anonymous} \cup Seq(Symbols), entries : Seq(AnEntry)]
APackage  == [name : Word, sections : Seq(ASection)]

(***************************************************************************)
(* render.rs, which indents with a Tab.                                    *)
(***************************************************************************)
Escaped   == <<"'", "\\", "'", "'">>
Escape(c) == IF c = "'" THEN Escaped ELSE <<c>>

Quote(value) == <<"'">> \o FlattenSeq([i \in DOMAIN value |-> Escape(value[i])]) \o <<"'">>

Spaced(token) == <<" ">> \o token

Assignment(e) == <<e.kind>> \o (e.key \o Spaced(Quote(e.value)))

RenderEntry(e, indent) == <<indent>> \o Assignment(e) \o <<Break>>

RenderEntries(entries, indent) ==
  FlattenSeq([i \in DOMAIN entries |-> RenderEntry(entries[i], indent)])

Header(s) == s.kind \o (IF s.name = Anonymous THEN <<>> ELSE Spaced(Quote(s.name)))

RenderSection(s, indent) ==
  <<Config>> \o Header(s) \o <<Break>> \o RenderEntries(s.entries, indent) \o <<Break>>

RenderSections(sections, indent) ==
  FlattenSeq([i \in DOMAIN sections |-> RenderSection(sections[i], indent)])

RenderPackage(p, indent) ==
  <<Package>> \o p.name \o <<Break>> \o <<Break>> \o RenderSections(p.sections, indent)

Laid(doc, indent) == FlattenSeq([i \in DOMAIN doc |-> RenderPackage(doc[i], indent)])

Render(doc) == Laid(doc, Tab)

(***************************************************************************)
(* parse.rs                                                                *)
(***************************************************************************)
Solid(text) == {i \in DOMAIN text : ~Blank(text[i])}

Trim(text) ==
  IF Solid(text) = {} THEN <<>> ELSE SubSeq(text, Min(Solid(text)), Max(Solid(text)))

(* The first word and the rest, trimmed. *)
Blanks(text) == {i \in DOMAIN text : Blank(text[i])}
FirstWord(text) ==
  IF Blanks(text) = {} THEN text ELSE SubSeq(text, 1, Min(Blanks(text)) - 1)
Rest(text) == Trim(SubSeq(text, Len(FirstWord(text)) + 1, Len(text)))

(* The inverse of Quote within the quotes, every escape becoming a quote:  *)
(* what the last n symbols stand for.                                      *)
Unescape(inner) ==
  LET last[n \in 0 .. Len(inner)] ==
        LET i == Len(inner) - n + 1
        IN  IF n = 0 THEN <<>>
            ELSE IF n >= 4 /\ SubSeq(inner, i, i + 3) = Escaped THEN <<"'">> \o last[n - 4]
            ELSE <<inner[i]>> \o last[n - 1]
  IN  last[Len(inner)]

(* A token that is not quoted stands for itself, unless it has blanks.     *)
Quoted(token)    == token # <<>> /\ token[1] = "'"
WellQuoted(token) ==
  IF Quoted(token) THEN Len(token) > 1 /\ token[Len(token)] = "'" ELSE Blanks(token) = {}
Unquote(token) ==
  IF Quoted(token) THEN Unescape(SubSeq(token, 2, Len(token) - 1)) ELSE token

(* One line on top of what was parsed so far.  Nothing is skipped but a    *)
(* line of blanks: what matches no rule is an error.                       *)
Fail(why) == [error |-> why, doc |-> <<>>]
Read(doc)  == [error |-> "none", doc |-> doc]

PackageLine(doc, name) ==
  IF name = <<>> THEN Fail("MissingPackageName")
  ELSE IF ~WellQuoted(name) THEN Fail("UnquotedValue")
  ELSE Read(Append(doc, [name |-> Unquote(name), sections |-> <<>>]))

SetLast(seq, new) == [seq EXCEPT ![Len(seq)] = new]

AddSection(doc, s) == SetLast(doc, [Last(doc) EXCEPT !.sections = Append(@, s)])

AddEntry(doc, e) ==
  LET sections == Last(doc).sections
  IN  SetLast(doc, [Last(doc) EXCEPT !.sections =
                      SetLast(sections, [Last(sections) EXCEPT !.entries = Append(@, e)])])

SectionLine(doc, header) ==
  LET name == Rest(header)
  IN  IF doc = <<>> THEN Fail("SectionOutsidePackage")
      ELSE IF FirstWord(header) = <<>> THEN Fail("MissingSectionType")
      ELSE IF ~WellQuoted(name) THEN Fail("UnquotedValue")
      ELSE Read(AddSection(doc, [kind    |-> FirstWord(header),
                                 name    |-> IF name = <<>> THEN Anonymous ELSE Unquote(name),
                                 entries |-> <<>>]))

EntryLine(doc, kind, text) ==
  IF FirstWord(text) = <<>> \/ Rest(text) = <<>> THEN Fail("MalformedEntry")
  ELSE IF doc = <<>> \/ Last(doc).sections = <<>> THEN Fail("EntryOutsideSection")
  ELSE IF ~WellQuoted(Rest(text)) THEN Fail("UnquotedValue")
  ELSE Read(AddEntry(doc, [kind |-> kind, key |-> FirstWord(text), value |-> Unquote(Rest(text))]))

(* Mutant: a line that matches no rule is left out. *)
Lenient(doc) == Read(doc)
Unrecognised(doc) == Fail("UnrecognisedLine")

Line(doc, raw) ==
  LET text == Trim(raw)
  IN  IF text = <<>> THEN Read(doc)
      ELSE IF raw[1] = Package THEN PackageLine(doc, Trim(Tail(raw)))
      ELSE IF raw[1] = Config THEN SectionLine(doc, Trim(Tail(raw)))
      ELSE IF Blank(raw[1]) /\ text[1] \in {Option, List}
             THEN EntryLine(doc, text[1], Tail(text))
      ELSE Unrecognised(doc)

(* Symbol by symbol: the line so far, and what the lines before it came to *)
(* (error is the kind of the first error, "none" without one).             *)
LineDone(sofar, raw) == IF sofar.error # "none" THEN sofar ELSE Line(sofar.doc, raw)

Take(state, c) ==
  IF c = Break THEN [line |-> <<>>, sofar |-> LineDone(state.sofar, state.line)]
  ELSE [line |-> Append(state.line, c), sofar |-> state.sofar]

After(state, text) ==
  LET upto[n \in 0 .. Len(text)] == IF n = 0 THEN state ELSE Take(upto[n - 1], text[n])
  IN  upto[Len(text)]

Parse(text) ==
  LET end == After([line |-> <<>>, sofar |-> Read(<<>>)], text)
  IN  LineDone(end.sofar, end.line)

=============================================================================
