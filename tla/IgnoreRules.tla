----------------------------- MODULE IgnoreRules ------------------------------
(***************************************************************************)
(* From configuration files to the two maps of ignore rules: the parser    *)
(* ini.c, the agent's handler of its pairs (jleaker.c), and what           *)
(* fillClassIgnoreList and the release take from the maps.                 *)
(*                                                                         *)
(* A name is the sequence of its parts between the dots; a part is empty   *)
(* where a dot ends the name.  A line is a record of its kind:             *)
(*   "section"  [name]              "open"  a section line without a ]     *)
(*   "pair"     name = value        "text"  neither = nor :                *)
(*   "blank"    nothing, or a comment                                      *)
(* whether it is indented, its name, and the number that its value - of a  *)
(* "text", the whole line - stands for, or NoNumber.                       *)
(***************************************************************************)
EXTENDS StrMap, SequencesExt

CONSTANTS
  Lines,                  (* The lines that files are made of.              *)
  NoNumber,
  Empty                   (* The empty part of a name.                      *)

(* The name of a pair, or what precedes its last dot, becomes a key.        *)
ASSUME LinesAssumption ==
  \A line \in Lines :
    /\ line.indent \in BOOLEAN
    /\ line.kind = "pair" => /\ line.name \in Keys
                             /\ Len(line.name) > 1 => Front(line.name) \in Keys

NoName    == <<>>
NoSection == ""

(* An IgnoreField is known by its place among those that were allocated.    *)
Rule(n, field, threshold) == [id |-> n, field |-> field, threshold |-> threshold]

NoMaps == [ignore_classes |-> sm_new, ignore_referenced_by |-> sm_new, made |-> 0]

(* A new rule goes before those its class has.                              *)
AddRule(maps, class, rule) ==
  LET old == sm_get(maps.ignore_referenced_by, class, <<>>)
  IN  [maps EXCEPT !.ignore_referenced_by = sm_put(@, class, <<rule>> \o old), !.made = @ + 1]

(* A pair is refused without a number, a dot or something after the dot.    *)
ini_handler(maps, section, name, value) ==
  CASE section = "ignore_classes" ->
         [maps EXCEPT !.ignore_classes = sm_put(@, name, TRUE)]
    [] /\ section = "ignore_referenced_by"
       /\ value # NoNumber /\ Len(name) > 1 /\ Last(name) # Empty ->
         AddRule(maps, Front(name), Rule(maps.made + 1, Last(name), value))
    [] OTHER -> maps

IsContinuation(at, line) == line.indent /\ line.kind # "blank" /\ at.prev_name # NoName

(* Mutant of AtSection: the name of the pair before it is kept.             *)
AtSection_KeepsName(at, line) == [at EXCEPT !.section = line.name]

AtSection(at, line) == [at EXCEPT !.section = line.name, !.prev_name = NoName]

(* One line, at a section and with the name of the pair before it.  What is *)
(* wrong in a line makes its number the result, which the caller ignores.   *)
ParseLine(at, line) ==
  CASE IsContinuation(at, line) ->
         [at EXCEPT !.maps = ini_handler(@, at.section, at.prev_name,
                                         IF line.kind = "text" THEN line.value ELSE NoNumber)]
    [] ~ IsContinuation(at, line) /\ line.kind = "section" ->
         AtSection(at, line)
    [] ~ IsContinuation(at, line) /\ line.kind = "pair" ->
         [at EXCEPT !.prev_name = line.name,
                    !.maps = ini_handler(@, at.section, line.name, line.value)]
    [] OTHER -> at

ini_parse_file(maps, file) ==
  LET at[n \in 0 .. Len(file)] ==
        IF n = 0 THEN [section |-> NoSection, prev_name |-> NoName, maps |-> maps]
        ELSE ParseLine(at[n - 1], file[n])
  IN  at[Len(file)].maps

(* All files of the option conf_file, the maps being new.                   *)
LoadRules(files) ==
  LET maps[n \in 0 .. Len(files)] ==
        IF n = 0 THEN NoMaps ELSE ini_parse_file(maps[n - 1], files[n])
  IN  maps[Len(files)]

(* What a list of rules holds.                                              *)
Ids(rules)      == {rules[i].id : i \in DOMAIN rules}
Contents(rules) == {<<rules[i].field, rules[i].threshold>> : i \in DOMAIN rules}
-----------------------------------------------------------------------------
(* What the files say, read without the parser: the section of a line is   *)
(* the last one named before it, and an indented line belongs to the pair  *)
(* before it unless a section lies between.                                *)

(* A line that is not indented ends the values of the pair before it if it  *)
(* is a section, or a pair without a name.                                  *)
EndsValues(line) ==
  /\ ~ line.indent
  /\ line.kind = "section" \/ (line.kind = "pair" /\ line.name = NoName)

(* There is a pair that an indented line n would belong to.                 *)
Continues(file, n) ==
  \E i \in 1 .. (n - 1) :
    /\ file[i].kind = "pair" /\ file[i].name # NoName
    /\ \A j \in (i + 1) .. (n - 1) : ~ EndsValues(file[j])

(* Sections and pairs that are not indented below a pair; those that are    *)
(* belong to its values and mean nothing.                                   *)
Stands(file, n) == file[n].indent => ~ Continues(file, n)

SectionLines(file, n) == {i \in 1 .. (n - 1) : file[i].kind = "section" /\ Stands(file, i)}
PairLines(file, n)    == {i \in 1 .. n : file[i].kind = "pair" /\ Stands(file, i)}

Latest(S) == CHOOSE i \in S : \A j \in S : j <= i

InSection(file, n, section) ==
  SectionLines(file, n) # {} /\ file[Latest(SectionLines(file, n))].name = section

(* The pair that line n belongs to, as a set.                               *)
PairOf(file, n) ==
  LET before == {i \in PairLines(file, n) : \A j \in SectionLines(file, n) : j < i}
  IN  IF (n \in before \/ file[n].indent) /\ before # {} THEN {Latest(before)} ELSE {}

IgnoredNames(files) ==
  UNION {{file[n].name : n \in {m \in PairLines(file, Len(file)) :
                                  InSection(file, m, "ignore_classes")}} : file \in ToSet(files)}

(* The lines that are rules for a class.                                    *)
RuleLines(file, class) ==
  {n \in 1 .. Len(file) :
     /\ file[n].kind = "text" \/ n \in PairLines(file, n)
     /\ file[n].value # NoNumber
     /\ InSection(file, n, "ignore_referenced_by")
     /\ \E p \in PairOf(file, n) :
          Len(file[p].name) > 1 /\ Last(file[p].name) # Empty /\ Front(file[p].name) = class}

(* The rules for a class, as pairs of field and threshold.                  *)
RulesFor(files, class) ==
  UNION {UNION {{<<Last(file[p].name), file[n].value>> : p \in PairOf(file, n)} :
                  n \in RuleLines(file, class)} : file \in ToSet(files)}
===============================================================================
