------------------------------ MODULE CodeParsers ------------------------------
(***************************************************************************)
(* What the parsers of source files (git/parser.py) and the extraction of  *)
(* Python definitions (ingestion/chunker.py) make of a file: a sequence of *)
(* entities, each the lines it has and the name its id is made of.         *)
(*                                                                         *)
(* A file is a sequence of lines [kind, name, depth]; the kind of a line   *)
(* is what the patterns tell apart, in the language of the file.  Left     *)
(* out: imports and exports, the entity types, and the thresholds below    *)
(* which a definition of a few characters is no entity.                    *)
(***************************************************************************)
EXTENDS Integers, Sequences, FiniteSets, SequencesExt, Places

CONSTANT EntityLines   \* max_entity_lines

ASSUME EntityLinesAssumption == EntityLines \in Nat \ {0}

Line(kind, name, depth) == [kind |-> kind, name |-> name, depth |-> depth]

\* The lines of these kinds, in order.
LinesOf(lines, kinds) == InOrder({i \in DOMAIN lines : lines[i].kind \in kinds})

Entity(name, units) == [name |-> name, units |-> units]

EntitiesAt(lines, places) ==
  [k \in DOMAIN places |-> Entity(lines[places[k]].name, {places[k]})]

\* Each line of these kinds is an entity.
LineEntities(lines, kinds) == EntitiesAt(lines, LinesOf(lines, kinds))

\* Each starts an entity that goes on to the next.
StretchesAt(lines, starts) ==
  [k \in DOMAIN starts |->
     Entity(lines[starts[k]].name,
            starts[k] .. IF k < Len(starts) THEN starts[k + 1] - 1 ELSE Len(lines))]

Parsed(entities) == [fails |-> FALSE, entities |-> entities]
CannotParse == [fails |-> TRUE, entities |-> <<>>]

\* What its path says of a file; without a name it is that of no language.
LanguageOf ==
  [path \in {"py", "js", "ts", "tsx", "go", "rs", "java", "cs", "kt", "rb", "pom", "gradle",
             "istio", ""} |->
     CASE path = "tsx" -> "ts" [] path \in {"rb", ""} -> "unknown" [] OTHER -> path]

\* Classes and functions at any depth; in_class is never set.
ParsePython(lines) == StretchesAt(lines, LinesOf(lines, {"class", "def"}))

\* A function is seen if it is assigned; a hook or an arrow is assigned as well.
ParseJavaScript(lines) ==
  LineEntities(lines, {"binding", "hook", "arrow"}) \o LineEntities(lines, {"class"})

ReactHooks(lines) == LineEntities(lines, {"hook"})
JsxComponents(lines) == LineEntities(lines, {"arrow"}) \o LineEntities(lines, {"component"})

ParseTypeScript(lines, react) ==
  ParseJavaScript(lines) \o LineEntities(lines, {"interface"})
    \o IF react THEN ReactHooks(lines) \o JsxComponents(lines) ELSE <<>>

\* The flag of the import block is read before it is set, unless the first line
\* sets it, and the pattern for functions is no regular expression.
ParseGo(lines) ==
  IF \/ lines = <<>>
     \/ lines[1].kind \notin {"opens", "closes"}
     \/ LinesOf(lines, {"def"}) # <<>>
  THEN CannotParse
  ELSE Parsed(<<>>)

ParseRust(lines) == LineEntities(lines, {"class", "def"})

\* A method is seen in the line after that of its class.
ParseJava(lines) ==
  EntitiesAt(lines, InOrder({i \in DOMAIN lines :
    \/ lines[i].kind \in {"class", "interface"}
    \/ /\ lines[i].kind = "def"
       /\ i > 1
       /\ lines[i - 1].kind \in {"class", "interface"}}))

ParseCSharp(lines) == LineEntities(lines, {"class", "interface"})

ParseKotlin(lines) == LineEntities(lines, {"class", "interface", "def"})

ParseIstio(lines) == LineEntities(lines, {"kind"})

\* The first artifact is the project; a file that is no XML has nothing.
ParseMaven(lines) ==
  IF \E i \in DOMAIN lines : lines[i].kind = "broken"
  THEN <<>>
  ELSE EntitiesAt(lines, InOrder({i \in DOMAIN lines : /\ lines[i].kind = "project"
                                                      /\ \A j \in 1 .. i - 1 :
                                                           lines[j].kind # "project"}))
         \o LineEntities(lines, {"dependency"}) \o LineEntities(lines, {"plugin"})

\* Both blocks end with the next line that closes anything.
InBlock(lines, opening, i) ==
  \E k \in 1 .. i - 1 :
    /\ lines[k].kind = opening
    /\ \A j \in k .. i - 1 : lines[j].kind # "closes"

ParseGradle(lines) ==
  EntitiesAt(lines, InOrder({i \in DOMAIN lines :
    \/ lines[i].kind = "plugin" /\ InBlock(lines, "plugins", i)
    \/ lines[i].kind = "dependency" /\ InBlock(lines, "dependencies", i)
    \/ lines[i].kind = "task"}))
    \o LineEntities(lines, {"apply"})

ParseFile(lines, path) ==
  LET language == LanguageOf[path]
  IN CASE language = "py" -> Parsed(ParsePython(lines))
       [] language = "js" -> Parsed(ParseJavaScript(lines))
       [] language = "ts" -> Parsed(ParseTypeScript(lines, path = "tsx"))
       [] language = "go" -> ParseGo(lines)
       [] language = "rs" -> Parsed(ParseRust(lines))
       [] language = "java" -> Parsed(ParseJava(lines))
       [] language = "cs" -> Parsed(ParseCSharp(lines))
       [] language = "kt" -> Parsed(ParseKotlin(lines))
       [] language = "pom" -> Parsed(ParseMaven(lines))
       [] language = "gradle" -> Parsed(ParseGradle(lines))
       [] language = "istio" -> Parsed(ParseIstio(lines))
       [] language = "unknown" -> Parsed(<<>>)

-----------------------------------------------------------------------------
(* CodeChunker, which takes every text for Python *)

Defines(line) == line.kind \in {"def", "class"}

\* A definition starts with its first decorator and ends before the next line that is
\* indented as little as it.
Decorated(lines, i) ==
  {j \in 1 .. i :
     /\ j = i \/ lines[j].kind = "decorator"
     /\ \A k \in j .. i - 1 :
          \/ lines[k].kind = "blank"
          \/ lines[k].kind = "decorator" /\ lines[k].depth = lines[i].depth}
Inside(lines, i) ==
  {j \in i .. Len(lines) :
     /\ lines[j].kind # "blank"
     /\ \A k \in i + 1 .. j : lines[k].kind = "blank" \/ lines[k].depth > lines[i].depth}

Definition(lines, i) ==
  Entity(lines[i].name, UNION {j .. k : j \in Decorated(lines, i), k \in Inside(lines, i)})

DefinitionsAt(lines, places) ==
  [k \in DOMAIN places |-> Definition(lines, places[k])]

\* The tree has the definitions level by level; they are sorted by their first line.
PythonEntities(lines) == DefinitionsAt(lines, LinesOf(lines, {"def", "class"}))

\* The lines of the entity that starts in line i if the file is no Python: to the next
\* definition, or to a blank line once it is long.
RegexLines(lines, i) ==
  {j \in i .. Len(lines) :
     \A k \in i + 1 .. j :
       ~Defines(lines[k]) /\ ~(lines[k].kind = "blank" /\ k - i >= EntityLines)}

RegexEntitiesAt(lines, places) ==
  [k \in DOMAIN places |-> Entity(lines[places[k]].name, RegexLines(lines, places[k]))]

PythonEntitiesRegex(lines) == RegexEntitiesAt(lines, LinesOf(lines, {"def", "class"}))

EntitiesIn(lines) ==
  IF \E i \in DOMAIN lines : lines[i].kind = "broken"
  THEN PythonEntitiesRegex(lines)
  ELSE PythonEntities(lines)
=============================================================================
