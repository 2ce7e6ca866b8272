------------------------------ MODULE CodeGraph ------------------------------
(***************************************************************************)
(* Queries to the code graph, answered by the command codegraphcontext     *)
(* (retrieval/code_graph.py).  A method of CodeGraphRetriever calls a      *)
(* function, and the function has its command run: first, where the        *)
(* command has the name of an MCP method, by way of that name, and if that *)
(* gives an error, directly.                                               *)
(*                                                                         *)
(* By way of the name, the parameters are added to the words that          *)
(* _MCP_TO_CLI has for the method - to the list in the table itself, which *)
(* all later calls find, and which is read when the process starts.  What  *)
(* such a command gives is wrapped once more, and no function looks there. *)
(*                                                                         *)
(* Left out: the content of answers, limits and times.                     *)
(***************************************************************************)
EXTENDS Sequences, FiniteSets, Naturals

CONSTANTS
  GraphCalls,   \* calls of methods
  Queries,      \* call -> the methods it may be of, and what about: [op, word]
  Unsafe,       \* words that _validate_cgc_arg refuses
  Writes,       \* Cypher that would change the graph
  PoolSize      \* CGC_POOL_SIZE

ASSUME CodeGraphAssumption ==
  /\ PoolSize \in Nat \ {0}
  /\ DOMAIN Queries = GraphCalls

VARIABLES
  available,    \* _cgc_available: "unknown", "yes", "no"
  commands,     \* _MCP_TO_CLI
  query,        \* call -> what it asks
  at,           \* call -> "new", "mapped", "direct", "ended"
  asked,        \* call -> the words of its process, <<>> while there is none
  reply         \* call -> what it returned, and the words it was got with

codeGraphVars == <<available, commands, query, at, asked, reply>>

NoReply == [is |-> "none", by |-> <<>>]

CodeGraphInit ==
  /\ available = "unknown"
  /\ commands = [find_code |-> <<"find", "pattern">>,
                 analyze_code_relationships |-> <<"analyze", "callers">>,
                 find_dead_code |-> <<"find", "dead-code">>,
                 find_most_complex_functions |-> <<"analyze", "complexity">>,
                 list_indexed_repositories |-> <<"stats">>]
  /\ query = [c \in GraphCalls |-> [op |-> "", word |-> ""]]
  /\ at = [c \in GraphCalls |-> "new"]
  /\ asked = [c \in GraphCalls |-> <<>>]
  /\ reply = [c \in GraphCalls |-> NoReply]

-----------------------------------------------------------------------------
(* The functions.  words: of the command that is run directly; method and  *)
(* adds: the name it goes by first, if any, and what that adds to the      *)
(* table; reads: the kind of answer that has what the function looks for,  *)
(* under the key of its own answer; safe: the words it validates.          *)

Function(words, method, adds, reads, key, safe) ==
  [words |-> words, method |-> method, adds |-> adds, reads |-> reads, key |-> key, safe |-> safe]

FindCode(word) ==
  Function(<<"find", "pattern", word>>, "find_code", <<word>>, {"list"}, "results", {word})

\* The name has neither the relation nor the target: _build_params takes the
\* target for a query.
Relationship(relation, word) ==
  Function(<<"analyze", relation, word>>, "analyze_code_relationships", <<"", "">>,
           {"object"}, "results", {word})

\* Of a relation it does not know.
OtherRelationship(word) ==
  Function(<<"find", "pattern", word>>, "find_code", <<word>>, {"object"}, "results", {word})

DeadCode ==
  Function(<<"find", "dead-code", "--limit", "20">>, "find_dead_code", <<>>, {"object"}, "results", {})

MostComplex ==
  Function(<<"analyze", "complexity", "--limit", "20">>, "find_most_complex_functions",
           <<"--limit", "20">>, {"object"}, "results", {})

\* Goes by the name of the most complex ones.
Complexity(word) ==
  Function(<<"analyze", "complexity", word>>, "find_most_complex_functions",
           <<"--limit", "10">>, {"object"}, "results", {word})

Repositories ==
  Function(<<"stats">>, "list_indexed_repositories", <<>>, {"object"}, "repositories", {})

Discover == Function(<<"discover", "--max-depth", "1">>, "", <<>>, {"list"}, "contexts", {})
Bundles(word) == Function(<<"search", "bundles", word>>, "", <<>>, {"list"}, "bundles", {word})
Cypher(word) == Function(<<"cypher", word>>, "", <<>>, {"object"}, "results", {})
Visualize(word) == Function(<<"visualize", word>>, "", <<>>, {"object"}, "url", {})

\* watch_directory, add_code_to_graph, switch_context, load_bundle,
\* add_package_to_graph: they tell only whether the command succeeded.
Command(first, word) ==
  Function(<<first, word>>, "", <<>>, {"list", "object"}, "success", {word})

-----------------------------------------------------------------------------
(* The methods: the function they call, and the key they look for in its   *)
(* answer.  Whatever is not there, an error included, is nothing found.    *)

Method(function, key) == [function |-> function, key |-> key]

Search(word) == Method(FindCode(word), "ranked_results")
FindCallers(word) == Method(Relationship("callers", word), "results")
FindCallees(word) == Method(Relationship("calls", word), "results")
FindAllCallers(word) == Method(OtherRelationship(word), "results")
FindAllCallees(word) == Method(OtherRelationship(word), "results")
FindImporters(word) == Method(OtherRelationship(word), "results")
GetClassHierarchy(word) == Method(Relationship("tree", word), "results")
GetOverrides(word) == Method(OtherRelationship(word), "results")
GetDeadCode == Method(DeadCode, "functions")
GetMostComplex == Method(MostComplex, "functions")
GetComplexity(word) == Method(Complexity(word), "complexity")
WatchDirectory(word) == Method(Command("watch", word), "job_id")
AddCode(word) == Method(Command("index", word), "job_id")
SwitchContext(word) == Method(Command("switch", word), "success")
DiscoverContexts == Method(Discover, "contexts")
ListRepositories == Method(Repositories, "repositories")
LoadBundle(word) == Method(Command("load", word), "success")
SearchBundles(word) == Method(Bundles(word), "bundles")
AddPackage(word) == Method(Command("add", word), "job_id")
ExecuteCypher(word) == Method(Cypher(word), "results")
VisualizeGraph(word) == Method(Visualize(word), "url")
GetModuleDeps(word) == Method(Relationship("deps", word), "results")
GetCallChain(word) == Method(OtherRelationship(word), "results")

\* search with a method, which looks in the query for what it is about
Routed(method, word) ==
  CASE method = "find_callers" -> FindCallers(word)
    [] method = "find_callees" -> FindCallees(word)
    [] method = "dead_code" -> Method(DeadCode, "results")
    [] method = "complexity" -> GetComplexity(word)
    [] method = "class_hierarchy" -> GetClassHierarchy(word)
    [] method = "module_deps" -> GetModuleDeps(word)
    [] method = "call_chain" -> GetCallChain(word)
    [] OTHER -> Search(word)

\* execute_query hands a limit to methods that take none.
NoLimit ==
  {"class_hierarchy", "overrides", "dead_code", "complexity", "find_definition",
   "module_deps", "call_chain"}

Executed(type, word) ==
  CASE type = "find_callers" -> FindCallers(word)
    [] type = "find_callees" -> FindCallees(word)
    [] type = "find_all_callers" -> FindAllCallers(word)
    [] type = "find_all_callees" -> FindAllCallees(word)
    [] type = "find_importers" -> FindImporters(word)
    [] OTHER -> Search(word)

Plain(op, word) ==
  CASE op = "get_overrides" -> GetOverrides(word)
    [] op = "get_dead_code" -> GetDeadCode
    [] op = "get_most_complex_functions" -> GetMostComplex
    [] op = "watch_directory" -> WatchDirectory(word)
    [] op = "add_code_to_graph" -> AddCode(word)
    [] op = "switch_context" -> SwitchContext(word)
    [] op = "discover_contexts" -> DiscoverContexts
    [] op = "list_repositories" -> ListRepositories
    [] op = "load_bundle" -> LoadBundle(word)
    [] op = "search_registry_bundles" -> SearchBundles(word)
    [] op = "add_package_to_graph" -> AddPackage(word)
    [] op = "execute_cypher" -> ExecuteCypher(word)
    [] op = "visualize" -> VisualizeGraph(word)

MethodOf(q) ==
  CASE q.op = "search" -> Routed(q.method, q.word)
    [] q.op = "execute_query" -> Executed(q.method, q.word)
    [] OTHER -> Plain(q.op, q.word)

F(c) == MethodOf(query[c]).function

-----------------------------------------------------------------------------
(* Calls. *)

Ends(c, is, by) ==
  /\ at' = [at EXCEPT ![c] = "ended"]
  /\ reply' = [reply EXCEPT ![c] = [is |-> is, by |-> by]]

\* What a method makes of a function's answer with the data looked for.
Returns(c, by) ==
  IF MethodOf(query[c]).key = F(c).key THEN Ends(c, "results", by) ELSE Ends(c, "nothing", <<>>)

\* Checked once, by running the command, which may time out.
Checks(answer) == available \in {"unknown", answer} /\ available' = answer

Limited(q) == q.op = "execute_query" /\ q.method \in NoLimit

TakesNoLimit(c) ==
  /\ at[c] = "new"
  /\ \E q \in Queries[c] : Limited(q) /\ query' = [query EXCEPT ![c] = q]
  /\ Ends(c, "raised", <<>>)
  /\ UNCHANGED <<available, commands, asked>>

NotInstalled(c) ==
  /\ at[c] = "new"
  /\ Checks("no")
  /\ \E q \in Queries[c] : ~Limited(q) /\ query' = [query EXCEPT ![c] = q]
  /\ Ends(c, "error", <<>>)
  /\ UNCHANGED <<commands, asked>>

\* A word with a blank, or Cypher that writes.
Refused(q) ==
  IF MethodOf(q).function.safe \cap Unsafe # {} THEN "raised"
  ELSE IF q.op \in {"execute_cypher", "visualize"} /\ q.word \in Writes THEN "error"
  ELSE ""

Refuse(c) ==
  /\ at[c] = "new"
  /\ Checks("yes")
  /\ \E q \in Queries[c] :
       /\ ~Limited(q) /\ Refused(q) # ""
       /\ query' = [query EXCEPT ![c] = q]
       /\ Ends(c, Refused(q), <<>>)
  /\ UNCHANGED <<commands, asked>>

\* _mcp_execute extends the list it finds in the table.
Ask(c) ==
  /\ at[c] = "new"
  /\ Checks("yes")
  /\ \E q \in Queries[c] :
       LET f == MethodOf(q).function IN
       /\ ~Limited(q) /\ Refused(q) = ""
       /\ query' = [query EXCEPT ![c] = q]
       /\ at' = [at EXCEPT ![c] = IF f.method = "" THEN "direct" ELSE "mapped"]
       /\ commands' = IF f.method = "" THEN commands
                      ELSE [commands EXCEPT ![f.method] = @ \o f.adds]
  /\ UNCHANGED <<asked, reply>>

Running == {c \in GraphCalls : asked[c] # <<>>}

\* _cli_execute, once it has the semaphore and a thread: the list of the
\* table may have grown in the meantime.
StartProcess(c) ==
  /\ at[c] \in {"mapped", "direct"} /\ asked[c] = <<>>
  /\ Cardinality(Running) < PoolSize
  /\ asked' = [asked EXCEPT ![c] = IF at[c] = "direct" THEN F(c).words ELSE commands[F(c).method]]
  /\ UNCHANGED <<available, commands, query, at, reply>>

\* Mutant: what a command by name gives is not wrapped again.
Unwrapped(c, answer) ==
  IF answer \in F(c).reads THEN Returns(c, asked[c]) ELSE Ends(c, "nothing", <<>>)

\* {"success": True, "data": {"success": True, "data": answer}}
Wrapped(c, answer) == Ends(c, "nothing", <<>>)

MappedAnswers(c) ==
  /\ at[c] = "mapped" /\ asked[c] # <<>>
  /\ asked' = [asked EXCEPT ![c] = <<>>]
  /\ \E answer \in {"list", "object"} : Wrapped(c, answer)
  /\ UNCHANGED <<available, commands, query>>

MappedFails(c) ==
  /\ at[c] = "mapped" /\ asked[c] # <<>>
  /\ asked' = [asked EXCEPT ![c] = <<>>]
  /\ at' = [at EXCEPT ![c] = "direct"]
  /\ UNCHANGED <<available, commands, query, reply>>

\* A list of repositories is looked into as if it were an object.
DirectAnswers(c) ==
  /\ at[c] = "direct" /\ asked[c] # <<>>
  /\ asked' = [asked EXCEPT ![c] = <<>>]
  /\ \E answer \in {"list", "object"} :
       IF answer \in F(c).reads THEN Returns(c, asked[c])
       ELSE Ends(c, IF F(c).key = "repositories" THEN "raised" ELSE "nothing", <<>>)
  /\ UNCHANGED <<available, commands, query>>

\* search for dead code returns what the function does, error included.
DirectFails(c) ==
  /\ at[c] = "direct" /\ asked[c] # <<>>
  /\ asked' = [asked EXCEPT ![c] = <<>>]
  /\ Ends(c, IF MethodOf(query[c]) = Method(DeadCode, "results") THEN "error" ELSE "nothing", <<>>)
  /\ UNCHANGED <<available, commands, query>>

CodeGraphNext ==
  \E c \in GraphCalls :
    \/ TakesNoLimit(c) \/ NotInstalled(c) \/ Refuse(c) \/ Ask(c) \/ StartProcess(c)
    \/ MappedAnswers(c) \/ MappedFails(c) \/ DirectAnswers(c) \/ DirectFails(c)

CodeGraphSpec == CodeGraphInit /\ [][CodeGraphNext]_codeGraphVars

-----------------------------------------------------------------------------
(* Properties. *)

\* Whatever a method returns as found was found by the command it stands
\* for, about the word it was asked about: the words of other calls that
\* have got into the table (_mcp_execute) go to the process and make it
\* answer something else, but then nothing is taken from the answer.
ResultsAreOwn ==
  \A c \in GraphCalls : reply[c].is = "results" => reply[c].by = F(c).words
=============================================================================
