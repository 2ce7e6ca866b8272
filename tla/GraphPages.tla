----------------------------- MODULE GraphPages -----------------------------
(***************************************************************************)
(* A request to index into the code graph (retrieval/code_graph.py and the *)
(* routes /codegraph/index of api/tooling_routes.py): a repository, an     *)
(* archive, a download or a text; or pages of Confluence - one, those of a *)
(* space, or one and what is below it.  Of a page the entities of its      *)
(* diagrams are indexed before its content.  Requests share no state.      *)
(*                                                                         *)
(* Left out: what is counted besides pages, and temporary directories.     *)
(***************************************************************************)
EXTENDS Sequences, FiniteSets, Naturals

CONSTANTS
  Pages,          \* pages of Confluence
  TreeDepth,      \* depth of a request for a tree
  MaxEntities     \* bound: entities in the diagrams of a page

\* The pages of a tree
MaxPages == 2 ^ TreeDepth

ASSUME GraphPagesAssumption == TreeDepth \in Nat /\ MaxEntities \in Nat

VARIABLES
  route,      \* what is asked for, "none" at first
  doing,      \* "new", "listing", "downloading", "fetching", "entity", "content", "children", "ended"
  queue,      \* pages still to index, the current one first
  visited,    \* pages begun, of a tree
  entities,   \* entities of the page still to index
  pages,      \* pages_indexed
  contents    \* history: the pages whose content the graph got, in order

pagesVars == <<route, doing, queue, visited, entities, pages, contents>>

PagesInit ==
  /\ route = "none" /\ doing = "new"
  /\ queue = <<>> /\ visited = {} /\ entities = 0 /\ pages = 0
  /\ contents = <<>>

-----------------------------------------------------------------------------
(* One thing to index. *)

Single(kind, does, p) ==
  /\ route = "none" /\ route' = kind
  /\ doing' = does /\ queue' = <<p>>
  /\ UNCHANGED <<visited, entities, pages, contents>>

\* The clone blocks all; it may fail.
IndexGitRepository ==
  \E p \in Pages, does \in {"content", "ended"} : Single("git", does, p)

\* A file that is no archive gives an error.
IndexZipArchive ==
  \E p \in Pages, does \in {"content", "ended"} : Single("zip", does, p)

IndexMarkdownContent ==
  \E p \in Pages, does \in {"content", "ended"} : Single("markdown", does, p)

IndexFromUrl == \E p \in Pages : Single("url", "downloading", p)

\* An archive or a text goes on as such, anything else is not supported.
Downloaded ==
  /\ doing = "downloading"
  /\ doing' \in {"content", "ended"}
  /\ UNCHANGED <<route, queue, visited, entities, pages, contents>>

\* The route looks for attachments and children, only to count them.
IndexConfluencePage == \E p \in Pages : Single("page", "fetching", p)

-----------------------------------------------------------------------------
(* The loops over the pages of a space and of a tree. *)

\* Mutant: a page that is in the queue twice is indexed twice.
Unskipped(q) == q

\* A page visited already is skipped when it is popped.
Unvisited(q) ==
  LET new == {i \in DOMAIN q : q[i] \notin visited} IN
  IF new = {} THEN <<>>
  ELSE SubSeq(q, CHOOSE i \in new : \A k \in new : i <= k, Len(q))

RoundOf(q) ==
  /\ queue' = q
  /\ doing' = IF q = <<>> THEN "ended" ELSE "fetching"

TreeRound(q) ==
  LET rest == IF Cardinality(visited) < MaxPages THEN Unvisited(q) ELSE <<>> IN
  /\ RoundOf(rest)
  /\ visited' = IF rest = <<>> THEN visited ELSE visited \union {Head(rest)}

IndexTree ==
  /\ route = "none" /\ route' = "tree"
  /\ \E p \in Pages : TreeRound(<<p>>)
  /\ UNCHANGED <<entities, pages, contents>>

IndexSpace ==
  /\ route = "none" /\ route' = "space"
  /\ doing' = "listing"
  /\ UNCHANGED <<queue, visited, entities, pages, contents>>

\* No list ends the request.
Listed ==
  /\ doing = "listing"
  /\ \E n \in 0..Cardinality(Pages) : \E list \in [1..n -> Pages] :
       /\ \A i, k \in 1..n : i # k => list[i] # list[k]
       /\ RoundOf(list)
  /\ UNCHANGED <<route, visited, entities, pages, contents>>

\* A tree asks for the children, whether the page was indexed or not.
AfterPage ==
  CASE route = "tree" -> doing' = "children" /\ UNCHANGED queue
    [] route = "space" -> RoundOf(Tail(queue))
    [] OTHER -> doing' = "ended" /\ UNCHANGED queue

\* Pages are moved meanwhile, so any may turn up below any.  Those visited
\* are not queued; an answer that does not come is passed over.
Children ==
  /\ doing = "children"
  /\ \E n \in 0..2 : \E list \in [1..n -> Pages \ visited] : TreeRound(Tail(queue) \o list)
  /\ UNCHANGED <<route, entities, pages, contents>>

-----------------------------------------------------------------------------
(* index_confluence_page *)

PageFetched ==
  /\ doing = "fetching"
  /\ entities' \in 0..MaxEntities
  /\ doing' = IF entities' > 0 THEN "entity" ELSE "content"
  /\ UNCHANGED <<route, queue, visited, pages, contents>>

\* Neither the CLI nor the page need be there.
PageNotFetched ==
  /\ doing = "fetching"
  /\ AfterPage
  /\ UNCHANGED <<route, visited, entities, pages, contents>>

\* Whether the command succeeds or not.
IndexEntity ==
  /\ doing = "entity"
  /\ entities' = entities - 1
  /\ doing' = IF entities > 1 THEN "entity" ELSE "content"
  /\ UNCHANGED <<route, queue, visited, pages, contents>>

\* add_code_to_graph
IndexContent ==
  /\ doing = "content"
  /\ pages' = pages + 1
  /\ contents' = Append(contents, Head(queue))
  /\ AfterPage
  /\ UNCHANGED <<route, visited, entities>>

ContentFails ==
  /\ doing = "content"
  /\ AfterPage
  /\ UNCHANGED <<route, visited, entities, pages, contents>>

PagesNext ==
  \/ IndexGitRepository \/ IndexZipArchive \/ IndexMarkdownContent
  \/ IndexFromUrl \/ Downloaded
  \/ IndexConfluencePage \/ IndexTree \/ IndexSpace \/ Listed \/ Children
  \/ PageFetched \/ PageNotFetched \/ IndexEntity \/ IndexContent \/ ContentFails

PagesSpec == PagesInit /\ [][PagesNext]_pagesVars

-----------------------------------------------------------------------------
(* Properties. *)

\* However pages are moved while a tree is indexed, each page that is counted
\* is another one, and there are at most 2 ** depth (/confluence/tree).
PagesAreCountedOnce ==
  /\ pages = Cardinality({contents[i] : i \in DOMAIN contents})
  /\ route = "tree" => pages <= MaxPages
=============================================================================
