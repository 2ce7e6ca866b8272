------------------------------ MODULE Documents ------------------------------
(***************************************************************************)
(* The documents DocumentPipeline keeps (documents/pipeline.py) and their  *)
(* versions (documents/models.py), as the requests of documents/api.py use *)
(* them.                                                                   *)
(*                                                                         *)
(* What a request waits for - an upload, Confluence, WebDAV, the vision    *)
(* model - comes before anything is stored, so each is one step.  A        *)
(* request that fails before it has stored anything changes nothing, and   *)
(* is left out.  A document has its first content as content only: the     *)
(* list of versions begins with version 2, and the hash is that of the     *)
(* empty text until a version is made or restored.                         *)
(*                                                                         *)
(* Left out: titles, formats, sources, tags and times, and the jobs of the *)
(* pipeline, which nothing makes.  Documents are never too many.           *)
(***************************************************************************)
EXTENDS Sequences, Functions, FiniteSets, Integers

CONSTANTS
  Docs,        \* document ids, each drawn once
  Contents,    \* the texts
  Roots,       \* the pages of the Confluence space
  ChildrenOf,  \* page -> its child pages, which it is fetched with
  MaxVersion   \* bound: the versions of a document

ASSUME DocumentsAssumption ==
  /\ Roots \subseteq Contents /\ \A p \in Roots : ChildrenOf[p] \subseteq Contents
  /\ MaxVersion \in Nat \ {0}

Blank == "blank"   \* the empty text

VARIABLES
  documents,   \* _documents
  written      \* history: document -> the contents it was given, in order

documentVars == <<documents, written>>

DocumentsInit ==
  /\ documents = [d \in {} |-> {}]
  /\ written = [d \in {} |-> <<>>]

Stored == DOMAIN documents
Undrawn == Docs \ DOMAIN written

-----------------------------------------------------------------------------
(* New documents *)

\* Document.create without content, and then doc.content = ...
NewDocument(content) ==
  [current_version |-> 1, content |-> content, hash |-> Blank, versions |-> <<>>]

StoreAll(new) ==
  /\ documents' = [d \in Stored \cup DOMAIN new |->
                     IF d \in DOMAIN new THEN NewDocument(new[d]) ELSE documents[d]]
  /\ written' = [d \in DOMAIN written \cup DOMAIN new |->
                   IF d \in DOMAIN new THEN <<new[d]>> ELSE written[d]]

\* A document for each page, under ids of their own.
Store(pages) ==
  \E ids \in SUBSET Undrawn : \E new \in Bijection(ids, pages) : StoreAll(new)

\* create_version cannot apply: the id is new.
UploadDocument == \E content \in Contents : Store({content})

ParseImage == \E text \in Contents : Store({text})

\* Every page of the space comes with the tree below it; the pages and
\* their children are stored, and what is below those is not.
SyncSpace(include_children) ==
  Store(Roots \cup IF include_children THEN UNION {ChildrenOf[p] : p \in Roots} ELSE {})

\* The children are fetched and not stored; a page that is not there is
\* left out.
SyncPages == \E pages \in SUBSET Contents : pages # {} /\ Store(pages)

\* A file that cannot be parsed ends the request after those before it.
SyncWebdav == \E files \in SUBSET Contents : files # {} /\ Store(files)

DeleteDocument(d) ==
  /\ documents' = [e \in Stored \ {d} |-> documents[e]]
  /\ UNCHANGED written

-----------------------------------------------------------------------------
(* Versions *)

CreateVersion(d, content) ==
  /\ documents[d].current_version < MaxVersion
  /\ documents' = [documents EXCEPT ![d] =
       [current_version |-> @.current_version + 1, content |-> content, hash |-> content,
        versions |-> Append(@.versions, [number |-> @.current_version + 1, content |-> content])]]
  /\ written' = [written EXCEPT ![d] = Append(@, content)]

\* get_version: the places of a version, of which it returns the first
Places(d, n) == {k \in DOMAIN documents[d].versions : documents[d].versions[k].number = n}
HasVersion(d, n) == Places(d, n) # {}
VersionContent(d, n) ==
  documents[d].versions[CHOOSE k \in Places(d, n) : \A l \in Places(d, n) : k <= l].content

\* Mutant: the version that is restored is the current one again.
GoBackTo(d, n) ==
  /\ HasVersion(d, n)
  /\ documents' = [documents EXCEPT ![d].content = VersionContent(d, n),
                                    ![d].hash = VersionContent(d, n),
                                    ![d].current_version = n]
  /\ UNCHANGED written

\* rollback_to: the number goes on from the last version
RollbackTo(d, n) ==
  /\ HasVersion(d, n)
  /\ documents' = [documents EXCEPT ![d].content = VersionContent(d, n),
                                    ![d].hash = VersionContent(d, n)]
  /\ UNCHANGED written

DocumentsNext ==
  \/ UploadDocument \/ ParseImage \/ SyncPages \/ SyncWebdav
  \/ \E include_children \in BOOLEAN : SyncSpace(include_children)
  \/ \E d \in Stored :
       \/ DeleteDocument(d)
       \/ \E content \in Contents : CreateVersion(d, content)
       \/ \E n \in 1..MaxVersion : RollbackTo(d, n)

DocumentsSpec == DocumentsInit /\ [][DocumentsNext]_documentVars

-----------------------------------------------------------------------------
(* Properties. *)

DocumentsTypeOK ==
  /\ \A d \in Stored : documents[d] \in
       [current_version : 1..MaxVersion, content : Contents, hash : Contents \cup {Blank},
        versions : Seq([number : 2..MaxVersion, content : Contents])]
  /\ Stored \subseteq DOMAIN written
  /\ written \in [DOMAIN written -> Seq(Contents)]

\* Whatever is written, restored and written again, every version but the
\* first can be read under its number with the text it was written with;
\* the text of a document is one that was written, and its hash is that
\* text's, or the empty one's as long as there are no versions
\* (create_version, get_version, rollback_to).
VersionsAreKept ==
  \A d \in Stored :
    /\ documents[d].current_version = Len(written[d])
    /\ \A n \in 2..Len(written[d]) :
         HasVersion(d, n) /\ VersionContent(d, n) = written[d][n]
    /\ documents[d].content \in Range(written[d])
    /\ documents[d].hash = IF documents[d].versions = <<>> THEN Blank ELSE documents[d].content
=============================================================================
