------------------------ MODULE KnowledgeBase_proofs ------------------------
(***************************************************************************)
(* Theorems about what MCKnowledgeBase composes: documents, outside        *)
(* sources, indexers, tools, the code graph, advice on platforms,          *)
(* searches, diagrams, and the files and texts that are cut into chunks,   *)
(* for any documents, calls, sources, batches, requests and files.         *)
(***************************************************************************)
EXTENDS SourceJobs, Documents, Indexers, Tools, CodeGraph, GraphPages, PlatformAdvice,
        HybridSearch, Diagrams, Handlers, Data_proofs

-----------------------------------------------------------------------------
\* FlattenSeq gives a sequence of what the sequences have.
LEMMA FlattenSeqType ==
  ASSUME NEW S, NEW seqs \in Seq(Seq(S))
  PROVE  FlattenSeq(seqs) \in Seq(S)
<1> DEFINE n == Len(seqs)
           flatten == CHOOSE f : f = [i \in 1..n |-> IF i = 1 THEN seqs[i] ELSE f[i - 1] \o seqs[i]]
<1>1. n \in Nat /\ \A i \in 1..n : seqs[i] \in Seq(S)
  OBVIOUS
<1>2. CASE n = 0
  <2>1. seqs = <<>> /\ FlattenSeq(seqs) = seqs
    BY <1>2, EmptySeq DEF FlattenSeq
  <2>2. <<>> \in Seq(S)
    OBVIOUS
  <2> QED
    BY <2>1, <2>2
<1>3. CASE n # 0
  <2>1. FlattenSeq(seqs) = flatten[n]
    BY <1>3 DEF FlattenSeq
  <2> DEFINE step == [p \in (1..n) \X Seq(S) |-> p[2] \o seqs[p[1]]]
  <2>2. step \in [(1..n) \X Seq(S) -> Seq(S)]
    <3>1. ASSUME NEW p \in (1..n) \X Seq(S)
          PROVE  p[2] \o seqs[p[1]] \in Seq(S)
      <4>1. p[2] \in Seq(S) /\ seqs[p[1]] \in Seq(S)
        BY <1>1
      <4> QED
        BY <4>1
    <3> QED
      BY <3>1
  <2>3. PICK f \in [1..n -> Seq(S)] : Builds(f, n, seqs[1], step)
    <3>1. seqs[1] \in Seq(S)
      BY <1>1, <1>3
    <3> HIDE DEF step, n
    <3> QED
      BY <1>1, <2>2, <3>1, IterationExists
  <2>4. f = [i \in 1..n |-> IF i = 1 THEN seqs[i] ELSE f[i - 1] \o seqs[i]]
    <3>1. ASSUME NEW i \in 1..n
          PROVE  f[i] = IF i = 1 THEN seqs[i] ELSE f[i - 1] \o seqs[i]
      <4>1. i # 1 => <<i, f[i - 1]>> \in (1..n) \X Seq(S)
        <5> HIDE DEF n
        <5>1. i # 1 => i - 1 \in 1..n
          BY <1>1
        <5> QED
          BY <5>1
      <4>2. i # 1 => step[<<i, f[i - 1]>>] = f[i - 1] \o seqs[i]
        BY <4>1
      <4> HIDE DEF step
      <4> QED
        BY <2>3, <4>2 DEF Builds
    <3> HIDE DEF n
    <3> QED
      BY <3>1
  <2>5. flatten = [i \in 1..n |-> IF i = 1 THEN seqs[i] ELSE flatten[i - 1] \o seqs[i]]
    BY <2>4
  <2> HIDE DEF flatten, n
  <2> DEFINE T == {i \in 1..n : flatten[i] \notin Seq(S)}
  <2>6. T = {}
    <3> SUFFICES ASSUME T # {}
                 PROVE  FALSE
      OBVIOUS
    <3>1. PICK i \in T : \A k \in T : i <= k
      <4>1. T \in SUBSET Nat
        BY <1>1
      <4> HIDE DEF T
      <4> QED
        BY <4>1, LeastNatural
    <3>2. i # 1 => flatten[i - 1] \in Seq(S)
      BY <1>1, <3>1
    <3>3. flatten[i] = IF i = 1 THEN seqs[i] ELSE flatten[i - 1] \o seqs[i]
      BY <2>5
    <3>4. seqs[i] \in Seq(S)
      BY <1>1
    <3>5. CASE i = 1
      BY <3>3, <3>4, <3>5
    <3>6. CASE i # 1
      <4>1. flatten[i - 1] \o seqs[i] \in Seq(S)
        BY <3>2, <3>4, <3>6
      <4> QED
        BY <3>1, <3>3, <3>6, <4>1
    <3> QED
      BY <3>5, <3>6
  <2>7. n \in 1..n
    BY <1>1, <1>3
  <2> QED
    BY <2>1, <2>6, <2>7
<1> QED
  BY <1>2, <1>3

-----------------------------------------------------------------------------
(***************************************************************************)
(* Documents                                                               *)
(*                                                                         *)
(* A version can be read under its number because the list of versions is  *)
(* what was written, but for the first content, in that order.             *)
(***************************************************************************)
VersionsOf(texts) ==
  [k \in 1..(Len(texts) - 1) |-> [number |-> k + 1, content |-> texts[k + 1]]]

DocumentRecords ==
  [current_version : Nat, content : Contents, hash : Contents \cup {Blank},
   versions : Seq([number : Nat, content : Contents])]

DocumentInv(d) ==
  /\ documents[d] =
       [current_version |-> Len(written[d]), content |-> documents[d].content,
        hash |-> documents[d].hash, versions |-> VersionsOf(written[d])]
  /\ Len(written[d]) \in 1..MaxVersion
  /\ documents[d].content \in Range(written[d])
  /\ documents[d].hash = IF Len(written[d]) = 1 THEN Blank ELSE documents[d].content

DocumentsInv ==
  /\ Stored \subseteq DOMAIN written
  /\ written \in [DOMAIN written -> Seq(Contents)]
  /\ documents \in [Stored -> DocumentRecords]
  /\ \A d \in Stored : DocumentInv(d)

LEMMA VersionsOfType ==
  ASSUME NEW texts \in Seq(Contents), texts # <<>>
  PROVE  /\ VersionsOf(texts) \in Seq([number : Nat, content : Contents])
         /\ Len(VersionsOf(texts)) = Len(texts) - 1
         /\ VersionsOf(texts) = <<>> <=> Len(texts) = 1
<1>1. Len(texts) \in Nat \ {0}
  BY EmptySeq
<1>2. /\ VersionsOf(texts) \in [1..(Len(texts) - 1) -> [number : Nat, content : Contents]]
      /\ Len(texts) - 1 \in Nat
  BY <1>1 DEF VersionsOf
<1>3. /\ VersionsOf(texts) \in Seq([number : Nat, content : Contents])
      /\ Len(VersionsOf(texts)) = Len(texts) - 1
  <2> DEFINE m == Len(texts) - 1
             v == VersionsOf(texts)
             S == [number : Nat, content : Contents]
  <2>1. m \in Nat /\ v \in [1..m -> S]
    BY <1>2
  <2> HIDE DEF m, v, S
  <2>2. v \in Seq(S) /\ Len(v) = m
    BY <2>1, SeqDef
  <2> QED
    BY <2>2 DEF m, v, S
<1> QED
  BY <1>1, <1>3, EmptySeq

\* Storing new documents disturbs none that is there.
LEMMA StoreAllDocumentsInv ==
  ASSUME DocumentsInv, NEW ids \in SUBSET Undrawn, NEW new \in [ids -> Contents], StoreAll(new)
  PROVE  DocumentsInv'
<1>1. DOMAIN new = ids /\ ids \cap DOMAIN written = {}
  BY DEF Undrawn
<1>2. /\ DOMAIN documents' = Stored \cup ids
      /\ DOMAIN written' = DOMAIN written \cup ids
      /\ \A d \in ids : written'[d] = <<new[d]>> /\ documents'[d] = NewDocument(new[d])
      /\ \A d \in DOMAIN written : written'[d] = written[d]
      /\ \A d \in Stored : documents'[d] = documents[d]
  BY <1>1 DEF StoreAll, DocumentsInv, Stored
<1>3. \A d \in ids : <<new[d]>> \in Seq(Contents) /\ Len(<<new[d]>>) = 1
  OBVIOUS
<1>4. Stored' \subseteq DOMAIN written'
  BY <1>2 DEF DocumentsInv, Stored
<1>5. written' \in [DOMAIN written' -> Seq(Contents)]
  <2>1. \A d \in DOMAIN written' : written'[d] \in Seq(Contents)
    BY <1>2, <1>3 DEF DocumentsInv
  <2> QED
    BY <2>1 DEF StoreAll
<1>6. ASSUME NEW d \in ids
      PROVE  /\ documents'[d] \in DocumentRecords
             /\ DocumentInv(d)'
  <2>1. /\ written'[d] = <<new[d]>> /\ documents'[d] = NewDocument(new[d])
        /\ new[d] \in Contents
    BY <1>2
  <2>2. VersionsOf(written'[d]) = <<>>
    BY <2>1 DEF VersionsOf
  <2>3. new[d] \in Range(written'[d])
    BY <2>1 DEF Range
  <2> QED
    BY <2>1, <2>2, <2>3, DocumentsAssumption DEF DocumentInv, NewDocument, DocumentRecords
<1>7. ASSUME NEW d \in Stored
      PROVE  DocumentInv(d)'
  BY <1>2 DEF DocumentsInv, DocumentInv
<1>8. documents' \in [Stored' -> DocumentRecords]
  <2>1. \A d \in Stored' : documents'[d] \in DocumentRecords
    BY <1>2, <1>6 DEF DocumentsInv, Stored
  <2> QED
    BY <2>1 DEF StoreAll, Stored
<1> QED
  BY <1>2, <1>4, <1>5, <1>6, <1>7, <1>8 DEF DocumentsInv, Stored

\* So do uploads, images, spaces, pages and files of WebDAV.
LEMMA StoreDocumentsInv ==
  ASSUME DocumentsInv, NEW texts \in SUBSET Contents, Store(texts)
  PROVE  DocumentsInv'
<1>1. PICK ids \in SUBSET Undrawn : \E new \in Bijection(ids, texts) : StoreAll(new)
  BY DEF Store
<1>2. PICK new \in Bijection(ids, texts) : StoreAll(new)
  BY <1>1
<1>3. new \in [ids -> Contents]
  BY <1>2 DEF Bijection, Injection, IsInjective
<1> QED
  BY <1>2, <1>3, StoreAllDocumentsInv

\* The new version comes behind those there are.
LEMMA CreateVersionDocumentsInv ==
  ASSUME DocumentsInv, NEW d \in Stored, NEW content \in Contents, CreateVersion(d, content)
  PROVE  DocumentsInv'
<1> DEFINE n == Len(written[d])
           more == Append(written[d], content)
<1>1. /\ documents[d] =
           [current_version |-> n, content |-> documents[d].content,
            hash |-> documents[d].hash, versions |-> VersionsOf(written[d])]
      /\ n \in 1..MaxVersion /\ d \in DOMAIN written /\ written[d] \in Seq(Contents)
  BY DEF DocumentsInv, DocumentInv
<1>2. n + 1 \in 1..MaxVersion
  BY <1>1, DocumentsAssumption DEF CreateVersion
<1>3. /\ more \in Seq(Contents) /\ Len(more) = n + 1 /\ more[n + 1] = content
      /\ \A k \in 1..n : more[k] = written[d][k]
  BY <1>1
<1>4. VersionsOf(more) = Append(VersionsOf(written[d]), [number |-> n + 1, content |-> content])
  BY <1>1, <1>3 DEF VersionsOf
<1>5. /\ documents' = [documents EXCEPT ![d] =
           [current_version |-> n + 1, content |-> content, hash |-> content,
            versions |-> VersionsOf(more)]]
      /\ written' = [written EXCEPT ![d] = more]
  <2>1. documents[d].current_version = n /\ documents[d].versions = VersionsOf(written[d])
    BY <1>1
  <2> HIDE DEF n
  <2> QED
    BY <2>1, <1>4 DEF CreateVersion
<1>6. VersionsOf(more) \in Seq([number : Nat, content : Contents])
  <2>1. more \in Seq(Contents) /\ more # <<>>
    BY <1>1, <1>3
  <2> HIDE DEF more
  <2> QED
    BY <2>1, VersionsOfType
<1> HIDE DEF more
<1>7. /\ Stored' = Stored /\ DOMAIN written' = DOMAIN written
      /\ written' \in [DOMAIN written' -> Seq(Contents)]
      /\ documents' \in [Stored' -> DocumentRecords]
  <2>1. [current_version |-> n + 1, content |-> content, hash |-> content,
         versions |-> VersionsOf(more)] \in DocumentRecords
    BY <1>1, <1>6 DEF DocumentRecords
  <2>2. documents \in [Stored -> DocumentRecords] /\ written \in [DOMAIN written -> Seq(Contents)]
    BY DEF DocumentsInv
  <2> HIDE DEF n
  <2> QED
    BY <1>3, <1>5, <2>1, <2>2 DEF Stored
<1>8. DocumentInv(d)'
  <2>1. content \in Range(more)
    BY <1>1, <1>3 DEF Range
  <2> QED
    BY <1>1, <1>2, <1>3, <1>5, <2>1 DEF DocumentInv, DocumentsInv, Stored
<1>9. ASSUME NEW e \in Stored, e # d
      PROVE  DocumentInv(e)'
  BY <1>5, <1>9 DEF DocumentsInv, DocumentInv, Stored
<1> QED
  BY <1>7, <1>8, <1>9 DEF DocumentsInv

\* In a document as it should be, a version is read under its number.
LEMMA VersionIsWritten ==
  ASSUME NEW d \in Stored, DocumentInv(d), NEW n \in Int
  PROVE  /\ HasVersion(d, n) <=> n \in 2..Len(written[d])
         /\ HasVersion(d, n) => VersionContent(d, n) = written[d][n]
<1>1. /\ documents[d].versions = VersionsOf(written[d])
      /\ Len(written[d]) \in Nat
  BY DEF DocumentInv
<1>2. Places(d, n) = {k \in 1..(Len(written[d]) - 1) : k + 1 = n}
  BY <1>1 DEF Places, VersionsOf
<1>3. Places(d, n) = IF n \in 2..Len(written[d]) THEN {n - 1} ELSE {}
  BY <1>1, <1>2
<1>4. HasVersion(d, n) <=> n \in 2..Len(written[d])
  BY <1>3 DEF HasVersion
<1>5. ASSUME n \in 2..Len(written[d])
      PROVE  VersionContent(d, n) = written[d][n]
  <2>1. Places(d, n) = {n - 1}
    BY <1>3, <1>5
  <2>2. (CHOOSE k \in Places(d, n) : \A l \in Places(d, n) : k <= l) = n - 1
    BY <2>1
  <2> QED
    <3>1. VersionContent(d, n) = VersionsOf(written[d])[n - 1].content
      BY <1>1, <2>2 DEF VersionContent
    <3>2. n - 1 \in 1..(Len(written[d]) - 1) /\ (n - 1) + 1 = n
      BY <1>1, <1>5
    <3> QED
      BY <3>1, <3>2 DEF VersionsOf
<1> QED
  BY <1>4, <1>5

LEMMA TextIsReplaced ==
  ASSUME NEW r \in DocumentRecords, NEW text \in Contents
  PROVE  [r EXCEPT !.content = text, !.hash = text] =
           [current_version |-> r.current_version, content |-> text, hash |-> text,
            versions |-> r.versions]
<1> DEFINE s == [r EXCEPT !.content = text]
<1>1. /\ s \in DocumentRecords
      /\ s.content = text /\ s.current_version = r.current_version /\ s.versions = r.versions
  BY DEF DocumentRecords
<1>2. [r EXCEPT !.content = text, !.hash = text] = [s EXCEPT !.hash = text]
  OBVIOUS
<1> HIDE DEF s
<1>3. [s EXCEPT !.hash = text] =
        [current_version |-> s.current_version, content |-> s.content, hash |-> text,
         versions |-> s.versions]
  BY <1>1 DEF DocumentRecords
<1> QED
  BY <1>1, <1>2, <1>3

\* What is restored was written.
LEMMA RollbackDocumentsInv ==
  ASSUME DocumentsInv, NEW d \in Stored, NEW n \in 1..MaxVersion, RollbackTo(d, n)
  PROVE  DocumentsInv'
<1>1. n \in Int /\ HasVersion(d, n) /\ d \in DOMAIN written /\ written[d] \in Seq(Contents)
  BY DocumentsAssumption DEF RollbackTo, DocumentsInv
<1>2. n \in 2..Len(written[d]) /\ VersionContent(d, n) = written[d][n]
  BY <1>1, VersionIsWritten DEF DocumentsInv
<1>3. /\ documents' = [documents EXCEPT ![d].content = written[d][n], ![d].hash = written[d][n]]
      /\ written' = written
  BY <1>2 DEF RollbackTo
<1>4. written[d][n] \in Contents /\ written[d][n] \in Range(written[d])
  BY <1>1, <1>2 DEF Range
<1>5. documents[d] = [current_version |-> Len(written[d]), content |-> documents[d].content,
                      hash |-> documents[d].hash, versions |-> VersionsOf(written[d])]
  BY DEF DocumentsInv, DocumentInv
<1>6. documents' = [documents EXCEPT ![d] =
         [current_version |-> Len(written[d]), content |-> written[d][n],
          hash |-> written[d][n], versions |-> VersionsOf(written[d])]]
  <2>1. documents' = [documents EXCEPT ![d] =
                        [documents[d] EXCEPT !.content = written[d][n], !.hash = written[d][n]]]
    BY <1>3 DEF DocumentsInv
  <2>2. [documents[d] EXCEPT !.content = written[d][n], !.hash = written[d][n]] =
          [current_version |-> Len(written[d]), content |-> written[d][n],
           hash |-> written[d][n], versions |-> VersionsOf(written[d])]
    <3>1. documents[d] \in DocumentRecords
      BY DEF DocumentsInv
    <3>2. /\ documents[d].current_version = Len(written[d])
          /\ documents[d].versions = VersionsOf(written[d])
      BY <1>5
    <3>3. written[d][n] \in Contents
      BY <1>4
    <3>4. [documents[d] EXCEPT !.content = written[d][n], !.hash = written[d][n]] =
            [current_version |-> documents[d].current_version, content |-> written[d][n],
             hash |-> written[d][n], versions |-> documents[d].versions]
      BY <3>1, <3>3, TextIsReplaced
    <3> QED
      BY <3>2, <3>4
  <2> QED
    BY <2>1, <2>2
<1>7. /\ Stored' = Stored /\ documents' \in [Stored' -> DocumentRecords]
      /\ DocumentInv(d)'
  <2>1. documents \in [Stored -> DocumentRecords] /\ DocumentInv(d)
    BY DEF DocumentsInv
  <2>2. [current_version |-> Len(written[d]), content |-> written[d][n],
         hash |-> written[d][n], versions |-> VersionsOf(written[d])] \in DocumentRecords
    <3>1. written[d] # <<>> /\ Len(written[d]) \in Nat
      BY <1>1, <1>2
    <3>2. VersionsOf(written[d]) \in Seq([number : Nat, content : Contents])
      BY <1>1, <3>1, VersionsOfType
    <3> QED
      BY <1>4, <3>1, <3>2 DEF DocumentRecords
  <2>3. Stored' = Stored /\ documents' \in [Stored' -> DocumentRecords]
    BY <1>6, <2>1, <2>2 DEF Stored
  <2>4. documents'[d] = [current_version |-> Len(written[d]), content |-> written[d][n],
                         hash |-> written[d][n], versions |-> VersionsOf(written[d])]
    BY <1>6, <2>1
  <2> QED
    BY <1>2, <1>3, <1>4, <2>1, <2>3, <2>4 DEF DocumentInv
<1>8. ASSUME NEW e \in Stored, e # d
      PROVE  DocumentInv(e)'
  BY <1>3, <1>8 DEF DocumentsInv, DocumentInv, Stored
<1> QED
  BY <1>3, <1>7, <1>8 DEF DocumentsInv

\* One that is deleted is gone, and its id is not drawn again.
LEMMA DeleteDocumentsInv ==
  ASSUME DocumentsInv, NEW d \in Stored, DeleteDocument(d)
  PROVE  DocumentsInv'
<1>1. /\ documents' = [e \in Stored \ {d} |-> documents[e]] /\ written' = written
      /\ Stored' = Stored \ {d}
  BY DEF DeleteDocument, Stored
<1>2. \A e \in Stored' : documents'[e] = documents[e] /\ DocumentInv(e)
  BY <1>1 DEF DocumentsInv
<1>3. \A e \in Stored' : DocumentInv(e)'
  BY <1>1, <1>2 DEF DocumentInv
<1>4. documents' \in [Stored' -> DocumentRecords]
  BY <1>1, <1>2 DEF DocumentsInv
<1> QED
  BY <1>1, <1>3, <1>4 DEF DocumentsInv

\* The inductive invariant holds of every state of every behaviour.
THEOREM DocumentsInvariant == DocumentsSpec => []DocumentsInv
<1>1. DocumentsInit => DocumentsInv
  BY DEF DocumentsInit, DocumentsInv, Stored
<1>2. DocumentsInv /\ [DocumentsNext]_documentVars => DocumentsInv'
  <2> SUFFICES ASSUME DocumentsInv, [DocumentsNext]_documentVars
               PROVE  DocumentsInv'
    OBVIOUS
  <2>1. CASE UploadDocument \/ ParseImage
    BY <2>1, StoreDocumentsInv DEF UploadDocument, ParseImage
  <2>2. CASE SyncPages \/ SyncWebdav
    BY <2>2, StoreDocumentsInv DEF SyncPages, SyncWebdav
  <2>3. ASSUME NEW include_children \in BOOLEAN, SyncSpace(include_children)
        PROVE  DocumentsInv'
    <3>1. (Roots \cup IF include_children THEN UNION {ChildrenOf[p] : p \in Roots} ELSE {})
             \in SUBSET Contents
      BY DocumentsAssumption
    <3> QED
      BY <2>3, <3>1, StoreDocumentsInv DEF SyncSpace
  <2>4. ASSUME NEW d \in Stored, DeleteDocument(d)
        PROVE  DocumentsInv'
    BY <2>4, DeleteDocumentsInv
  <2>5. ASSUME NEW d \in Stored, NEW content \in Contents, CreateVersion(d, content)
        PROVE  DocumentsInv'
    BY <2>5, CreateVersionDocumentsInv
  <2>6. ASSUME NEW d \in Stored, NEW n \in 1..MaxVersion, RollbackTo(d, n)
        PROVE  DocumentsInv'
    BY <2>6, RollbackDocumentsInv
  <2>7. CASE UNCHANGED documentVars
    <3>1. documents' = documents /\ written' = written
      BY <2>7 DEF documentVars
    <3> QED
      BY <3>1 DEF DocumentsInv, DocumentInv, Stored
  <2> QED
    BY <2>1, <2>2, <2>3, <2>4, <2>5, <2>6, <2>7 DEF DocumentsNext
<1> QED
  BY <1>1, <1>2, PTL DEF DocumentsSpec

\* Whatever is written, restored and deleted, every version but the first can
\* be read under its number with the text it was written with, and the text of
\* a document is one that was written: create_version, get_version and
\* rollback_to.
THEOREM VersionsAreKeptHolds == DocumentsSpec => []VersionsAreKept
<1>1. DocumentsInv => VersionsAreKept
  <2> SUFFICES ASSUME DocumentsInv, NEW d \in Stored
               PROVE  /\ documents[d].current_version = Len(written[d])
                      /\ \A n \in 2..Len(written[d]) :
                           HasVersion(d, n) /\ VersionContent(d, n) = written[d][n]
                      /\ documents[d].content \in Range(written[d])
                      /\ documents[d].hash = IF documents[d].versions = <<>> THEN Blank
                                             ELSE documents[d].content
    BY DEF VersionsAreKept
  <2>1. DocumentInv(d) /\ Len(written[d]) \in Nat \ {0}
    BY DocumentsAssumption DEF DocumentsInv, DocumentInv
  <2>2. \A n \in 2..Len(written[d]) : HasVersion(d, n) /\ VersionContent(d, n) = written[d][n]
    BY <2>1, VersionIsWritten
  <2>3. documents[d].versions = <<>> <=> Len(written[d]) = 1
    <3>1. written[d] \in Seq(Contents) /\ written[d] # <<>>
      BY <2>1 DEF DocumentsInv
    <3> QED
      BY <2>1, <3>1, VersionsOfType DEF DocumentInv
  <2> QED
    BY <2>1, <2>2, <2>3 DEF DocumentInv
<1> QED
  BY <1>1, DocumentsInvariant, PTL

\* The numbers of versions and of a document stay within what was written, for any
\* documents and contents: create_version, rollback_to.
THEOREM DocumentsTypeOKHolds == DocumentsSpec => []DocumentsTypeOK
<1>1. DocumentsInv => DocumentsTypeOK
  <2> SUFFICES ASSUME DocumentsInv, NEW d \in Stored
               PROVE  documents[d] \in
                        [current_version : 1..MaxVersion, content : Contents,
                         hash : Contents \cup {Blank},
                         versions : Seq([number : 2..MaxVersion, content : Contents])]
    BY DEF DocumentsInv, DocumentsTypeOK
  <2> DEFINE Version == [number : 2..MaxVersion, content : Contents]
             texts == written[d]
             versions == VersionsOf(texts)
  <2>1. DocumentInv(d) /\ documents[d] \in DocumentRecords
    BY DEF DocumentsInv
  <2>2. PICK n \in 1..MaxVersion : n = Len(texts) /\ n \in Nat \ {0} /\ texts \in Seq(Contents)
    BY <2>1, DocumentsAssumption DEF DocumentInv, DocumentsInv
  <2>3. PICK m \in Nat : m = n - 1 /\ m < MaxVersion /\ MaxVersion \in Nat
    BY <2>2, DocumentsAssumption
  <2>4. versions = [k \in 1..m |-> [number |-> k + 1, content |-> texts[k + 1]]]
    BY <2>2, <2>3 DEF VersionsOf
  <2>5. \A k \in 1..m : k + 1 \in 2..MaxVersion /\ texts[k + 1] \in Contents
    BY <2>2, <2>3, LenProperties
  <2>6. versions \in [1..m -> Version]
    BY <2>4, <2>5
  <2> HIDE DEF versions, texts, Version
  <2>7. versions \in Seq(Version)
    BY <2>3, <2>6, SeqDef
  <2>8. /\ documents[d] = [current_version |-> n, content |-> documents[d].content,
                           hash |-> documents[d].hash, versions |-> versions]
        /\ documents[d].content \in Contents /\ documents[d].hash \in Contents \cup {Blank}
    BY <2>1, <2>2 DEF DocumentInv, DocumentRecords, versions, texts
  <2>9. documents[d] \in [current_version : 1..MaxVersion, content : Contents,
                          hash : Contents \cup {Blank}, versions : Seq(Version)]
    BY <2>2, <2>7, <2>8
  <2> QED
    BY <2>9 DEF Version
<1> QED
  BY <1>1, DocumentsInvariant, PTL

-----------------------------------------------------------------------------
(***************************************************************************)
(* Indexers                                                                *)
(*                                                                         *)
(* While a call goes through its chunks, nodes or edges, what has had a    *)
(* batch is counted, reported as an error, or still to be inserted alone.  *)
(***************************************************************************)
Accounted(c) == indexed[c] + errors[c] + Len(alone[c])

NotAllowedThere(c) ==
  \E item \in Range(Graph(c).nodes) \cup Range(Graph(c).edges) : ~AllowedAlone(item)

CallInv(c) ==
  /\ phase[c] = "chunks" => c \in DOMAIN ChunksOf
  /\ phase[c] \in {"nodes", "edges", "raised"} => c \notin DOMAIN ChunksOf
  /\ phase[c] # "raised" => done[c] <= Len(Items(c))
  /\ alone[c] \in Seq(Range(Items(c)))
  /\ phase[c] \notin {"nodes", "edges"} => alone[c] = <<>>
  /\ phase[c] = "new" => Accounted(c) = 0
  /\ phase[c] \in {"chunks", "nodes"} => Accounted(c) = done[c]
  /\ phase[c] = "edges" => Accounted(c) = Len(Graph(c).nodes) + done[c]
  /\ phase[c] = "ended" => Accounted(c) = Total(c)
  /\ phase[c] = "raised" => NotAllowedThere(c)

CountedIsStored == counted \subseteq vectors \cup {n.id : n \in nodes}

IndexTypes ==
  /\ phase \in [IndexCalls -> Phases]
  /\ done \in [IndexCalls -> Nat] /\ indexed \in [IndexCalls -> Nat] /\ errors \in [IndexCalls -> Nat]
  /\ DOMAIN alone = IndexCalls

IndexInv == IndexTypes /\ CountedIsStored /\ \A c \in IndexCalls : CallInv(c)

\* The nodes and the edges of a call are sequences, those of code as well.
LEMMA GraphIsSequences ==
  ASSUME NEW c \in IndexCalls \ DOMAIN ChunksOf
  PROVE  IsSequence(Graph(c).nodes) /\ IsSequence(Graph(c).edges)
<1>1. CASE c \in DOMAIN Components
  BY <1>1, IndexAssumption DEF Graph
<1>2. CASE c \notin DOMAIN Components
  <2> DEFINE es == EntitiesOf[c]
             lists == [k \in DOMAIN es |-> EdgesOfEntity(es[k])]
             made == [k \in DOMAIN es |-> EntityNode(es[k])]
             All == UNION {Range(EdgesOfEntity(es[k])) : k \in DOMAIN es}
  <2>1. /\ es \in Seq(Range(es)) /\ DOMAIN es = 1..Len(es) /\ Len(es) \in Nat
        /\ \A k \in DOMAIN es : IsSequence(es[k].refs)
    <3>1. /\ IsSequence(es)
          /\ \A e \in Range(es) : IsSequence(e.refs)
      BY <1>2, IndexAssumption
    <3>2. \A k \in DOMAIN es : es[k] \in Range(es)
      BY DEF Range
    <3> HIDE DEF es
    <3>3. es \in Seq(Range(es)) /\ DOMAIN es = 1..Len(es) /\ Len(es) \in Nat
      BY <3>1 DEF IsSequence
    <3> QED
      BY <3>1, <3>2, <3>3
  <2>2. Graph(c) = [nodes |-> made, edges |-> FlattenSeq(lists)]
    BY <1>2 DEF Graph, CodeEntities
  <2>3. ASSUME NEW k \in DOMAIN es
        PROVE  EdgesOfEntity(es[k]) \in Seq(All)
    <3> DEFINE e == es[k]
               first == IF e.file = NoFile THEN <<>> ELSE <<[from |-> e.id, to |-> e.file, type |-> "allowed"]>>
               others == [l \in DOMAIN e.refs |-> [from |-> e.id, to |-> e.refs[l], type |-> "allowed"]]
               Edges == Range(first) \cup Range(others)
    <3>1. first \in Seq(Edges)
      <4>1. CASE e.file = NoFile
        <5>1. first = <<>>
          BY <4>1
        <5> HIDE DEF first
        <5> QED
          BY <5>1
      <4>2. CASE e.file # NoFile
        <5> DEFINE x == [from |-> e.id, to |-> e.file, type |-> "allowed"]
        <5>1. first = <<x>>
          BY <4>2
        <5> HIDE DEF x
        <5> HIDE DEF first
        <5>2. x \in Range(first)
          BY <5>1 DEF Range
        <5> HIDE DEF others
        <5> QED
          BY <5>1, <5>2
      <4> QED
        BY <4>1, <4>2
    <3>2. others \in Seq(Edges)
      <4>1. DOMAIN others = 1..Len(e.refs) /\ Len(e.refs) \in Nat
        BY <2>1 DEF IsSequence
      <4>2. others \in [1..Len(e.refs) -> Range(others)]
        BY <4>1 DEF Range
      <4> HIDE DEF others, first
      <4> QED
        BY <4>1, <4>2, SeqDef
    <3>3. EdgesOfEntity(e) = first \o others
      BY DEF EdgesOfEntity
    <3> HIDE DEF first, others, Edges
    <3>4. EdgesOfEntity(e) \in Seq(Range(EdgesOfEntity(e)))
      BY <3>1, <3>2, <3>3, SeqOfRange, ConcatProperties
    <3>5. Range(EdgesOfEntity(e)) \subseteq All
      OBVIOUS
    <3> HIDE DEF All
    <3> QED
      BY <3>4, <3>5, SeqMonotonic
  <2>4. lists \in Seq(Seq(All))
    <3>1. lists \in [1..Len(es) -> Seq(All)]
      BY <2>1, <2>3
    <3> HIDE DEF All, lists
    <3> QED
      BY <2>1, <3>1, SeqDef
  <2>5. IsSequence(FlattenSeq(lists))
    <3> HIDE DEF All, lists
    <3> QED
      BY <2>4, FlattenSeqType, SeqOfRange DEF IsSequence
  <2>6. IsSequence(made)
    <3>1. made \in [1..Len(es) -> Range(made)]
      BY <2>1 DEF Range
    <3> HIDE DEF made
    <3> QED
      BY <2>1, <3>1, SeqDef DEF IsSequence
  <2> HIDE DEF made, lists
  <2> QED
    BY <2>2, <2>5, <2>6
<1> QED
  BY <1>1, <1>2

LEMMA ItemsAreSequence ==
  ASSUME NEW c \in IndexCalls, CallInv(c)
  PROVE  IsSequence(Items(c)) /\ Len(Items(c)) \in Nat
<1>1. IsSequence(Items(c))
  <2>1. CASE phase[c] = "chunks"
    BY <2>1, IndexAssumption DEF Items, CallInv
  <2>2. CASE phase[c] \in {"nodes", "edges"}
    BY <2>2, GraphIsSequences DEF Items, CallInv
  <2>3. CASE phase[c] \notin {"chunks", "nodes", "edges"}
    <3>1. Items(c) = <<>>
      BY <2>3 DEF Items
    <3> QED
      BY <3>1 DEF IsSequence
  <2> QED
    BY <2>1, <2>2, <2>3
<1> QED
  BY <1>1 DEF IsSequence

\* A batch is what comes next, as long as there is more.
LEMMA BatchComesNext ==
  ASSUME NEW c \in IndexCalls, CallInv(c), done[c] \in Nat, done[c] < Len(Items(c))
  PROVE  /\ Batch(c) \in Seq(Range(Items(c)))
         /\ Len(Batch(c)) \in Nat \ {0} /\ done[c] + Len(Batch(c)) <= Len(Items(c))
<1> DEFINE last == IF done[c] + BatchSize < Len(Items(c)) THEN done[c] + BatchSize ELSE Len(Items(c))
<1>1. /\ Items(c) \in Seq(Range(Items(c))) /\ Len(Items(c)) \in Nat
  BY ItemsAreSequence DEF IsSequence
<1>2. last \in Nat /\ last > done[c] /\ last <= Len(Items(c))
  BY <1>1, IndexAssumption
<1>3. Batch(c) = SubSeq(Items(c), done[c] + 1, last)
  BY DEF Batch
<1> HIDE DEF last
<1>4. \A i \in (done[c] + 1)..last : Items(c)[i] \in Range(Items(c))
  BY <1>1, <1>2 DEF Range
<1>5. /\ Batch(c) \in Seq(Range(Items(c)))
      /\ Len(Batch(c)) = last - done[c]
  BY <1>2, <1>3, <1>4, SubSeqProperties
<1> QED
  BY <1>1, <1>2, <1>5

\* A call disturbs no other: their phases, and so their items, stay.
LEMMA OtherCalls ==
  ASSUME IndexInv, NEW c \in IndexCalls, IndexTypes', CountedIsStored', CallInv(c)',
         \A e \in IndexCalls \ {c} :
           /\ phase'[e] = phase[e] /\ done'[e] = done[e] /\ alone'[e] = alone[e]
           /\ indexed'[e] = indexed[e] /\ errors'[e] = errors[e]
  PROVE  IndexInv'
<1>1. ASSUME NEW e \in IndexCalls, e # c
      PROVE  CallInv(e)'
  <2>1. CallInv(e) /\ Items(e)' = Items(e)
    BY <1>1 DEF IndexInv, Items
  <2> QED
    BY <1>1, <2>1 DEF CallInv, Accounted
<1> QED
  BY <1>1 DEF IndexInv

LEMMA IndexCallInv ==
  ASSUME IndexInv, NEW c \in IndexCalls, IndexCall(c)
  PROVE  IndexInv'
<1>1. /\ phase' \in [IndexCalls -> Phases]
      /\ phase'[c] = IF c \in DOMAIN ChunksOf THEN "chunks" ELSE "nodes"
      /\ \A e \in IndexCalls \ {c} : phase'[e] = phase[e]
  BY DEF IndexCall, IndexInv, IndexTypes, Phases
<1>2. CallInv(c) /\ Items(c) = <<>> /\ done[c] \in Nat /\ phase[c] = "new"
  BY DEF IndexCall, IndexInv, IndexTypes, Items
<1>3. done[c] = 0 /\ alone[c] = <<>> /\ Accounted(c) = 0
  BY <1>2 DEF CallInv
<1>4. Len(Items(c)') \in Nat
  <2>1. CASE c \in DOMAIN ChunksOf
    BY <1>1, <2>1, IndexAssumption DEF Items, IsSequence
  <2>2. CASE c \notin DOMAIN ChunksOf
    BY <1>1, <2>2, GraphIsSequences DEF Items, IsSequence
  <2> QED
    BY <2>1, <2>2
<1>5. UNCHANGED <<done, alone, indexed, errors, vectors, nodes, edges, counted>>
  BY DEF IndexCall
<1>6. /\ Accounted(c)' = 0 /\ done'[c] = 0 /\ alone'[c] = <<>>
      /\ done'[c] <= Len(Items(c)')
  BY <1>3, <1>4, <1>5 DEF Accounted
<1>7. CallInv(c)'
  BY <1>1, <1>6 DEF CallInv
<1> QED
  BY <1>1, <1>5, <1>7, OtherCalls DEF IndexInv, IndexTypes, CountedIsStored

LEMMA NextPartInv ==
  ASSUME IndexInv, NEW c \in IndexCalls, NextPart(c)
  PROVE  IndexInv'
<1>1. /\ phase' \in [IndexCalls -> Phases]
      /\ phase'[c] = IF phase[c] = "nodes" THEN "edges" ELSE "ended"
      /\ \A e \in IndexCalls \ {c} : phase'[e] = phase[e]
  BY DEF NextPart, IndexInv, IndexTypes, Phases
<1>2. done' \in [IndexCalls -> Nat] /\ done'[c] = 0 /\ \A e \in IndexCalls \ {c} : done'[e] = done[e]
  BY DEF NextPart, IndexInv, IndexTypes
<1>3. /\ CallInv(c) /\ phase[c] \in {"chunks", "nodes", "edges"}
      /\ alone[c] = <<>> /\ done[c] = Len(Items(c))
  BY DEF NextPart, IndexInv
<1>4. UNCHANGED <<alone, indexed, errors, vectors, nodes, edges, counted>>
  BY DEF NextPart
<1>5. Accounted(c)' = Accounted(c) /\ done'[c] = 0 /\ alone'[c] = <<>>
  BY <1>2, <1>3, <1>4 DEF Accounted
<1>6. CallInv(c)'
  <2>1. CASE phase[c] = "nodes"
    <3>1. Items(c)' = Graph(c).edges /\ Items(c) = Graph(c).nodes
      BY <1>1, <2>1 DEF Items
    <3>2. Len(Graph(c).nodes) \in Nat /\ Len(Graph(c).edges) \in Nat
      BY <1>3, <2>1, GraphIsSequences DEF CallInv, IsSequence
    <3>3. Accounted(c) = Len(Graph(c).nodes) /\ c \notin DOMAIN ChunksOf
      BY <1>3, <2>1, <3>1 DEF CallInv
    <3>4. Accounted(c)' = Len(Graph(c).nodes) + done'[c] /\ done'[c] <= Len(Items(c)')
      BY <1>5, <3>1, <3>2, <3>3
    <3>5. phase'[c] = "edges"
      BY <1>1, <2>1
    <3> QED
      BY <1>5, <3>3, <3>4, <3>5 DEF CallInv
  <2>2. CASE phase[c] \in {"chunks", "edges"}
    <3>1. Items(c)' = <<>> /\ phase'[c] = "ended"
      BY <1>1, <2>2 DEF Items
    <3>2. Accounted(c) = Total(c)
      BY <1>3, <2>2 DEF CallInv, Items, Total
    <3>3. done'[c] <= Len(Items(c)') /\ Total(c)' = Total(c)
      BY <1>5, <3>1 DEF Total
    <3> QED
      BY <1>5, <3>1, <3>2, <3>3 DEF CallInv
  <2> QED
    BY <1>3, <2>1, <2>2
<1> QED
  BY <1>1, <1>2, <1>4, <1>6, OtherCalls DEF IndexInv, IndexTypes, CountedIsStored

\* What is counted as indexed has been inserted, and the stores only grow.
LEMMA InsertedIsStored ==
  ASSUME CountedIsStored, NEW c \in IndexCalls, NEW new, NEW label,
         phase[c] \in {"chunks", "nodes", "edges"}, Insert(new, phase[c], label),
         counted' = counted \/ counted' = counted \cup IdsOf(new, phase[c])
  PROVE  CountedIsStored'
<1>1. Insert(new, phase[c], label) /\ counted' \subseteq counted \cup IdsOf(new, phase[c])
  OBVIOUS
<1>2. CASE phase[c] = "chunks"
  BY <1>1, <1>2 DEF CountedIsStored, Insert, IdsOf
<1>3. CASE phase[c] = "nodes"
  <2>1. nodes' = nodes \cup {[id |-> n.id, label |-> label] : n \in new} /\ vectors' = vectors
    BY <1>1, <1>3 DEF Insert
  <2>2. ASSUME NEW n \in new
        PROVE  n.id \in {m.id : m \in nodes'}
    <3>1. [id |-> n.id, label |-> label] \in nodes' /\ [id |-> n.id, label |-> label].id = n.id
      BY <2>1, <2>2
    <3> QED
      BY <3>1
  <2>3. IdsOf(new, phase[c]) = {n.id : n \in new}
    BY <1>3 DEF IdsOf
  <2> QED
    BY <1>1, <2>1, <2>2, <2>3 DEF CountedIsStored
<1>4. CASE phase[c] = "edges"
  BY <1>1, <1>4 DEF CountedIsStored, Insert, IdsOf
<1> QED
  BY <1>2, <1>3, <1>4

\* A batch keeps the account, whether it is counted, an error, or left to be
\* inserted alone.
LEMMA BatchInv ==
  ASSUME IndexInv, NEW c \in IndexCalls, phase[c] \in {"chunks", "nodes", "edges"},
         TakesBatch(c), CountedIsStored',
         \/ Counts(c, Batch(c)) /\ UNCHANGED alone
         \/ Fails(c, Len(Batch(c))) /\ UNCHANGED alone
         \/ FallsBack(c) /\ phase[c] # "chunks"
  PROVE  IndexInv'
<1>1. CallInv(c) /\ done[c] \in Nat /\ done[c] < Len(Items(c)) /\ alone[c] = <<>>
  BY DEF TakesBatch, IndexInv, IndexTypes
<1>2. /\ Batch(c) \in Seq(Range(Items(c)))
      /\ Len(Batch(c)) \in Nat \ {0} /\ done[c] + Len(Batch(c)) <= Len(Items(c))
  BY <1>1, BatchComesNext
<1>3. /\ phase' = phase /\ Items(c)' = Items(c)
      /\ done' = [done EXCEPT ![c] = done[c] + Len(Batch(c))]
  BY DEF TakesBatch, Items
<1>4. /\ indexed[c] \in Nat /\ errors[c] \in Nat /\ Len(alone[c]) = 0
      /\ indexed \in [IndexCalls -> Nat] /\ errors \in [IndexCalls -> Nat] /\ DOMAIN alone = IndexCalls
      /\ done \in [IndexCalls -> Nat] /\ phase \in [IndexCalls -> Phases]
  BY <1>1 DEF IndexInv, IndexTypes
<1> DEFINE n == Len(Batch(c))
           items == Batch(c)
<1> HIDE DEF n
<1>5. /\ n \in Nat /\ n = Len(items)
      /\ done' \in [IndexCalls -> Nat] /\ done'[c] = done[c] + n
      /\ \A e \in IndexCalls \ {c} : done'[e] = done[e]
  BY <1>2, <1>3, <1>4 DEF n
<1> HIDE DEF items
<1>6. /\ IndexTypes' /\ alone'[c] \in Seq(Range(Items(c)))
      /\ phase[c] = "chunks" => alone'[c] = <<>>
      /\ Accounted(c)' = Accounted(c) + n
      /\ \A e \in IndexCalls \ {c} :
           indexed'[e] = indexed[e] /\ errors'[e] = errors[e] /\ alone'[e] = alone[e]
  <2>1. CASE Counts(c, items) /\ UNCHANGED alone
    <3>1. indexed' = [indexed EXCEPT ![c] = indexed[c] + n] /\ errors' = errors /\ alone' = alone
      BY <1>5, <2>1 DEF Counts
    <3>2. IndexTypes'
      BY <1>3, <1>4, <1>5, <3>1 DEF IndexTypes
    <3>3. alone'[c] = <<>> /\ alone'[c] \in Seq(Range(Items(c)))
      <4>1. alone'[c] = <<>>
        BY <1>1, <3>1
      <4>2. <<>> \in Seq(Range(Items(c)))
        OBVIOUS
      <4> QED
        BY <4>1, <4>2
    <3>4. Accounted(c)' = Accounted(c) + n
      BY <1>4, <1>5, <3>1 DEF Accounted
    <3>5. \A e \in IndexCalls \ {c} :
            indexed'[e] = indexed[e] /\ errors'[e] = errors[e] /\ alone'[e] = alone[e]
      BY <1>4, <3>1
    <3> QED
      BY <3>2, <3>3, <3>4, <3>5
  <2>2. CASE Fails(c, n) /\ UNCHANGED alone
    <3>1. errors' = [errors EXCEPT ![c] = errors[c] + n] /\ indexed' = indexed /\ alone' = alone
      BY <2>2 DEF Fails
    <3>2. IndexTypes'
      BY <1>3, <1>4, <1>5, <3>1 DEF IndexTypes
    <3>3. alone'[c] = <<>> /\ alone'[c] \in Seq(Range(Items(c)))
      <4>1. alone'[c] = <<>>
        BY <1>1, <3>1
      <4>2. <<>> \in Seq(Range(Items(c)))
        OBVIOUS
      <4> QED
        BY <4>1, <4>2
    <3>4. Accounted(c)' = Accounted(c) + n
      BY <1>4, <1>5, <3>1 DEF Accounted
    <3>5. \A e \in IndexCalls \ {c} :
            indexed'[e] = indexed[e] /\ errors'[e] = errors[e] /\ alone'[e] = alone[e]
      BY <1>4, <3>1
    <3> QED
      BY <3>2, <3>3, <3>4, <3>5
  <2>3. CASE FallsBack(c) /\ phase[c] # "chunks"
    <3>1. alone' = [alone EXCEPT ![c] = items] /\ indexed' = indexed /\ errors' = errors
      BY <2>3 DEF FallsBack, items
    <3>2. items \in Seq(Range(Items(c)))
      BY <1>2 DEF items
    <3>3. IndexTypes'
      BY <1>3, <1>4, <1>5, <3>1 DEF IndexTypes
    <3>4. alone'[c] = items
      BY <1>4, <3>1
    <3>5. Accounted(c)' = Accounted(c) + n
      BY <1>4, <1>5, <3>1, <3>4 DEF Accounted
    <3>6. \A e \in IndexCalls \ {c} :
            indexed'[e] = indexed[e] /\ errors'[e] = errors[e] /\ alone'[e] = alone[e]
      BY <1>4, <3>1
    <3> QED
      BY <2>3, <3>2, <3>3, <3>4, <3>5, <3>6
  <2> QED
    BY <2>1, <2>2, <2>3 DEF n, items
<1>7. Accounted(c) \in Nat /\ done[c] + n <= Len(Items(c))
  BY <1>2, <1>4 DEF Accounted, n
<1>8. phase[c] = "edges" => Len(Graph(c).nodes) \in Nat
  BY <1>1, GraphIsSequences DEF CallInv, IsSequence
<1>9. CallInv(c)'
  BY <1>1, <1>3, <1>4, <1>5, <1>6, <1>7, <1>8 DEF CallInv
<1> QED
  BY <1>3, <1>5, <1>6, <1>9, OtherCalls

LEMMA InsertAloneInv ==
  ASSUME IndexInv, NEW c \in IndexCalls, InsertAlone(c)
  PROVE  IndexInv'
<1> DEFINE item == Head(alone[c])
<1>1. /\ CallInv(c) /\ alone[c] # <<>> /\ phase[c] \in {"nodes", "edges"}
      /\ alone[c] \in Seq(Range(Items(c))) /\ done' = done
  BY DEF InsertAlone, IndexInv, CallInv
<1>2. /\ item \in Range(Items(c)) /\ Tail(alone[c]) \in Seq(Range(Items(c)))
      /\ Len(Tail(alone[c])) = Len(alone[c]) - 1 /\ Len(alone[c]) \in Nat \ {0}
  BY <1>1
<1>3. /\ indexed \in [IndexCalls -> Nat] /\ errors \in [IndexCalls -> Nat] /\ DOMAIN alone = IndexCalls
      /\ done \in [IndexCalls -> Nat] /\ phase \in [IndexCalls -> Phases]
      /\ indexed[c] \in Nat /\ errors[c] \in Nat /\ done[c] \in Nat
  BY DEF IndexInv, IndexTypes
<1>4. CASE AllowedAlone(item)
  <2>1. /\ \/ Insert({item}, phase[c], "general") /\ Counts(c, <<item>>)
           \/ Insert({item}, phase[c], "general") /\ Fails(c, 1)
           \/ NotInserted /\ Fails(c, 1)
        /\ alone' = [alone EXCEPT ![c] = Tail(alone[c])] /\ phase' = phase
    BY <1>4 DEF InsertAlone
  <2> HIDE DEF item
  <2>2. /\ IndexTypes' /\ indexed'[c] + errors'[c] = indexed[c] + errors[c] + 1
        /\ \A e \in IndexCalls \ {c} : indexed'[e] = indexed[e] /\ errors'[e] = errors[e]
    <3>1. CASE Counts(c, <<item>>)
      <4>1. indexed' = [indexed EXCEPT ![c] = indexed[c] + 1] /\ errors' = errors
        BY <3>1 DEF Counts
      <4>2. indexed' \in [IndexCalls -> Nat] /\ indexed'[c] = indexed[c] + 1
        BY <1>3, <4>1
      <4>3. DOMAIN alone' = IndexCalls
        BY <1>3, <2>1
      <4>4. IndexTypes'
        BY <1>1, <1>3, <2>1, <4>1, <4>2, <4>3 DEF IndexTypes
      <4> QED
        BY <1>3, <4>1, <4>2, <4>4
    <3>2. CASE Fails(c, 1)
      <4>1. errors' = [errors EXCEPT ![c] = errors[c] + 1] /\ indexed' = indexed
        BY <3>2 DEF Fails
      <4>2. errors' \in [IndexCalls -> Nat] /\ errors'[c] = errors[c] + 1
        BY <1>3, <4>1
      <4>3. DOMAIN alone' = IndexCalls
        BY <1>3, <2>1
      <4>4. IndexTypes'
        BY <1>1, <1>3, <2>1, <4>1, <4>2, <4>3 DEF IndexTypes
      <4> QED
        BY <1>3, <4>1, <4>2, <4>4
    <3> QED
      BY <2>1, <3>1, <3>2
  <2>3. CountedIsStored'
    <3>1. ToSet(<<item>>) = {item} /\ CountedIsStored /\ phase[c] \in {"chunks", "nodes", "edges"}
      BY <1>1 DEF ToSet, IndexInv
    <3>2. CASE Insert({item}, phase[c], "general") /\ Counts(c, <<item>>)
      <4>1. counted' = counted \cup IdsOf({item}, phase[c])
        BY <3>1, <3>2 DEF Counts
      <4> QED
        BY <3>1, <3>2, <4>1, InsertedIsStored
    <3>3. CASE Insert({item}, phase[c], "general") /\ Fails(c, 1)
      <4>1. counted' = counted
        BY <3>3 DEF Fails
      <4> QED
        BY <3>1, <3>3, <4>1, InsertedIsStored
    <3>4. CASE NotInserted /\ Fails(c, 1)
      BY <3>4 DEF NotInserted, Fails, IndexInv, CountedIsStored
    <3> QED
      BY <2>1, <3>2, <3>3, <3>4
  <2>4. Items(c)' = Items(c) /\ alone'[c] = Tail(alone[c])
    BY <1>3, <2>1 DEF Items
  <2>5. Accounted(c)' = Accounted(c)
    BY <1>2, <1>3, <2>2, <2>4 DEF Accounted, IndexTypes
  <2>6. CallInv(c)'
    BY <1>1, <1>2, <1>3, <2>1, <2>4, <2>5 DEF CallInv
  <2>7. \A e \in IndexCalls \ {c} : alone'[e] = alone[e]
    BY <1>3, <2>1
  <2> QED
    BY <1>1, <2>1, <2>2, <2>3, <2>6, <2>7, OtherCalls
<1>5. CASE ~AllowedAlone(item)
  <2>1. /\ phase' = [phase EXCEPT ![c] = "raised"] /\ alone' = [alone EXCEPT ![c] = <<>>]
        /\ UNCHANGED <<vectors, nodes, edges, indexed, errors, counted>>
    BY <1>5 DEF InsertAlone, NotInserted
  <2>2. NotAllowedThere(c)
    BY <1>1, <1>2, <1>5 DEF Items, NotAllowedThere
  <2> HIDE DEF item
  <2>3. /\ phase'[c] = "raised" /\ alone'[c] = <<>>
        /\ \A e \in IndexCalls \ {c} : phase'[e] = phase[e] /\ alone'[e] = alone[e]
    BY <1>3, <2>1
  <2>4. IndexTypes' /\ CountedIsStored'
    BY <1>1, <1>3, <2>1 DEF IndexTypes, Phases, CountedIsStored, IndexInv
  <2>5. CallInv(c)'
    <3>1. NotAllowedThere(c)' /\ c \notin DOMAIN ChunksOf
      BY <1>1, <2>2 DEF NotAllowedThere, CallInv
    <3> QED
      BY <2>3, <3>1 DEF CallInv
  <2> QED
    BY <1>1, <2>1, <2>3, <2>4, <2>5, OtherCalls
<1> QED
  BY <1>4, <1>5

\* The inductive invariant holds of every state of every behaviour.
THEOREM IndexInvariant == IndexSpec => []IndexInv
<1>1. IndexInit => IndexInv
  <2> SUFFICES ASSUME IndexInit
               PROVE  IndexInv
    OBVIOUS
  <2>1. IndexTypes /\ CountedIsStored
    BY DEF IndexInit, IndexTypes, Phases, CountedIsStored
  <2>2. ASSUME NEW c \in IndexCalls
        PROVE  CallInv(c)
    <3>1. /\ phase[c] = "new" /\ done[c] = 0 /\ alone[c] = <<>>
          /\ indexed[c] = 0 /\ errors[c] = 0
      BY DEF IndexInit
    <3>2. Items(c) = <<>>
      BY <3>1 DEF Items
    <3> QED
      BY <3>1, <3>2 DEF CallInv, Accounted
  <2> QED
    BY <2>1, <2>2 DEF IndexInv
<1>2. IndexInv /\ [IndexNext]_indexVars => IndexInv'
  <2> SUFFICES ASSUME IndexInv, [IndexNext]_indexVars
               PROVE  IndexInv'
    OBVIOUS
  <2>1. ASSUME NEW c \in IndexCalls, ChunkBatch(c)
        PROVE  IndexInv'
    <3>1. /\ phase[c] = "chunks" /\ phase[c] \in {"chunks", "nodes", "edges"}
          /\ TakesBatch(c) /\ UNCHANGED alone
      BY <2>1 DEF ChunkBatch
    <3>2. CASE Insert(ToSet(Batch(c)), "chunks", "none") /\ Counts(c, Batch(c))
      <4>1. CountedIsStored'
        <5>1. counted' = counted \cup IdsOf(ToSet(Batch(c)), phase[c])
          BY <3>2 DEF Counts
        <5> QED
          BY <3>1, <3>2, <5>1, InsertedIsStored DEF IndexInv
      <4> QED
        BY <3>1, <3>2, <4>1, BatchInv
    <3>3. CASE Insert(ToSet(Batch(c)), "chunks", "none") /\ Fails(c, Len(Batch(c)))
      <4>1. CountedIsStored'
        <5>1. counted' = counted
          BY <3>3 DEF Fails
        <5> QED
          BY <3>1, <3>3, <5>1, InsertedIsStored DEF IndexInv
      <4> QED
        BY <3>1, <3>3, <4>1, BatchInv
    <3>4. CASE NotInserted /\ Fails(c, Len(Batch(c)))
      <4>1. CountedIsStored'
        BY <3>4 DEF NotInserted, Fails, IndexInv, CountedIsStored
      <4> QED
        BY <3>1, <3>4, <4>1, BatchInv
    <3> QED
      BY <2>1, <3>2, <3>3, <3>4 DEF ChunkBatch
  <2>2. ASSUME NEW c \in IndexCalls, GraphBatch(c)
        PROVE  IndexInv'
    <3>1. /\ phase[c] \in {"nodes", "edges"} /\ phase[c] \in {"chunks", "nodes", "edges"}
          /\ phase[c] # "chunks" /\ TakesBatch(c) /\ CountedIsStored
      BY <2>2 DEF GraphBatch, IndexInv
    <3>2. CASE Insert(ToSet(Batch(c)), phase[c], "own") /\ Counts(c, Batch(c)) /\ UNCHANGED alone
      <4>1. CountedIsStored'
        <5> DEFINE new == ToSet(Batch(c))
        <5>1. Insert(new, phase[c], "own") /\ counted' = counted \cup IdsOf(new, phase[c])
          BY <3>2 DEF Counts
        <5> HIDE DEF new
        <5> QED
          BY <3>1, <5>1, InsertedIsStored
      <4> QED
        BY <3>1, <3>2, <4>1, BatchInv
    <3>3. CASE Insert(ToSet(Batch(c)), phase[c], "own") /\ FallsBack(c)
      <4>1. CountedIsStored'
        <5> DEFINE new == ToSet(Batch(c))
        <5>1. Insert(new, phase[c], "own") /\ counted' = counted
          BY <3>3 DEF FallsBack
        <5> HIDE DEF new
        <5> QED
          BY <3>1, <5>1, InsertedIsStored
      <4> QED
        BY <3>1, <3>3, <4>1, BatchInv
    <3>4. CASE NotInserted /\ FallsBack(c)
      <4>1. CountedIsStored'
        BY <3>4 DEF NotInserted, FallsBack, IndexInv, CountedIsStored
      <4> QED
        BY <3>1, <3>4, <4>1, BatchInv
    <3> QED
      BY <2>2, <3>2, <3>3, <3>4 DEF GraphBatch
  <2>3. ASSUME NEW c \in IndexCalls, IndexCall(c) \/ InsertAlone(c) \/ NextPart(c)
        PROVE  IndexInv'
    BY <2>3, IndexCallInv, InsertAloneInv, NextPartInv
  <2>4. CASE UNCHANGED indexVars
    <3>1. /\ phase' = phase /\ done' = done /\ alone' = alone /\ indexed' = indexed
          /\ errors' = errors /\ vectors' = vectors /\ nodes' = nodes /\ counted' = counted
      BY <2>4 DEF indexVars
    <3>2. ASSUME NEW c \in IndexCalls
          PROVE  CallInv(c)'
      <4>1. CallInv(c) /\ Items(c)' = Items(c)
        BY <3>1 DEF IndexInv, Items
      <4> QED
        BY <3>1, <4>1 DEF CallInv, Accounted
    <3> QED
      BY <3>1, <3>2 DEF IndexInv, IndexTypes, CountedIsStored
  <2> QED
    BY <2>1, <2>2, <2>3, <2>4 DEF IndexNext, IndexStep
<1> QED
  BY <1>1, <1>2, PTL DEF IndexSpec

\* Whatever requests fail or lose their answer, a call that returns has
\* counted each chunk, node and edge once, what it counted is stored, and it
\* raises only over a type that is not allowed: index_chunks, index_nodes and
\* index_edges.
THEOREM IndexIsAccountedHolds == IndexSpec => []IndexIsAccounted
<1>1. IndexInv => IndexIsAccounted
  <2> SUFFICES ASSUME IndexInv
               PROVE  IndexIsAccounted
    OBVIOUS
  <2>1. ASSUME NEW c \in IndexCalls, phase[c] = "ended"
        PROVE  indexed[c] + errors[c] = Total(c)
    <3>1. Accounted(c) = Total(c) /\ alone[c] = <<>>
      BY <2>1 DEF IndexInv, CallInv
    <3>2. indexed[c] \in Nat /\ errors[c] \in Nat
      BY DEF IndexInv, IndexTypes
    <3> QED
      BY <3>1, <3>2 DEF Accounted
  <2>2. ASSUME NEW c \in IndexCalls, phase[c] = "raised"
        PROVE  NotAllowedThere(c)
    BY <2>2 DEF IndexInv, CallInv
  <2> QED
    BY <2>1, <2>2 DEF IndexInv, IndexIsAccounted, CountedIsStored, NotAllowedThere
<1> QED
  BY <1>1, IndexInvariant, PTL

-----------------------------------------------------------------------------
(***************************************************************************)
(* Tools                                                                   *)
(*                                                                         *)
(* Only a call by the registry waits.  That every output is honest is      *)
(* shown for each way a tool works, and for the tools by what each gives   *)
(* to its way.                                                             *)
(***************************************************************************)
Methods == {"none", "llm", "api", "error", "fallback", "lookup_table", "template"}
NamedMethods == {"llm", "api"}
Output == [is : {"result", "error", "raised"}, method : Methods, marks : SUBSET Both]
Heard == Answers \cup {"nothing", "raised"}

\* What OutputsAreHonest says of the output of one call.
HonestOutput(c, output, said) ==
  output.is = "result" =>
    /\ c.via # "executor"
    /\ IF output.method \in {"llm", "api"}
       THEN said \in Readable \/ output.marks # {} \/ c.tool = "technology_recommend"
       ELSE output.method # "none" => output.marks # {} \/ c.tool \in OnlyMethodSaysIt

ToolsInv ==
  /\ batch \in Batches
  /\ outputs \in Seq(Output) /\ heard \in Seq(Heard) /\ Len(heard) = Len(outputs)
  /\ Len(outputs) <= Len(batch)
  /\ waits # "nothing" => ~AllCalled /\ Current.via = "registry"
  /\ \A k \in 1..Len(outputs) : HonestOutput(batch[k], outputs[k], heard[k])

\* What outputs are made of.
LEMMA ToolWords ==
  /\ "nothing" \in Heard /\ "raised" \in Heard
  /\ "none" \in Methods /\ "llm" \in Methods /\ "api" \in Methods /\ "error" \in Methods
  /\ "fallback" \in Methods \ NamedMethods /\ "template" \in Methods \ NamedMethods
  /\ "lookup_table" \in Methods \ NamedMethods
  /\ {} \in SUBSET Both /\ {"output"} \in SUBSET Both /\ {"result"} \in SUBSET Both
BY DEF Heard, Methods, Both, NamedMethods

LEMMA CallsOfBatch ==
  ASSUME ToolsInv, ~AllCalled
  PROVE  /\ Len(outputs) \in Nat /\ Len(batch) \in Nat /\ Len(outputs) < Len(batch)
         /\ Current.via \in {"registry", "executor"} /\ Current.tool \in STRING
<1> DEFINE Call == [tool : STRING, given : Given, via : {"registry", "executor"}]
<1>1. batch \in Seq(Call)
  BY ToolsAssumption DEF ToolsInv
<1>2. Len(outputs) \in Nat /\ Len(batch) \in Nat /\ Len(outputs) < Len(batch)
  <2> HIDE DEF Call
  <2> QED
    BY <1>1 DEF ToolsInv, AllCalled
<1>3. Current \in Call
  <2> HIDE DEF Call
  <2> QED
    BY <1>1, <1>2 DEF Current
<1> QED
  BY <1>2, <1>3

\* An honest output is put beside those there are.
LEMMA GivesHonest ==
  ASSUME ToolsInv, ~AllCalled, NEW output \in Output, NEW said \in Heard,
         HonestOutput(Current, output, said), Gives(output, said), batch' = batch
  PROVE  ToolsInv'
<1> DEFINE n == Len(outputs) + 1
<1>1. /\ outputs' = Append(outputs, output) /\ heard' = Append(heard, said)
      /\ waits' = "nothing"
  BY DEF Gives
<1>2. /\ outputs \in Seq(Output) /\ heard \in Seq(Heard) /\ Len(heard) = Len(outputs)
      /\ Len(outputs) \in Nat /\ Len(batch) \in Nat /\ Len(outputs) < Len(batch)
  BY CallsOfBatch DEF ToolsInv
<1>3. /\ outputs' \in Seq(Output) /\ heard' \in Seq(Heard)
      /\ Len(outputs') = n /\ Len(heard') = n
      /\ outputs'[n] = output /\ heard'[n] = said
      /\ \A k \in 1..Len(outputs) : outputs'[k] = outputs[k] /\ heard'[k] = heard[k]
  BY <1>1, <1>2
<1>4. ASSUME NEW k \in 1..Len(outputs')
      PROVE  HonestOutput(batch[k], outputs'[k], heard'[k])
  <2>1. CASE k = n
    BY <1>3, <2>1 DEF Current
  <2>2. CASE k # n
    <3>1. k \in 1..Len(outputs)
      BY <1>2, <1>3, <2>2
    <3> QED
      BY <1>3, <3>1 DEF ToolsInv
  <2> QED
    BY <2>1, <2>2
<1>5. Len(outputs') <= Len(batch)
  BY <1>2, <1>3
<1> HIDE DEF n
<1>6. batch' \in Batches /\ Len(heard') = Len(outputs')
  BY <1>3 DEF ToolsInv
<1>7. ASSUME NEW k \in 1..Len(outputs')
      PROVE  HonestOutput(batch'[k], outputs'[k], heard'[k])
  BY <1>4
<1> QED
  BY <1>1, <1>3, <1>5, <1>6, <1>7 DEF ToolsInv

\* Errors and exceptions are no results.
LEMMA ErrorsAreHonest ==
  ASSUME ToolsInv, ~AllCalled, NEW said \in Heard, batch' = batch,
         \/ Throws(said)
         \/ \E marks \in SUBSET Both : Gives(Error(marks), said)
  PROVE  ToolsInv'
<1>1. ASSUME NEW marks \in SUBSET Both
      PROVE  Error(marks) \in Output /\ HonestOutput(Current, Error(marks), said)
  BY ToolWords DEF Error, Output, HonestOutput
<1>2. Raised \in Output /\ HonestOutput(Current, Raised, said)
  BY ToolWords DEF Raised, Output, HonestOutput
<1>3. CASE Throws(said)
  <2>1. {"output"} \in SUBSET Both
    BY DEF Both
  <2>2. Gives(Error({"output"}), said) \/ Gives(Raised, said)
    BY <1>3 DEF Throws
  <2> QED
    BY <1>1, <1>2, <2>1, <2>2, GivesHonest
<1>4. ASSUME NEW marks \in SUBSET Both, Gives(Error(marks), said)
      PROVE  ToolsInv'
  BY <1>1, <1>4, GivesHonest
<1> QED
  BY <1>3, <1>4

LEMMA ResultsAreHonest ==
  ASSUME ToolsInv, ~AllCalled, Current.via # "executor", NEW said \in Heard, batch' = batch,
         NEW method \in Methods, NEW marks \in SUBSET Both, Gives(Result(method, marks), said),
         IF method \in {"llm", "api"}
         THEN said \in Readable \/ marks # {} \/ Current.tool = "technology_recommend"
         ELSE method # "none" => marks # {} \/ Current.tool \in OnlyMethodSaysIt
  PROVE  ToolsInv'
<1>1. Result(method, marks) \in Output
  BY DEF Result, Output
<1>2. /\ Result(method, marks).is = "result" /\ Result(method, marks).method = method
      /\ Result(method, marks).marks = marks
  BY DEF Result
<1>3. HonestOutput(Current, Result(method, marks), said)
  BY <1>2 DEF HonestOutput
<1> QED
  BY <1>1, <1>3, GivesHonest

\* Results of their own making claim nothing.
LEMMA OwnResultsAreHonest ==
  ASSUME ToolsInv, ~AllCalled, Current.via # "executor", batch' = batch,
         Gives(Result("none", {}), "nothing")
  PROVE  ToolsInv'
BY ToolWords, ResultsAreHonest

LEMMA WaitsKeepsInv ==
  ASSUME ToolsInv, ~AllCalled, Current.via = "registry", batch' = batch,
         UNCHANGED <<heard, outputs>>
  PROVE  ToolsInv'
BY DEF ToolsInv, AllCalled, Current

LEMMA ComputesKeepsInv ==
  ASSUME ToolsInv, NEW tool, NEW places, Computes(tool, places)
  PROVE  ToolsInv'
<1>1. ~AllCalled /\ batch' = batch
  BY DEF Computes, Begun, Called
<1>2. CASE HandsOver /\ Gives(Result("none", {}), "nothing")
  BY <1>1, <1>2, OwnResultsAreHonest DEF HandsOver
<1>3. CASE Throws("nothing")
  BY <1>1, <1>3, ToolWords, ErrorsAreHonest
<1> QED
  BY <1>2, <1>3 DEF Computes

\* Where something is waited for, it is for a call by the registry.
LEMMA WaitsForRegistry ==
  ASSUME ToolsInv, NEW tool, NEW what, what # "nothing", WaitsFor(tool, what)
  PROVE  ~AllCalled /\ Current.via = "registry" /\ Current.via # "executor" /\ Current.tool = tool
BY DEF ToolsInv, WaitsFor

LEMMA GuardedKeepsInv ==
  ASSUME ToolsInv, NEW tool, NEW looksInside, Guarded(tool, looksInside)
  PROVE  ToolsInv'
<1>1. batch' = batch
  BY DEF Guarded
<1>2. CASE Begun(tool) /\ HandsOver /\ UNCHANGED <<heard, outputs>>
  BY <1>1, <1>2, WaitsKeepsInv DEF Begun, Called, HandsOver
<1>3. CASE Begun(tool) /\ (Gives(Error({}), "nothing") \/ Throws("nothing"))
  BY <1>1, <1>3, ToolWords, ErrorsAreHonest DEF Begun, Called
<1>4. CASE WaitsFor(tool, "backend") /\ (Gives(Result("none", {}), "nothing") \/ Gives(Error({}), "nothing"))
  <2>1. ~AllCalled /\ Current.via # "executor"
    BY <1>4, WaitsForRegistry
  <2>2. CASE Gives(Result("none", {}), "nothing")
    BY <1>1, <2>1, <2>2, OwnResultsAreHonest
  <2>3. CASE Gives(Error({}), "nothing")
    BY <1>1, <2>1, <2>3, ToolWords, ErrorsAreHonest
  <2> QED
    BY <1>4, <2>2, <2>3
<1> QED
  BY <1>2, <1>3, <1>4 DEF Guarded

LEMMA ReportsKeepsInv ==
  ASSUME ToolsInv, NEW tool, Reports(tool)
  PROVE  ToolsInv'
<1>1. batch' = batch
  BY DEF Reports
<1>2. CASE Begun(tool) /\ HandsOver /\ UNCHANGED <<heard, outputs>>
  BY <1>1, <1>2, WaitsKeepsInv DEF Begun, Called, HandsOver
<1>3. CASE Begun(tool) /\ Throws("nothing")
  BY <1>1, <1>3, ToolWords, ErrorsAreHonest DEF Begun, Called
<1>4. CASE WaitsFor(tool, "backend") /\ Gives(Result("none", {}), "nothing")
  BY <1>1, <1>4, WaitsForRegistry, OwnResultsAreHonest
<1> QED
  BY <1>2, <1>3, <1>4 DEF Reports

LEMMA ImportsKeepsInv ==
  ASSUME ToolsInv, NEW tool, Imports(tool), tool \in OnlyMethodSaysIt
  PROVE  ToolsInv'
<1>1. batch' = batch
  BY DEF Imports
<1>2. "object" \in Heard /\ "object" \in Readable
  BY DEF Heard, Answers, Readable
<1>3. CASE Begun(tool) /\ HandsOver
  <2>1. ~AllCalled /\ Current.tool = tool /\ Current.via = "registry" /\ Current.via # "executor"
    BY <1>3 DEF Begun, Called, HandsOver
  <2>2. CASE UNCHANGED <<heard, outputs>>
    BY <1>1, <2>1, <2>2, WaitsKeepsInv
  <2>3. CASE Gives(Result("api", {"result"}), "nothing")
    BY <1>1, <2>1, <2>3, ToolWords, ResultsAreHonest
  <2>4. CASE Gives(Result("error", {}), "nothing")
    BY <1>1, <2>1, <2>4, ToolWords, ResultsAreHonest
  <2>5. waits = "nothing"
    BY <1>3 DEF Begun, Called
  <2> QED
    BY <1>3, <2>2, <2>3, <2>4, <2>5 DEF Imports, WaitsFor
<1>4. CASE Begun(tool) /\ Throws("nothing")
  BY <1>1, <1>4, ToolWords, ErrorsAreHonest DEF Begun, Called
<1>5. CASE WaitsFor(tool, "backend")
  <2>1. ~AllCalled /\ Current.via # "executor" /\ waits = "backend"
    BY <1>5, WaitsForRegistry DEF WaitsFor
  <2>2. CASE Gives(Result("api", {}), "object")
    BY <1>1, <1>2, <2>1, <2>2, ToolWords, ResultsAreHonest
  <2>3. CASE Gives(Result("api", {"result"}), "raised")
    BY <1>1, <2>1, <2>3, ToolWords, ResultsAreHonest
  <2>4. ~Begun(tool)
    BY <2>1 DEF Begun, Called
  <2> QED
    BY <2>2, <2>3, <2>4 DEF Imports
<1> QED
  BY <1>3, <1>4, <1>5 DEF Imports

LEMMA FallsBackKeepsInv ==
  ASSUME ToolsInv, ~AllCalled, Current.via # "executor", batch' = batch, NEW places,
         NEW method \in Methods \ NamedMethods, NEW marks \in SUBSET Both, NEW said \in Heard,
         marks # {} \/ Current.tool \in OnlyMethodSaysIt, FallsBackOn(places, method, marks, said)
  PROVE  ToolsInv'
<1>1. CASE Gives(Result(method, marks), said)
  BY <1>1, ResultsAreHonest DEF NamedMethods
<1>2. CASE Throws(said)
  BY <1>2, ToolWords, ErrorsAreHonest
<1> QED
  BY <1>1, <1>2 DEF FallsBackOn

LEMMA AsksLLMKeepsInv ==
  ASSUME ToolsInv, NEW tool, NEW places, NEW accepts \in SUBSET Answers,
         NEW method \in Methods \ NamedMethods, NEW marks \in SUBSET Both,
         accepts \subseteq Readable \/ tool = "technology_recommend",
         marks # {} \/ tool \in OnlyMethodSaysIt,
         AsksLLM(tool, places, accepts, method, marks)
  PROVE  ToolsInv'
<1>1. batch' = batch
  BY DEF AsksLLM
<1>2. CASE Begun(tool) /\ HandsOver
  <2>1. ~AllCalled /\ Current.tool = tool /\ Current.via = "registry" /\ Current.via # "executor"
    BY <1>2 DEF Begun, Called, HandsOver
  <2>2. CASE UNCHANGED <<heard, outputs>>
    BY <1>1, <2>1, <2>2, WaitsKeepsInv
  <2>3. CASE Throws("nothing")
    BY <1>1, <2>1, <2>3, ToolWords, ErrorsAreHonest
  <2>4. CASE FallsBackOn(places, method, marks, "nothing")
    BY <1>1, <2>1, <2>4, ToolWords, FallsBackKeepsInv
  <2>5. waits = "nothing"
    BY <1>2 DEF Begun, Called
  <2> QED
    BY <1>2, <2>2, <2>3, <2>4, <2>5 DEF AsksLLM, WaitsFor
<1>3. CASE Begun(tool) /\ Throws("nothing")
  BY <1>1, <1>3, ToolWords, ErrorsAreHonest DEF Begun, Called
<1>4. CASE WaitsFor(tool, "llm")
  <2>1. ~AllCalled /\ Current.tool = tool /\ Current.via # "executor" /\ waits = "llm"
    BY <1>4, WaitsForRegistry DEF WaitsFor
  <2>2. Answers \subseteq Heard /\ "raised" \in Heard
    BY DEF Heard
  <2>3. ASSUME NEW said \in accepts, Gives(Result("llm", {}), said)
        PROVE  ToolsInv'
    <3>1. said \in Heard /\ (said \in Readable \/ Current.tool = "technology_recommend")
      BY <2>1, <2>2, <2>3
    <3> QED
      BY <1>1, <2>1, <2>3, <3>1, ToolWords, ResultsAreHonest
  <2>4. ASSUME NEW said \in Heard, FallsBackOn(places, method, marks, said)
        PROVE  ToolsInv'
    BY <1>1, <2>1, <2>4, ToolWords, FallsBackKeepsInv
  <2>5. ~Begun(tool)
    BY <2>1 DEF Begun, Called
  <2> QED
    BY <2>2, <2>3, <2>4, <2>5 DEF AsksLLM
<1> QED
  BY <1>2, <1>3, <1>4 DEF AsksLLM

LEMMA AsksKeepsInv ==
  ASSUME ToolsInv, NEW tool, NEW places, NEW marks \in SUBSET Both, marks # {},
         Asks(tool, places, marks)
  PROVE  ToolsInv'
<1>1. Readable \in SUBSET Answers
  BY DEF Readable
<1> QED
  BY <1>1, ToolWords, AsksLLMKeepsInv DEF Asks

LEMMA BaseToolsKeepInv == ToolsInv /\ BaseTools => ToolsInv'
<1> SUFFICES ASSUME ToolsInv, BaseTools PROVE ToolsInv'
  OBVIOUS
<1>1. CASE SecurityValidator \/ UISuggestionTool
  BY <1>1, ComputesKeepsInv DEF SecurityValidator, UISuggestionTool
<1>2. CASE CostEstimator
  <2>1. {"object"} \in SUBSET Answers /\ {"object"} \subseteq Readable
    BY DEF Answers, Readable
  <2> QED
    BY <1>2, <2>1, ToolWords, AsksLLMKeepsInv DEF CostEstimator
<1>3. CASE \/ SearchTool \/ HybridSearchTool \/ RerankTool \/ GraphQueryTool \/ EntitySearchTool
           \/ ChainReasoningTool \/ EntityReasoningTool \/ IterativeReasoningTool
           \/ IngestSourceTool \/ GetJobStatusTool
  BY <1>3, GuardedKeepsInv
     DEF SearchTool, HybridSearchTool, RerankTool, GraphQueryTool, EntitySearchTool,
         ChainReasoningTool, EntityReasoningTool, IterativeReasoningTool, IngestSourceTool,
         GetJobStatusTool
<1>4. CASE \/ KubernetesSearchTool \/ HelmSearchTool \/ DockerfileSearchTool
           \/ GraphQLSearchTool \/ IstioSearchTool
           \/ FindCallersTool \/ FindCalleesTool \/ FindDeadCodeTool
           \/ GetComplexityTool \/ ClassHierarchyTool \/ GetModuleDepsTool
           \/ ExtractFromImageTool \/ AnalyzeVisualTool \/ ParseDocumentAdvancedTool
           \/ ColpalSearchTool \/ UISketchSearchTool
  BY <1>4, GuardedKeepsInv
     DEF KubernetesSearchTool, HelmSearchTool, DockerfileSearchTool, GraphQLSearchTool,
         IstioSearchTool, FindCallersTool, FindCalleesTool, FindDeadCodeTool, GetComplexityTool,
         ClassHierarchyTool, GetModuleDepsTool, ExtractFromImageTool, AnalyzeVisualTool,
         ParseDocumentAdvancedTool, ColpalSearchTool, UISketchSearchTool
<1> QED
  BY <1>1, <1>2, <1>3, <1>4 DEF BaseTools

\* The tools that take some answers only.
LEMMA ChoosyToolsKeepInv ==
  ASSUME ToolsInv,
         \/ IdeaGeneratorTool \/ BrainstormTool \/ TechnologyRecommenderTool
         \/ UserStoryGeneratorTool \/ AcceptanceCriteriaGeneratorTool \/ TestGeneratorTool
         \/ UserFeedbackIngestTool
  PROVE  ToolsInv'
<1>1. /\ {"quoted"} \in SUBSET Answers /\ {"quoted"} \subseteq Readable
      /\ {"items"} \in SUBSET Answers /\ {"items"} \subseteq Readable
      /\ {"object"} \in SUBSET Answers /\ {"object"} \subseteq Readable
      /\ Answers \in SUBSET Answers
  BY DEF Answers, Readable
<1>2. /\ "brainstorm" \in OnlyMethodSaysIt /\ "technology_recommend" \in OnlyMethodSaysIt
      /\ "user_story_generate" \in OnlyMethodSaysIt
      /\ "acceptance_criteria_generate" \in OnlyMethodSaysIt
      /\ "test_generate" \in OnlyMethodSaysIt
  BY DEF OnlyMethodSaysIt
<1>3. CASE IdeaGeneratorTool
  BY <1>1, <1>3, ToolWords, AsksLLMKeepsInv DEF IdeaGeneratorTool
<1>4. CASE BrainstormTool
  BY <1>1, <1>2, <1>4, ToolWords, AsksLLMKeepsInv DEF BrainstormTool
<1>5. CASE TechnologyRecommenderTool
  BY <1>1, <1>2, <1>5, ToolWords, AsksLLMKeepsInv DEF TechnologyRecommenderTool
<1>6. CASE UserStoryGeneratorTool
  BY <1>1, <1>2, <1>6, ToolWords, AsksLLMKeepsInv DEF UserStoryGeneratorTool
<1>7. CASE AcceptanceCriteriaGeneratorTool
  BY <1>1, <1>2, <1>7, ToolWords, AsksLLMKeepsInv DEF AcceptanceCriteriaGeneratorTool
<1>8. CASE TestGeneratorTool
  BY <1>1, <1>2, <1>8, ToolWords, AsksLLMKeepsInv DEF TestGeneratorTool
<1>9. CASE UserFeedbackIngestTool
  BY <1>1, <1>9, ToolWords, AsksLLMKeepsInv DEF UserFeedbackIngestTool
<1> QED
  BY <1>3, <1>4, <1>5, <1>6, <1>7, <1>8, <1>9

LEMMA PDLCToolsKeepInv == ToolsInv /\ PDLCTools => ToolsInv'
<1> SUFFICES ASSUME ToolsInv, PDLCTools PROVE ToolsInv'
  OBVIOUS
<1>1. CASE \/ PatternFinderTool \/ RequirementsValidatorTool \/ GapAnalyzerTool
           \/ PropertyBasedTesterTool \/ ContractTesterTool
  BY <1>1, ComputesKeepsInv
     DEF PatternFinderTool, RequirementsValidatorTool, GapAnalyzerTool, PropertyBasedTesterTool,
         ContractTesterTool
<1>2. CASE TestExecutorTool \/ CoverageAnalyzerTool \/ MutationTesterTool
  BY <1>2, ReportsKeepsInv DEF TestExecutorTool, CoverageAnalyzerTool, MutationTesterTool
<1>7. CASE RequirementsImporterTool
  BY <1>7, ImportsKeepsInv DEF RequirementsImporterTool, OnlyMethodSaysIt
<1>3. CASE \/ IdeaGeneratorTool \/ BrainstormTool \/ TechnologyRecommenderTool
           \/ UserStoryGeneratorTool \/ AcceptanceCriteriaGeneratorTool \/ TestGeneratorTool
           \/ UserFeedbackIngestTool
  BY <1>3, ChoosyToolsKeepInv
<1>4. Both \in SUBSET Both /\ Both # {} /\ {"result"} \in SUBSET Both /\ {"result"} # {}
  BY DEF Both
<1>5. CASE \/ CICDPipelineGeneratorTool \/ DeploymentGeneratorTool \/ HelmChartGeneratorTool
           \/ TerraformGeneratorTool \/ DockerComposeGeneratorTool \/ DeploymentValidatorTool
           \/ MetricsCollectorTool \/ LogAggregatorTool \/ AlertManagerTool
           \/ DashboardGeneratorTool \/ TracingCollectorTool \/ SLOTrackerTool
           \/ AnomalyDetectorTool
  BY <1>4, <1>5, AsksKeepsInv
     DEF CICDPipelineGeneratorTool, DeploymentGeneratorTool, HelmChartGeneratorTool,
         TerraformGeneratorTool, DockerComposeGeneratorTool, DeploymentValidatorTool,
         MetricsCollectorTool, LogAggregatorTool, AlertManagerTool, DashboardGeneratorTool,
         TracingCollectorTool, SLOTrackerTool, AnomalyDetectorTool
<1>6. CASE \/ SentimentAnalyzerTool \/ MetricTrendAnalyzerTool \/ FeatureRequestTrackerTool
           \/ ChurnPredictorTool \/ AutoScalerTool \/ UpdateOrchestratorTool
           \/ IncidentDetectorTool \/ RootCauseAnalyzerTool \/ RunbookGeneratorTool
           \/ BackupManagerTool \/ CapacityPlannerTool
  BY <1>4, <1>6, AsksKeepsInv
     DEF SentimentAnalyzerTool, MetricTrendAnalyzerTool, FeatureRequestTrackerTool,
         ChurnPredictorTool, AutoScalerTool, UpdateOrchestratorTool, IncidentDetectorTool,
         RootCauseAnalyzerTool, RunbookGeneratorTool, BackupManagerTool, CapacityPlannerTool
<1> QED
  BY <1>1, <1>2, <1>3, <1>5, <1>6, <1>7 DEF PDLCTools

\* The inductive invariant holds of every state of every behaviour.
THEOREM ToolsInvariant == ToolsSpec => []ToolsInv
<1>1. ToolsInit => ToolsInv
  <2> SUFFICES ASSUME ToolsInit
               PROVE  ToolsInv
    OBVIOUS
  <2>1. batch \in Batches /\ waits = "nothing" /\ heard = <<>> /\ outputs = <<>>
    BY DEF ToolsInit
  <2>2. Len(batch) \in Nat
    BY <2>1, ToolsAssumption
  <2> QED
    BY <2>1, <2>2 DEF ToolsInv
<1>2. ToolsInv /\ [ToolsNext]_toolsVars => ToolsInv'
  <2> SUFFICES ASSUME ToolsInv, [ToolsNext]_toolsVars
               PROVE  ToolsInv'
    OBVIOUS
  <2>1. CASE ToolNotFound
    BY <2>1, ToolWords, ErrorsAreHonest DEF ToolNotFound, Called
  <2>2. CASE InvalidInput
    BY <2>2, ToolWords, ErrorsAreHonest DEF InvalidInput, Called
  <2>3. CASE BaseTools \/ PDLCTools
    BY <2>3, BaseToolsKeepInv, PDLCToolsKeepInv
  <2>4. CASE UNCHANGED toolsVars
    BY <2>4 DEF toolsVars, ToolsInv, AllCalled, Current
  <2> QED
    BY <2>1, <2>2, <2>3, <2>4 DEF ToolsNext
<1> QED
  BY <1>1, <1>2, PTL DEF ToolsSpec

\* Whatever the LLM or a source answers or raises, an output that names it as
\* its method carries an answer that could be read or says that there was none,
\* and one that a tool gave instead is marked as not reliable, with the
\* exceptions that are named; a step of a plan gets no result: the tools, their
\* registry and ToolExecutor.execute.
THEOREM OutputsAreHonestHolds == ToolsSpec => []OutputsAreHonest
<1>1. ToolsInv => OutputsAreHonest
  <2> SUFFICES ASSUME ToolsInv, NEW k \in DOMAIN outputs
               PROVE  HonestOutput(batch[k], outputs[k], heard[k])
    BY DEF OutputsAreHonest, HonestOutput
  <2>1. k \in 1..Len(outputs)
    BY DEF ToolsInv
  <2> QED
    BY <2>1 DEF ToolsInv
<1> QED
  BY <1>1, ToolsInvariant, PTL

-----------------------------------------------------------------------------
(***************************************************************************)
(* The code graph                                                          *)
(*                                                                         *)
(* The table of commands may hold anything; what is returned comes from    *)
(* processes that were started without it.                                 *)
(***************************************************************************)
OfEachCall(f) == f = [c \in GraphCalls |-> f[c]]

CodeGraphInv ==
  /\ OfEachCall(query) /\ OfEachCall(at) /\ OfEachCall(asked) /\ OfEachCall(reply)
  /\ \A c \in GraphCalls :
       /\ at[c] = "new" => asked[c] = <<>> /\ reply[c] = NoReply
       /\ at[c] = "direct" /\ asked[c] # <<>> => asked[c] = F(c).words
       /\ reply[c].is = "results" => reply[c].by = F(c).words

\* A call that has begun keeps its query, and no other call's is changed.
LEMMA OthersKeepInv ==
  ASSUME CodeGraphInv, NEW c \in GraphCalls,
         \E q : query' = [query EXCEPT ![c] = q],
         \E a : at' = [at EXCEPT ![c] = a],
         \E w : asked' = [asked EXCEPT ![c] = w],
         \E r : reply' = [reply EXCEPT ![c] = r],
         at'[c] # "new",
         at'[c] = "direct" /\ asked'[c] # <<>> => asked'[c] = F(c)'.words,
         reply'[c].is = "results" => reply'[c].by = F(c)'.words
  PROVE  CodeGraphInv'
<1>1. /\ DOMAIN query = GraphCalls /\ DOMAIN at = GraphCalls
      /\ DOMAIN asked = GraphCalls /\ DOMAIN reply = GraphCalls
  BY DEF CodeGraphInv, OfEachCall
<1>2. OfEachCall(query') /\ OfEachCall(at')
  BY <1>1 DEF OfEachCall
<1>3. OfEachCall(asked') /\ OfEachCall(reply')
  BY <1>1 DEF OfEachCall
<1>4. ASSUME NEW e \in GraphCalls, e # c
      PROVE  /\ query'[e] = query[e] /\ at'[e] = at[e] /\ asked'[e] = asked[e]
             /\ reply'[e] = reply[e] /\ F(e)' = F(e)
  BY <1>1, <1>4 DEF F
<1> QED
  BY <1>1, <1>2, <1>3, <1>4 DEF CodeGraphInv

\* While a call is on its way, or when it ends without results.
LEMMA EndsKeepsInv ==
  ASSUME CodeGraphInv, NEW c \in GraphCalls,
         \E q : query' = [query EXCEPT ![c] = q],
         \E w : asked' = [asked EXCEPT ![c] = w],
         NEW is, NEW by, Ends(c, is, by), is = "results" => by = F(c)'.words
  PROVE  CodeGraphInv'
<1>1. /\ at'[c] = "ended" /\ reply'[c] = [is |-> is, by |-> by]
      /\ at' = [at EXCEPT ![c] = "ended"]
      /\ reply' = [reply EXCEPT ![c] = [is |-> is, by |-> by]]
  BY DEF Ends, CodeGraphInv, OfEachCall
<1>2. reply'[c].is = is /\ reply'[c].by = by
  BY <1>1
<1> QED
  BY <1>1, <1>2, OthersKeepInv

\* Every step keeps the invariant.
THEOREM CodeGraphInvariant == CodeGraphSpec => []CodeGraphInv
<1>1. CodeGraphInit => CodeGraphInv
  <2> SUFFICES ASSUME CodeGraphInit
               PROVE  CodeGraphInv
    OBVIOUS
  <2>1. OfEachCall(query) /\ OfEachCall(at) /\ OfEachCall(asked) /\ OfEachCall(reply)
    BY DEF CodeGraphInit, OfEachCall
  <2>2. \A c \in GraphCalls : at[c] = "new" /\ asked[c] = <<>> /\ reply[c] = NoReply
    BY DEF CodeGraphInit
  <2> QED
    BY <2>1, <2>2 DEF CodeGraphInv, NoReply
<1>2. CodeGraphInv /\ [CodeGraphNext]_codeGraphVars => CodeGraphInv'
  <2> SUFFICES ASSUME CodeGraphInv, [CodeGraphNext]_codeGraphVars
               PROVE  CodeGraphInv'
    OBVIOUS
  <2>0. /\ \A c \in GraphCalls : query = [query EXCEPT ![c] = query[c]]
        /\ \A c \in GraphCalls : asked = [asked EXCEPT ![c] = asked[c]]
        /\ \A c \in GraphCalls : reply = [reply EXCEPT ![c] = reply[c]]
        /\ \A c \in GraphCalls : at = [at EXCEPT ![c] = at[c]]
    BY DEF CodeGraphInv, OfEachCall
  <2>1. ASSUME NEW c \in GraphCalls, TakesNoLimit(c) PROVE CodeGraphInv'
    BY <2>0, <2>1, EndsKeepsInv DEF TakesNoLimit
  <2>2. ASSUME NEW c \in GraphCalls, NotInstalled(c) PROVE CodeGraphInv'
    BY <2>0, <2>2, EndsKeepsInv DEF NotInstalled
  <2>3. ASSUME NEW c \in GraphCalls, Refuse(c) PROVE CodeGraphInv'
    <3>1. PICK q \in Queries[c] : query' = [query EXCEPT ![c] = q] /\ Ends(c, Refused(q), <<>>)
      BY <2>3 DEF Refuse
    <3>2. Refused(q) # "results" /\ asked' = asked
      BY <2>3 DEF Refuse, Refused
    <3> QED
      BY <2>0, <3>1, <3>2, EndsKeepsInv
  <2>4. ASSUME NEW c \in GraphCalls, Ask(c) PROVE CodeGraphInv'
    <3>1. \E q : query' = [query EXCEPT ![c] = q]
      BY <2>4 DEF Ask
    <3>2. \E a \in {"direct", "mapped"} : at' = [at EXCEPT ![c] = a]
      BY <2>4 DEF Ask
    <3>3. asked[c] = <<>> /\ reply[c] = NoReply /\ asked' = asked /\ reply' = reply
      BY <2>4 DEF Ask, CodeGraphInv
    <3>4. NoReply.is # "results" /\ at'[c] # "new"
      BY <3>2 DEF NoReply, CodeGraphInv, OfEachCall
    <3> QED
      BY <2>0, <3>1, <3>2, <3>3, <3>4, OthersKeepInv
  <2>5. ASSUME NEW c \in GraphCalls, StartProcess(c) PROVE CodeGraphInv'
    <3>1. /\ asked' = [asked EXCEPT ![c] = IF at[c] = "direct" THEN F(c).words
                                           ELSE commands[F(c).method]]
          /\ query' = query /\ at' = at /\ reply' = reply /\ at[c] # "new"
      BY <2>5 DEF StartProcess
    <3>2. F(c)' = F(c)
      BY <3>1 DEF F
    <3>3. query' = [query EXCEPT ![c] = query[c]]
      BY <2>0, <3>1
    <3>4. at' = [at EXCEPT ![c] = at[c]] /\ reply' = [reply EXCEPT ![c] = reply[c]]
      BY <2>0, <3>1
    <3>5. at'[c] = "direct" => asked'[c] = F(c)'.words
      BY <3>1, <3>2 DEF CodeGraphInv, OfEachCall
    <3>6. reply'[c].is = "results" => reply'[c].by = F(c)'.words
      BY <3>1, <3>2 DEF CodeGraphInv
    <3> QED
      BY <3>1, <3>3, <3>4, <3>5, <3>6, OthersKeepInv
  <2>6. ASSUME NEW c \in GraphCalls, MappedAnswers(c) PROVE CodeGraphInv'
    BY <2>0, <2>6, EndsKeepsInv DEF MappedAnswers, Wrapped
  <2>7. ASSUME NEW c \in GraphCalls, MappedFails(c) PROVE CodeGraphInv'
    <3>1. /\ asked' = [asked EXCEPT ![c] = <<>>] /\ at' = [at EXCEPT ![c] = "direct"]
          /\ query' = query /\ reply' = reply
      BY <2>7 DEF MappedFails
    <3>2. F(c)' = F(c)
      BY <3>1 DEF F
    <3>3. query' = [query EXCEPT ![c] = query[c]] /\ reply' = [reply EXCEPT ![c] = reply[c]]
      BY <2>0, <3>1
    <3>4. at'[c] = "direct" /\ asked'[c] = <<>>
      BY <3>1 DEF CodeGraphInv, OfEachCall
    <3>5. reply'[c].is = "results" => reply'[c].by = F(c)'.words
      BY <3>1, <3>2 DEF CodeGraphInv
    <3> QED
      BY <3>1, <3>3, <3>4, <3>5, OthersKeepInv
  <2>8. ASSUME NEW c \in GraphCalls, DirectAnswers(c) PROVE CodeGraphInv'
    <3>1. /\ asked' = [asked EXCEPT ![c] = <<>>] /\ query' = query
          /\ asked[c] = F(c).words
      BY <2>8 DEF DirectAnswers, CodeGraphInv
    <3>2. F(c)' = F(c)
      BY <3>1 DEF F
    <3>3. \/ Ends(c, "results", asked[c]) \/ Ends(c, "nothing", <<>>) \/ Ends(c, "raised", <<>>)
      BY <2>8 DEF DirectAnswers, Returns
    <3>4. /\ \E q : query' = [query EXCEPT ![c] = q]
          /\ \E w : asked' = [asked EXCEPT ![c] = w]
      <4>1. query' = [query EXCEPT ![c] = query[c]]
        BY <2>0, <3>1
      <4> QED
        BY <3>1, <4>1
    <3>5. CASE Ends(c, "results", asked[c])
      BY <3>1, <3>2, <3>4, <3>5, EndsKeepsInv
    <3>6. CASE Ends(c, "nothing", <<>>)
      BY <3>4, <3>6, EndsKeepsInv
    <3>7. CASE Ends(c, "raised", <<>>)
      BY <3>4, <3>7, EndsKeepsInv
    <3> QED
      BY <3>3, <3>5, <3>6, <3>7
  <2>9. ASSUME NEW c \in GraphCalls, DirectFails(c) PROVE CodeGraphInv'
    <3>1. /\ Ends(c, "error", <<>>) \/ Ends(c, "nothing", <<>>)
          /\ \E q : query' = [query EXCEPT ![c] = q]
          /\ \E w : asked' = [asked EXCEPT ![c] = w]
      <4>1. Ends(c, "error", <<>>) \/ Ends(c, "nothing", <<>>)
        BY <2>9 DEF DirectFails
      <4>2. query' = query /\ asked' = [asked EXCEPT ![c] = <<>>]
        BY <2>9 DEF DirectFails
      <4>3. query' = [query EXCEPT ![c] = query[c]]
        BY <2>0, <4>2
      <4> QED
        BY <4>1, <4>2, <4>3
    <3> QED
      BY <3>1, EndsKeepsInv
  <2>10. CASE UNCHANGED codeGraphVars
    BY <2>10 DEF codeGraphVars, CodeGraphInv, F
  <2> QED
    BY <2>1, <2>2, <2>3, <2>4, <2>5, <2>6, <2>7, <2>8, <2>9, <2>10 DEF CodeGraphNext
<1> QED
  BY <1>1, <1>2, PTL DEF CodeGraphSpec

\* Whatever a method returns as found was found by the command it stands for:
\* the words that other calls have left in the table never reach a caller.
THEOREM ResultsAreOwnHolds == CodeGraphSpec => []ResultsAreOwn
<1>1. CodeGraphInv => ResultsAreOwn
  BY DEF CodeGraphInv, ResultsAreOwn
<1> QED
  BY <1>1, CodeGraphInvariant, PTL

-----------------------------------------------------------------------------
(***************************************************************************)
(* Pages in the code graph                                                 *)
(*                                                                         *)
(* The current page of a request is one whose content the graph has not    *)
(* got: of a tree because it has only just been visited, of a space        *)
(* because the list names no page twice.                                   *)
(***************************************************************************)
LEMMA MaxPagesIsNat == MaxPages \in Nat
BY TwoPowers, GraphPagesAssumption DEF MaxPages

GotPages == {contents[i] : i \in DOMAIN contents}

HasPage == doing \in {"fetching", "entity", "content"}

Once(list) == \A i, k \in 1..Len(list) : i # k => list[i] # list[k]

TreeInv ==
  /\ Cardinality(visited) <= MaxPages
  /\ GotPages \subseteq visited
  /\ HasPage => Head(queue) \in visited \ GotPages

SpaceInv ==
  /\ doing = "listing" => contents = <<>>
  /\ HasPage => Once(queue) /\ \A i \in 1..Len(queue) : queue[i] \notin GotPages

PagesInv ==
  /\ queue \in Seq(Pages) /\ visited \in SUBSET Pages /\ IsFiniteSet(visited)
  /\ contents \in Seq(Pages) /\ IsFiniteSet(GotPages) /\ pages = Cardinality(GotPages)
  /\ route \in {"none", "git", "zip", "markdown", "url", "page", "tree", "space"}
  /\ HasPage \/ doing = "downloading" => queue # <<>>
  /\ doing = "listing" => route = "space"
  /\ doing = "downloading" => route = "url"
  /\ doing = "children" => route = "tree" /\ queue # <<>>
  /\ route = "none" <=> doing = "new"
  /\ route = "none" => contents = <<>> /\ visited = {}
  /\ route = "tree" => TreeInv
  /\ route = "space" => SpaceInv
  /\ route \notin {"tree", "space"} /\ (HasPage \/ doing = "downloading") => contents = <<>>

LEMMA NothingGot == contents = <<>> => GotPages = {}
<1>1. contents = <<>> => DOMAIN contents = {}
  OBVIOUS
<1> QED
  BY <1>1 DEF GotPages

\* A page is visited only if it was not before.
LEMMA UnvisitedIsNew ==
  ASSUME NEW q \in Seq(Pages)
  PROVE  /\ Unvisited(q) \in Seq(Pages)
         /\ Unvisited(q) # <<>> => Head(Unvisited(q)) \in Pages \ visited
<1> DEFINE new == {i \in DOMAIN q : q[i] \notin visited}
<1>1. CASE new = {}
  BY <1>1 DEF Unvisited
<1>2. CASE new # {}
  <2>1. new \in SUBSET Nat /\ new \subseteq 1..Len(q)
    OBVIOUS
  <2> DEFINE i == CHOOSE j \in new : \A k \in new : j <= k
  <2>2. i \in new
    BY <1>2, <2>1, LeastNatural
  <2>3. Unvisited(q) = SubSeq(q, i, Len(q))
    BY <1>2 DEF Unvisited
  <2> HIDE DEF i
  <2>4. i \in 1..Len(q) /\ q[i] \in Pages \ visited
    BY <2>1, <2>2
  <2>5. /\ SubSeq(q, i, Len(q)) \in Seq(Pages)
        /\ Len(SubSeq(q, i, Len(q))) = Len(q) - i + 1
        /\ SubSeq(q, i, Len(q))[1] = q[i]
    BY <2>4, SubSeqProperties
  <2> HIDE DEF new
  <2> QED
    BY <2>3, <2>4, <2>5
<1> QED
  BY <1>1, <1>2

\* A round of the loop over a tree visits one page more at most.
LEMMA TreeRoundInv ==
  ASSUME PagesInv, route' = "tree", NEW q \in Seq(Pages), TreeRound(q),
         route \in {"none", "tree"}, contents' = contents, pages' = pages
  PROVE  PagesInv'
<1> DEFINE rest == IF Cardinality(visited) < MaxPages THEN Unvisited(q) ELSE <<>>
<1>1. /\ queue' = rest /\ doing' = (IF rest = <<>> THEN "ended" ELSE "fetching")
      /\ visited' = IF rest = <<>> THEN visited ELSE visited \union {Head(rest)}
  BY DEF TreeRound, RoundOf
<1>2. /\ rest \in Seq(Pages)
      /\ rest # <<>> => Head(rest) \in Pages \ visited /\ Cardinality(visited) < MaxPages
  <2>1. CASE Cardinality(visited) < MaxPages
    BY <2>1, UnvisitedIsNew
  <2>2. CASE ~ (Cardinality(visited) < MaxPages)
    <3>1. rest = <<>>
      BY <2>2
    <3> HIDE DEF rest
    <3>2. rest \in Seq(Pages)
      BY <3>1, EmptySeq
    <3> QED
      BY <3>1, <3>2
  <2> QED
    BY <2>1, <2>2
<1> HIDE DEF rest
<1>3. GotPages' = GotPages
  BY DEF GotPages
<1>4. /\ IsFiniteSet(visited) /\ GotPages \subseteq visited
      /\ Cardinality(visited) \in Nat /\ Cardinality(visited) <= MaxPages
  <2>1. IsFiniteSet(visited) /\ Cardinality(visited) \in Nat
    BY FS_CardinalityType DEF PagesInv
  <2>2. CASE route = "none"
    <3>1. contents = <<>> /\ visited = {} /\ IsFiniteSet(visited)
      BY <2>2 DEF PagesInv
    <3>2. GotPages = {}
      BY <3>1, NothingGot
    <3>3. Cardinality(visited) = 0
      BY <3>1, FS_EmptySet
    <3>4. Cardinality(visited) <= MaxPages
      BY <3>3, MaxPagesIsNat
    <3> QED
      BY <3>1, <3>2, <3>3, <3>4
  <2>3. CASE route = "tree"
    BY <2>1, <2>3 DEF PagesInv, TreeInv
  <2> QED
    BY <2>2, <2>3
<1>5. /\ IsFiniteSet(visited') /\ visited' \in SUBSET Pages
      /\ Cardinality(visited') <= MaxPages
  <2>1. CASE rest = <<>>
    BY <1>1, <1>4, <2>1 DEF PagesInv
  <2>2. CASE rest # <<>>
    <3>1. /\ IsFiniteSet(visited \cup {Head(rest)})
          /\ Cardinality(visited \cup {Head(rest)}) = Cardinality(visited) + 1
      BY <1>2, <1>4, <2>2, FS_AddElement
    <3> QED
      <4>1. visited' = visited \cup {Head(rest)} /\ Head(rest) \in Pages
        BY <1>1, <1>2, <2>2
      <4>2. Cardinality(visited) < MaxPages /\ Cardinality(visited) \in Nat /\ MaxPages \in Nat
        BY <1>2, <1>4, <2>2, MaxPagesIsNat
      <4>3. visited' \in SUBSET Pages
        BY <4>1 DEF PagesInv
      <4>4. Cardinality(visited') <= MaxPages
        BY <3>1, <4>1, <4>2
      <4> QED
        BY <3>1, <4>1, <4>3, <4>4
  <2> QED
    BY <2>1, <2>2
<1>6. TreeInv'
  BY <1>1, <1>2, <1>3, <1>4, <1>5 DEF TreeInv, HasPage
<1> QED
  BY <1>1, <1>2, <1>3, <1>5, <1>6 DEF PagesInv, HasPage

\* Behind the first page of a list that names none twice are others.
LEMMA TailIsOnce ==
  ASSUME NEW S, NEW list \in Seq(S), list # <<>>, Once(list)
  PROVE  /\ Tail(list) \in Seq(S) /\ Once(Tail(list))
         /\ \A i \in 1..Len(Tail(list)) :
              \E k \in 1..Len(list) : Tail(list)[i] = list[k] /\ list[k] # Head(list)
<1>1. /\ Tail(list) \in Seq(S) /\ Len(Tail(list)) = Len(list) - 1 /\ Len(list) \in Nat \ {0}
      /\ \A i \in 1..Len(Tail(list)) : Tail(list)[i] = list[i + 1]
  BY HeadTailProperties, EmptySeq
<1>2. Once(Tail(list))
  BY <1>1 DEF Once
<1>3. ASSUME NEW i \in 1..Len(Tail(list))
      PROVE  \E k \in 1..Len(list) : Tail(list)[i] = list[k] /\ list[k] # Head(list)
  <2>1. i + 1 \in 1..Len(list) /\ i + 1 # 1 /\ 1 \in 1..Len(list)
    BY <1>1
  <2>2. list[i + 1] # list[1]
    BY <2>1 DEF Once
  <2>3. Head(list) = list[1]
    BY <1>1
  <2> QED
    BY <1>1, <2>1, <2>2, <2>3
<1> QED
  BY <1>1, <1>2, <1>3

\* The end of a page, whose content the graph may have got.
LEMMA AfterPageInv ==
  ASSUME PagesInv, HasPage, AfterPage, UNCHANGED <<route, visited>>,
         \/ UNCHANGED <<pages, contents>>
         \/ pages' = pages + 1 /\ contents' = Append(contents, Head(queue))
  PROVE  PagesInv'
<1>1. /\ queue \in Seq(Pages) /\ queue # <<>> /\ Head(queue) \in Pages /\ Tail(queue) \in Seq(Pages)
      /\ contents \in Seq(Pages) /\ IsFiniteSet(GotPages) /\ pages = Cardinality(GotPages) /\ pages \in Nat
      /\ IsFiniteSet(visited) /\ visited \in SUBSET Pages
  BY HeadTailProperties, FS_CardinalityType DEF PagesInv
<1>2. Head(queue) \notin GotPages
  <2>1. GotPages = {} \/ route \in {"tree", "space"}
    <3>1. contents = <<>> \/ route \in {"tree", "space"}
      BY DEF PagesInv
    <3> QED
      BY <3>1, NothingGot
  <2>2. CASE route = "space"
    <3>1. queue[1] \notin GotPages
      BY <1>1, <2>2, EmptySeq DEF PagesInv, SpaceInv
    <3> QED
      BY <1>1, <3>1
  <2> QED
    BY <2>1, <2>2 DEF PagesInv, TreeInv
<1>3. /\ contents' \in Seq(Pages) /\ IsFiniteSet(GotPages') /\ pages' = Cardinality(GotPages')
      /\ GotPages' \subseteq GotPages \cup {Head(queue)}
  <2>1. CASE UNCHANGED <<pages, contents>>
    BY <1>1, <2>1 DEF GotPages
  <2>2. CASE pages' = pages + 1 /\ contents' = Append(contents, Head(queue))
    <3>1. GotPages' = GotPages \cup {Head(queue)}
      <4>1. /\ DOMAIN contents' = 1..Len(contents) + 1 /\ DOMAIN contents = 1..Len(contents)
            /\ Len(contents) \in Nat
            /\ \A i \in 1..Len(contents) : contents'[i] = contents[i]
            /\ contents'[Len(contents) + 1] = Head(queue)
        BY <1>1, <2>2
      <4> QED
        BY <4>1 DEF GotPages
    <3>2. IsFiniteSet(GotPages') /\ Cardinality(GotPages') = pages + 1
      BY <1>1, <1>2, <3>1, FS_AddElement
    <3> QED
      BY <1>1, <2>2, <3>1, <3>2
  <2> QED
    BY <2>1, <2>2
<1>4. CASE route = "tree"
  <2>1. doing' = "children" /\ queue' = queue
    BY <1>4 DEF AfterPage
  <2>2. TreeInv /\ TreeInv'
    BY <1>3, <1>4, <2>1 DEF PagesInv, TreeInv, HasPage
  <2> QED
    BY <1>1, <1>3, <1>4, <2>1, <2>2 DEF PagesInv, HasPage
<1>5. CASE route = "space"
  <2>1. queue' = Tail(queue) /\ doing' = IF Tail(queue) = <<>> THEN "ended" ELSE "fetching"
    BY <1>5 DEF AfterPage, RoundOf
  <2>2. /\ Once(Tail(queue))
        /\ \A i \in 1..Len(Tail(queue)) : Tail(queue)[i] \notin GotPages'
    BY <1>1, <1>3, <1>5, TailIsOnce DEF PagesInv, SpaceInv
  <2>3. SpaceInv'
    BY <2>1, <2>2 DEF SpaceInv
  <2> QED
    BY <1>1, <1>3, <1>5, <2>1, <2>3 DEF PagesInv, HasPage
<1>6. CASE route \notin {"tree", "space"}
  <2>1. doing' = "ended" /\ queue' = queue
    BY <1>6 DEF AfterPage
  <2>2. route # "none"
    BY <1>6 DEF PagesInv, HasPage
  <2> QED
    BY <1>1, <1>3, <1>6, <2>1, <2>2 DEF PagesInv, HasPage
<1> QED
  BY <1>4, <1>5, <1>6

\* Every step keeps the invariant.
THEOREM PagesInvariant == PagesSpec => []PagesInv
<1>1. PagesInit => PagesInv
  <2> SUFFICES ASSUME PagesInit
               PROVE  PagesInv
    OBVIOUS
  <2>1. contents = <<>>
    BY DEF PagesInit
  <2>2. GotPages = {} /\ Cardinality(GotPages) = 0
    BY <2>1, NothingGot, FS_EmptySet
  <2>3. IsFiniteSet(GotPages) /\ IsFiniteSet(visited)
    BY <2>2, FS_EmptySet DEF PagesInit
  <2>4. HasPage = FALSE
    BY DEF PagesInit, HasPage
  <2> QED
    BY <2>1, <2>2, <2>3, <2>4 DEF PagesInit, PagesInv
<1>2. PagesInv /\ [PagesNext]_pagesVars => PagesInv'
  <2> SUFFICES ASSUME PagesInv, [PagesNext]_pagesVars
               PROVE  PagesInv'
    OBVIOUS
  <2>1. ASSUME NEW kind \in {"git", "zip", "markdown", "url", "page"},
               NEW does \in {"content", "ended", "downloading", "fetching"},
               NEW p \in Pages, Single(kind, does, p), does = "downloading" => kind = "url"
        PROVE  PagesInv'
    <3>1. /\ route' = kind /\ doing' = does /\ queue' = <<p>> /\ contents' = contents
          /\ visited' = visited /\ pages' = pages /\ contents = <<>> /\ GotPages' = GotPages
      BY <2>1 DEF Single, PagesInv, GotPages
    <3>2. queue' \in Seq(Pages) /\ queue' # <<>>
      BY <3>1
    <3> QED
      BY <2>1, <3>1, <3>2 DEF PagesInv, HasPage
  <2>2. CASE IndexGitRepository \/ IndexZipArchive \/ IndexMarkdownContent \/ IndexFromUrl
             \/ IndexConfluencePage
    BY <2>1, <2>2 DEF IndexGitRepository, IndexZipArchive, IndexMarkdownContent, IndexFromUrl,
                      IndexConfluencePage
  <2>3. CASE Downloaded
    <3>1. route = "url"
      BY <2>3 DEF Downloaded, PagesInv
    <3>2. /\ UNCHANGED <<route, queue, visited, pages, contents>> /\ queue # <<>> /\ contents = <<>>
          /\ doing' \in {"content", "ended"} /\ GotPages' = GotPages
      BY <2>3, <3>1 DEF Downloaded, PagesInv, GotPages
    <3> QED
      BY <3>1, <3>2 DEF PagesInv, HasPage
  <2>4. CASE IndexTree
    <3>1. PICK p \in Pages : TreeRound(<<p>>)
      BY <2>4 DEF IndexTree
    <3>2. <<p>> \in Seq(Pages)
      OBVIOUS
    <3> QED
      BY <2>4, <3>1, <3>2, TreeRoundInv DEF IndexTree
  <2>5. CASE IndexSpace
    BY <2>5 DEF IndexSpace, PagesInv, SpaceInv, HasPage, GotPages
  <2>6. CASE Listed
    <3>1. PICK n \in 0..Cardinality(Pages) : \E list \in [1..n -> Pages] :
             /\ \A i, k \in 1..n : i # k => list[i] # list[k]
             /\ RoundOf(list)
      BY <2>6 DEF Listed
    <3>2. PICK list \in [1..n -> Pages] :
             /\ \A i, k \in 1..n : i # k => list[i] # list[k]
             /\ RoundOf(list)
      BY <3>1
    <3>3. list \in Seq(Pages) /\ Len(list) = n
      BY SeqDef
    <3>4. /\ route' = route /\ visited' = visited /\ pages' = pages /\ contents' = contents
          /\ queue' = list /\ doing' = (IF list = <<>> THEN "ended" ELSE "fetching")
          /\ route = "space" /\ contents = <<>> /\ GotPages' = {} /\ GotPages = {}
      BY <2>6, <3>2 DEF Listed, RoundOf, PagesInv, SpaceInv, GotPages
    <3>5. Once(list)
      BY <3>2, <3>3 DEF Once
    <3> QED
      BY <3>3, <3>4, <3>5 DEF PagesInv, SpaceInv, HasPage
  <2>7. CASE Children
    <3>1. PICK n \in 0..2 : \E list \in [1..n -> Pages \ visited] : TreeRound(Tail(queue) \o list)
      BY <2>7 DEF Children
    <3>2. PICK list \in [1..n -> Pages \ visited] : TreeRound(Tail(queue) \o list)
      BY <3>1
    <3>3. list \in Seq(Pages)
      BY SeqDef
    <3>4. Tail(queue) \in Seq(Pages)
      BY <2>7, HeadTailProperties DEF Children, PagesInv
    <3>5. Tail(queue) \o list \in Seq(Pages)
      BY <3>3, <3>4
    <3> QED
      BY <2>7, <3>2, <3>5, TreeRoundInv DEF Children, PagesInv
  <2>8. CASE PageFetched \/ IndexEntity
    <3>1. /\ HasPage /\ HasPage' /\ UNCHANGED <<route, queue, visited, pages, contents>>
          /\ doing # "new" /\ doing' \notin {"new", "listing", "downloading", "children"}
      BY <2>8 DEF PageFetched, IndexEntity, HasPage
    <3>2. GotPages' = GotPages /\ Once(queue)' = Once(queue)
      BY <3>1 DEF GotPages, Once
    <3>3. route = "tree" => TreeInv'
      BY <3>1, <3>2 DEF PagesInv, TreeInv
    <3>4. route = "space" => SpaceInv'
      BY <3>1, <3>2 DEF PagesInv, SpaceInv
    <3> QED
      BY <3>1, <3>2, <3>3, <3>4 DEF PagesInv
  <2>9. CASE PageNotFetched
    BY <2>9, AfterPageInv DEF PageNotFetched, HasPage
  <2>10. CASE IndexContent
    BY <2>10, AfterPageInv DEF IndexContent, HasPage
  <2>11. CASE ContentFails
    BY <2>11, AfterPageInv DEF ContentFails, HasPage
  <2>12. CASE UNCHANGED pagesVars
    BY <2>12 DEF pagesVars, PagesInv, TreeInv, SpaceInv, HasPage, GotPages
  <2> QED
    BY <2>2, <2>3, <2>4, <2>5, <2>6, <2>7, <2>8, <2>9, <2>10, <2>11, <2>12 DEF PagesNext
<1> QED
  BY <1>1, <1>2, PTL DEF PagesSpec

\* However pages are moved while a tree is indexed, no page is counted twice, and
\* no more than 2 ** depth are: /confluence/tree, /confluence/space.
THEOREM PagesAreCountedOnceHolds == PagesSpec => []PagesAreCountedOnce
<1>1. PagesInv => PagesAreCountedOnce
  <2> SUFFICES ASSUME PagesInv
               PROVE  pages = Cardinality(GotPages) /\ (route = "tree" => pages <= MaxPages)
    BY DEF PagesAreCountedOnce, GotPages
  <2>1. pages = Cardinality(GotPages) /\ pages \in Nat
    BY FS_CardinalityType DEF PagesInv
  <2>2. CASE route = "tree"
    <3>1. Cardinality(GotPages) <= Cardinality(visited) /\ Cardinality(visited) \in Nat
      BY <2>2, FS_Subset, FS_CardinalityType DEF PagesInv, TreeInv
    <3> QED
      BY <2>1, <2>2, <3>1, MaxPagesIsNat DEF PagesInv, TreeInv
  <2> QED
    BY <2>1, <2>2
<1> QED
  BY <1>1, PagesInvariant, PTL

-----------------------------------------------------------------------------
(***************************************************************************)
(* Outside sources                                                         *)
(*                                                                         *)
(* A call of ingest_all is at one source at a time, whose job is the only  *)
(* one of its jobs that may be on its way.  All pipelines do one of two    *)
(* things to a job: it asks, or it ends, and failing takes entries.        *)
(***************************************************************************)
OnItsWay(j) == stage[j] \in {"fetching", "token"}

Reached(i) == {SourcesOf[i][k] : k \in 1..(turn[i] - 1)}

ReportInv(i, s) ==
  /\ OnItsWay(<<i, s>>) => AtWork(i) /\ Source(i) = s
  /\ s \in DOMAIN results[i] =>
       /\ results[i][s] = stage[<<i, s>>]
       /\ results[i][s] = "failed" => got[<<i, s>>] = "entries"

SourcesInv ==
  /\ turn \in [Ingests -> Nat] /\ \A i \in Ingests : turn[i] <= Len(SourcesOf[i]) + 1
  /\ DOMAIN results = Ingests /\ DOMAIN stage = SourceJobIds /\ DOMAIN got = SourceJobIds
  /\ \A i \in Ingests : DOMAIN results[i] = Reached(i)
  /\ \A i \in Ingests : \A s \in DOMAIN FunctionOf : ReportInv(i, s)

Ending(j) ==
  \E status \in {"completed", "failed"}, entries \in {"nothing", "entries"} :
    JobEnds(j, status, entries) /\ (status = "failed" => entries = "entries")

Moves(j) ==
  /\ Begins(j) \/ OnItsWay(j)
  /\ \/ \E now \in {"fetching", "token"} : stage' = [stage EXCEPT ![j] = now] /\ UNCHANGED <<got, turn, results>>
     \/ Ending(j)

LEMMA AsksIfMoves ==
  ASSUME NEW j, NEW condition, AsksIf(j, condition)
  PROVE  Moves(j)
<1>1. JobAsks(j) \/ Nothing(j)
  BY DEF AsksIf
<1> QED
  BY <1>1 DEF AsksIf, JobAsks, Nothing, Moves, Ending

LEMMA GetsMoves ==
  ASSUME NEW j, NEW statuses \in SUBSET {"completed", "failed"},
         Gets(j, statuses) \/ Finds(j, statuses)
  PROVE  Moves(j)
<1>1. Begins(j) \/ OnItsWay(j)
  BY DEF Gets, Finds, OnItsWay
<1>2. Nothing(j) \/ \E status \in statuses : JobEnds(j, status, "entries")
  BY DEF Gets, Finds
<1> QED
  BY <1>1, <1>2 DEF Nothing, Moves, Ending

\* What each of the pipelines does is one of these.
LEMMA IngestMoves ==
  ASSUME NEW j, Ingest(j)
  PROVE  Moves(j)
<1>1. {"completed", "failed"} \in SUBSET {"completed", "failed"}
      /\ {"completed"} \in SUBSET {"completed", "failed"}
      /\ {"failed"} \in SUBSET {"completed", "failed"}
  OBVIOUS
<1>2. CASE IngestJira(j) \/ IngestPrometheus(j) \/ IngestElasticsearch(j) \/ IngestLoki(j)
  BY <1>1, <1>2, AsksIfMoves, GetsMoves
     DEF IngestJira, JiraIssues, IngestPrometheus, PrometheusRange, IngestElasticsearch,
         ElasticsearchHits, IngestLoki, LokiStreams
<1>3. CASE IngestGitHub(j)
  BY <1>1, <1>3, AsksIfMoves, GetsMoves DEF IngestGitHub, GitHubIssues
<1>4. CASE IngestStackOverflow(j) \/ IngestForum(j)
  BY <1>1, <1>4, AsksIfMoves, GetsMoves
     DEF IngestStackOverflow, StackOverflowQuestions, IngestForum, ForumPosts
<1>5. CASE IngestReddit(j)
  <2>1. CASE RedditToken(j)
    <3>1. CASE stage[j] = "token"
      BY <2>1, <3>1 DEF RedditToken, JobAsks, Nothing, Moves, Ending, OnItsWay, Begins
    <3>2. CASE stage[j] # "token"
      BY <2>1, <3>2 DEF RedditToken, Moves
    <3> QED
      BY <3>1, <3>2
  <2> QED
    BY <1>1, <1>5, <2>1, AsksIfMoves, GetsMoves DEF IngestReddit, RedditSubmissions
<1>6. CASE IngestConfluenceDiagrams(j) \/ IngestGitHubDiagrams(j) \/ IngestLocalDiagrams(j)
  BY <1>1, <1>6, AsksIfMoves, GetsMoves
     DEF IngestConfluenceDiagrams, ConfluenceDiagrams, IngestGitHubDiagrams, GitHubDiagrams,
         IngestLocalDiagrams, LocalDiagrams
<1>7. CASE IngestJiraRequirements(j) \/ IngestConfluenceRequirements(j) \/ IngestLocalRequirements(j)
  BY <1>1, <1>7, AsksIfMoves, GetsMoves
     DEF IngestJiraRequirements, JiraRequirements, IngestConfluenceRequirements,
         ConfluenceRequirements, IngestLocalRequirements, LocalRequirements
<1> QED
  BY <1>2, <1>3, <1>4, <1>5, <1>6, <1>7 DEF Ingest

\* The source a call is at has not been reported, as no source is named twice.
LEMMA SourceIsNew ==
  ASSUME SourcesInv, NEW i \in Ingests, AtWork(i)
  PROVE  Source(i) \notin Reached(i)
<1>1. /\ turn[i] \in 1..Len(SourcesOf[i]) /\ SourcesOf[i] \in Seq(STRING)
      /\ \A a, b \in 1..Len(SourcesOf[i]) : SourcesOf[i][a] = SourcesOf[i][b] => a = b
  BY SourceAssumption DEF SourcesInv, AtWork, Returned, IsInjective
<1> QED
  BY <1>1 DEF Source, Reached

\* The report of a source, and what it is that is reported.
LEMMA ReportKeepsInv ==
  ASSUME SourcesInv, NEW i \in Ingests, AtWork(i), NEW result, Report(i, result),
         DOMAIN stage' = SourceJobIds, DOMAIN got' = SourceJobIds,
         \A e \in Ingests, s \in DOMAIN FunctionOf :
           ~ (e = i /\ s = Source(i)) =>
             stage'[<<e, s>>] = stage[<<e, s>>] /\ got'[<<e, s>>] = got[<<e, s>>],
         Source(i) \in DOMAIN FunctionOf =>
           /\ stage'[<<i, Source(i)>>] = result /\ result \notin {"fetching", "token"}
           /\ result = "failed" => got'[<<i, Source(i)>>] = "entries"
  PROVE  SourcesInv'
<1>1. /\ turn[i] \in 1..Len(SourcesOf[i]) /\ Len(SourcesOf[i]) \in Nat
      /\ turn \in [Ingests -> Nat] /\ DOMAIN results = Ingests
  BY SourceAssumption DEF SourcesInv, AtWork, Returned
<1>2. /\ turn'[i] = turn[i] + 1 /\ turn' \in [Ingests -> Nat]
      /\ DOMAIN results' = Ingests
      /\ \A e \in Ingests \ {i} : turn'[e] = turn[e] /\ results'[e] = results[e]
      /\ DOMAIN results'[i] = DOMAIN results[i] \cup {Source(i)}
      /\ results'[i][Source(i)] = result
      /\ \A s \in DOMAIN results[i] \ {Source(i)} : results'[i][s] = results[i][s]
  BY <1>1 DEF Report
<1>3. Reached(i)' = Reached(i) \cup {Source(i)}
  BY <1>1, <1>2 DEF Reached, Source
<1>4. Source(i) \notin DOMAIN results[i]
  BY SourceIsNew DEF SourcesInv
<1>5. ASSUME NEW e \in Ingests, NEW s \in DOMAIN FunctionOf
      PROVE  ReportInv(e, s)'
  <2>1. ReportInv(e, s)
    BY DEF SourcesInv
  <2>2. CASE e # i
    BY <1>2, <2>1, <2>2 DEF ReportInv, OnItsWay, AtWork, Returned, Source
  <2>3. CASE e = i /\ s = Source(i)
    BY <1>2, <2>3 DEF ReportInv, OnItsWay
  <2>4. CASE e = i /\ s # Source(i)
    <3>1. ~ OnItsWay(<<i, s>>) /\ stage'[<<i, s>>] = stage[<<i, s>>] /\ got'[<<i, s>>] = got[<<i, s>>]
      BY <2>1, <2>4 DEF ReportInv
    <3> QED
      BY <1>2, <2>1, <2>4, <3>1 DEF ReportInv, OnItsWay
  <2> QED
    BY <2>2, <2>3, <2>4
<1>6. \A e \in Ingests : DOMAIN results'[e] = Reached(e)' /\ turn'[e] <= Len(SourcesOf[e]) + 1
  <2>1. DOMAIN results'[i] = Reached(i)' /\ turn'[i] <= Len(SourcesOf[i]) + 1
    BY <1>1, <1>2, <1>3 DEF SourcesInv
  <2>2. ASSUME NEW e \in Ingests \ {i}
        PROVE  DOMAIN results'[e] = Reached(e)' /\ turn'[e] <= Len(SourcesOf[e]) + 1
    BY <1>2 DEF SourcesInv, Reached
  <2> QED
    BY <2>1, <2>2
<1> QED
  BY <1>2, <1>5, <1>6 DEF SourcesInv

LEMMA MovesKeepsInv ==
  ASSUME SourcesInv, NEW j \in SourceJobIds, Moves(j)
  PROVE  SourcesInv'
<1>1. CASE \E now \in {"fetching", "token"} :
             stage' = [stage EXCEPT ![j] = now] /\ UNCHANGED <<got, turn, results>>
  <2>1. PICK now \in {"fetching", "token"} : stage' = [stage EXCEPT ![j] = now]
    BY <1>1
  <2>2. /\ DOMAIN stage' = SourceJobIds /\ stage'[j] = now
        /\ \A k \in SourceJobIds \ {j} : stage'[k] = stage[k]
        /\ got' = got /\ turn' = turn /\ results' = results
    BY <1>1, <2>1 DEF SourcesInv
  <2>3. ASSUME NEW i \in Ingests, NEW s \in DOMAIN FunctionOf
        PROVE  ReportInv(i, s)'
    <3>1. ReportInv(i, s) /\ <<i, s>> \in SourceJobIds
      BY DEF SourcesInv, SourceJobIds
    <3>2. CASE j # <<i, s>>
      BY <2>2, <3>1, <3>2 DEF ReportInv, OnItsWay, AtWork, Returned, Source
    <3>3. CASE j = <<i, s>>
      <4>1. j \notin SourceJobs /\ j[1] = i /\ j[2] = s
        BY <3>3, SourceAssumption
      <4>2. AtWork(i) /\ Source(i) = s
        BY <3>1, <3>3, <4>1 DEF Moves, Begins, ReportInv
      <4>3. s \notin DOMAIN results[i]
        BY <4>2, SourceIsNew DEF SourcesInv
      <4> QED
        BY <2>2, <4>2, <4>3 DEF ReportInv, AtWork, Returned, Source
    <3> QED
      BY <3>2, <3>3
  <2> QED
    BY <2>2, <2>3 DEF SourcesInv, Reached
<1>2. CASE Ending(j)
  <2>1. PICK status \in {"completed", "failed"}, entries \in {"nothing", "entries"} :
          JobEnds(j, status, entries) /\ (status = "failed" => entries = "entries")
    BY <1>2 DEF Ending
  <2>2. /\ DOMAIN stage' = SourceJobIds /\ stage'[j] = status
        /\ DOMAIN got' = SourceJobIds /\ got'[j] = entries
        /\ \A k \in SourceJobIds \ {j} : stage'[k] = stage[k] /\ got'[k] = got[k]
    BY <2>1 DEF JobEnds, SourcesInv
  <2>3. \A i \in Ingests, s \in DOMAIN FunctionOf : <<i, s>> \in SourceJobIds
    BY DEF SourceJobIds
  <2>4. CASE j \in SourceJobs
    <3>1. turn' = turn /\ results' = results
      BY <2>1, <2>4 DEF JobEnds
    <3>3. ASSUME NEW i \in Ingests, NEW s \in DOMAIN FunctionOf
          PROVE  ReportInv(i, s)'
      <4>1. <<i, s>> # j /\ <<i, s>> \in SourceJobIds
        BY <2>3, <2>4, SourceAssumption
      <4>2. stage'[<<i, s>>] = stage[<<i, s>>] /\ got'[<<i, s>>] = got[<<i, s>>]
        BY <2>2, <4>1
      <4>3. ReportInv(i, s)
        BY DEF SourcesInv
      <4> QED
        BY <3>1, <4>2, <4>3 DEF ReportInv, OnItsWay, AtWork, Returned, Source
    <3> QED
      BY <2>2, <3>1, <3>3 DEF SourcesInv, Reached
  <2>5. CASE j \notin SourceJobs
    <3>1. PICK i \in Ingests, s \in DOMAIN FunctionOf : j = <<i, s>>
      BY <2>5 DEF SourceJobIds
    <3>2. AtWork(i) /\ Source(i) = s
      <4>1. ReportInv(i, s)
        BY DEF SourcesInv
      <4> QED
        BY <2>5, <3>1, <4>1 DEF Moves, Begins, ReportInv
    <3>3. Report(i, status)
      BY <2>1, <2>5, <3>1 DEF JobEnds
    <3>4. \A e \in Ingests, t \in DOMAIN FunctionOf :
            ~ (e = i /\ t = Source(i)) =>
              stage'[<<e, t>>] = stage[<<e, t>>] /\ got'[<<e, t>>] = got[<<e, t>>]
      BY <2>2, <2>3, <3>1, <3>2
    <3> QED
      BY <2>1, <2>2, <3>1, <3>2, <3>3, <3>4, ReportKeepsInv
  <2> QED
    BY <2>4, <2>5
<1> QED
  BY <1>1, <1>2 DEF Moves

\* Every step keeps the invariant.
THEOREM SourcesInvariant == SourceSpec => []SourcesInv
<1>1. SourceInit => SourcesInv
  <2> SUFFICES ASSUME SourceInit
               PROVE  SourcesInv
    OBVIOUS
  <2>1. \A i \in Ingests : turn[i] = 0 /\ DOMAIN results[i] = {} /\ Reached(i) = {}
    BY DEF SourceInit, Reached
  <2>2. \A j \in SourceJobIds : stage[j] = "new"
    BY DEF SourceInit
  <2>3. \A i \in Ingests, s \in DOMAIN FunctionOf : ReportInv(i, s)
    BY <2>1, <2>2 DEF ReportInv, OnItsWay, SourceJobIds
  <2>4. \A i \in Ingests : Len(SourcesOf[i]) \in Nat
    BY SourceAssumption
  <2> QED
    BY <2>1, <2>3, <2>4 DEF SourceInit, SourcesInv
<1>2. SourcesInv /\ [SourceNext]_sourceVars => SourcesInv'
  <2> SUFFICES ASSUME SourcesInv, [SourceNext]_sourceVars
               PROVE  SourcesInv'
    OBVIOUS
  <2>1. ASSUME NEW i \in Ingests, IngestAll(i)
        PROVE  SourcesInv'
    <3>1. /\ turn[i] = 0 /\ turn' = [turn EXCEPT ![i] = 1] /\ stage' = stage /\ got' = got
          /\ results' = results /\ turn \in [Ingests -> Nat]
      BY <2>1 DEF IngestAll, SourcesInv
    <3>2. \A e \in Ingests : Reached(e)' = Reached(e) /\ turn'[e] <= Len(SourcesOf[e]) + 1
      BY <3>1, SourceAssumption DEF SourcesInv, Reached
    <3>3. ASSUME NEW e \in Ingests, NEW s \in DOMAIN FunctionOf
          PROVE  ReportInv(e, s)'
      <4>1. ReportInv(e, s) /\ ~ AtWork(i)
        BY <3>1 DEF SourcesInv, AtWork
      <4>2. CASE e # i
        BY <3>1, <4>1, <4>2 DEF ReportInv, OnItsWay, AtWork, Returned, Source
      <4>3. CASE e = i
        BY <3>1, <4>1, <4>3 DEF ReportInv, OnItsWay
      <4> QED
        BY <4>2, <4>3
    <3> QED
      BY <3>1, <3>2, <3>3 DEF SourcesInv
  <2>2. ASSUME NEW i \in Ingests, IngestWithoutJob(i)
        PROVE  SourcesInv'
    <3>1. /\ AtWork(i) /\ stage' = stage /\ got' = got
          /\ Source(i) \in {"git", "documents", "requirements"}
      BY <2>2 DEF IngestWithoutJob, IngestGit, IngestDocument, IngestRequirements
    <3>2. PICK result : Report(i, result)
      BY <2>2 DEF IngestWithoutJob, IngestGit, IngestDocument, IngestRequirements
    <3>3. Source(i) \notin DOMAIN FunctionOf
      BY <3>1 DEF FunctionOf
    <3> QED
      BY <3>1, <3>2, <3>3, ReportKeepsInv DEF SourcesInv
  <2>3. ASSUME NEW j \in SourceJobIds, Ingest(j)
        PROVE  SourcesInv'
    BY <2>3, IngestMoves, MovesKeepsInv
  <2>4. CASE UNCHANGED sourceVars
    BY <2>4 DEF sourceVars, SourcesInv, ReportInv, OnItsWay, AtWork, Returned, Source, Reached
  <2> QED
    BY <2>1, <2>2, <2>3, <2>4 DEF SourceNext
<1> QED
  BY <1>1, <1>2, PTL DEF SourceSpec

\* A call of ingest_all that returned reports every source it was asked for, with
\* the status of its job, and as failed only what gave entries.
THEOREM SourcesAreReportedHolds == SourceSpec => []SourcesAreReported
<1>1. SourcesInv => SourcesAreReported
  <2> SUFFICES ASSUME SourcesInv, NEW i \in Ingests, Returned(i)
               PROVE  /\ DOMAIN results[i] = Range(SourcesOf[i])
                      /\ \A s \in DOMAIN results[i] \cap DOMAIN FunctionOf :
                           /\ results[i][s] = stage[<<i, s>>]
                           /\ results[i][s] = "failed" => got[<<i, s>>] = "entries"
    BY DEF SourcesAreReported
  <2>1. Len(SourcesOf[i]) \in Nat /\ DOMAIN SourcesOf[i] = 1..Len(SourcesOf[i])
    BY SourceAssumption
  <2>2. turn[i] - 1 = Len(SourcesOf[i])
    BY <2>1 DEF Returned, SourcesInv
  <2>3. Reached(i) = Range(SourcesOf[i])
    BY <2>1, <2>2 DEF Reached, Range
  <2> QED
    BY <2>3 DEF SourcesInv, ReportInv
<1> QED
  BY <1>1, SourcesInvariant, PTL

-----------------------------------------------------------------------------
(***************************************************************************)
(* Advice on platforms                                                     *)
(*                                                                         *)
(* A pattern that fits scores ten, one that does not at most nine; a       *)
(* general one that is triggered fits, one from a search never.  The rules *)
(* are read once, and what can be registered of them is registered then.   *)
(***************************************************************************)
AllPatterns == General \cup SapPatterns \cup TanzuPatterns

LEMMA LibraryIsKnown == General \subseteq Library /\ Library \subseteq AllPatterns
BY DEF Library, AllPatterns, PatternsOf, PowerPlatformPatterns

LEMMA PrioritiesBounded ==
  ASSUME NEW m \in AllPatterns
  PROVE  PriorityOf[m] \in 7..9 /\ IsFiniteSet(ConditionsOf[m])
<1>1. m \in {"event_driven", "microservices", "serverless", "api_first", "multi_tenant",
            "sap_kyma", "tanzu_knative", "tanzu_microservices"}
  BY DEF AllPatterns, General, SapPatterns, TanzuPatterns
<1>2. PriorityOf[m] \in 7..9
  BY <1>1 DEF PriorityOf
<1>3. ConditionsOf[m] \in {{"async", "event_driven"}, {"microservices"}, {"serverless"}, {"api"},
                          {"multi_tenant"}, {}}
  BY <1>1 DEF ConditionsOf
<1>4. IsFiniteSet(ConditionsOf[m])
  <2>1. /\ IsFiniteSet({"microservices"}) /\ IsFiniteSet({"serverless"}) /\ IsFiniteSet({"api"})
        /\ IsFiniteSet({"multi_tenant"}) /\ IsFiniteSet({"async"})
    BY FS_Singleton
  <2>2. IsFiniteSet({"async"} \cup {"event_driven"})
    BY <2>1, FS_AddElement
  <2>3. {"async"} \cup {"event_driven"} = {"async", "event_driven"}
    OBVIOUS
  <2>4. IsFiniteSet({})
    BY FS_EmptySet
  <2> QED
    BY <1>3, <2>1, <2>2, <2>3, <2>4
<1> QED
  BY <1>2, <1>4

LEMMA FittingScoresHigher ==
  ASSUME NEW fs, NEW m \in AllPatterns, Fits(m, fs), NEW n \in AllPatterns, ~Fits(n, fs)
  PROVE  ~(Score(m, fs) <= Score(n, fs))
<1>1. PriorityOf[m] \in 7..9 /\ PriorityOf[n] \in 7..9
  BY PrioritiesBounded
<1>2. Cardinality(ConditionsOf[n] \cap fs) = 0
  BY FS_EmptySet DEF Fits
<1>3. Cardinality(ConditionsOf[m] \cap fs) \in Nat /\ Cardinality(ConditionsOf[m] \cap fs) # 0
  <2>1. IsFiniteSet(ConditionsOf[m] \cap fs)
    BY PrioritiesBounded, FS_Subset, ConditionsOf[m] \cap fs \subseteq ConditionsOf[m]
  <2> QED
    BY <2>1, FS_CardinalityType, FS_EmptySet DEF Fits
<1>4. Score(n, fs) \in 7..9
  BY <1>1, <1>2 DEF Score
<1>5. Score(m, fs) = 10
  BY <1>1, <1>3 DEF Score
<1> QED
  BY <1>4, <1>5

\* A general pattern has its triggers among its conditions, a learned one none.
LEMMA TriggeredFits ==
  /\ \A fs : \A m \in TriggeredIn(General, fs) : Fits(m, fs)
  /\ \A fs : \A m \in Library \ General : ~Fits(m, fs)
<1>1. ASSUME NEW fs, NEW m \in TriggeredIn(General, fs)
      PROVE  Fits(m, fs)
  <2>1. m \in General /\ TriggersOf[m] \cap fs # {}
    BY DEF TriggeredIn
  <2>2. TriggersOf[m] \subseteq ConditionsOf[m]
    <3>1. m \in {"event_driven", "microservices", "serverless", "api_first", "multi_tenant"}
      BY <2>1 DEF General
    <3> QED
      BY <3>1 DEF TriggersOf, ConditionsOf
  <2> QED
    BY <2>1, <2>2 DEF Fits
<1>2. ASSUME NEW fs, NEW m \in Library \ General
      PROVE  ~Fits(m, fs)
  <2>1. m \in {"sap_kyma", "tanzu_knative", "tanzu_microservices"}
    BY LibraryIsKnown DEF AllPatterns, SapPatterns, TanzuPatterns
  <2>2. ConditionsOf[m] = {}
    BY <2>1 DEF ConditionsOf
  <2> QED
    BY <2>2 DEF Fits
<1> QED
  BY <1>1, <1>2

\* What is advised first would be so without the searches, unless only what
\* they have learned is triggered.
LEMMA BestIsUnmoved ==
  ASSUME NEW fs, NEW first \in Best(Candidates(fs), fs)
  PROVE  \/ first \in Best(CandidatesIn(General, fs), fs)
         \/ TriggeredIn(General, fs) = {} /\ first \in TriggeredIn(Library \ General, fs)
<1>1. /\ General \subseteq Library /\ Library \subseteq AllPatterns
      /\ TriggeredIn(General, fs) \subseteq TriggeredIn(Library, fs)
      /\ TriggeredIn(General, fs) \subseteq General /\ TriggeredIn(Library, fs) \subseteq Library
  BY LibraryIsKnown DEF TriggeredIn
<1>2. CASE TriggeredIn(Library, fs) = {}
  <2>1. TriggeredIn(General, fs) = {}
    BY <1>1, <1>2
  <2>2. Candidates(fs) = CandidatesIn(General, fs)
    BY <1>2, <2>1 DEF Candidates, CandidatesIn
  <2> QED
    BY <2>2
<1>3. ASSUME NEW m \in TriggeredIn(General, fs)
      PROVE  first \in Best(CandidatesIn(General, fs), fs)
  <2>1. /\ Candidates(fs) = TriggeredIn(Library, fs)
        /\ CandidatesIn(General, fs) = TriggeredIn(General, fs)
    BY <1>1 DEF Candidates, CandidatesIn
  <2>2. /\ first \in TriggeredIn(Library, fs)
        /\ \A n \in TriggeredIn(Library, fs) : Score(n, fs) <= Score(first, fs)
    BY <2>1 DEF Best
  <2>3. Fits(m, fs) /\ m \in AllPatterns /\ first \in AllPatterns
    BY <1>1, <2>2, TriggeredFits
  <2>4. Fits(first, fs)
    BY <1>1, <2>2, <2>3, FittingScoresHigher
  <2>5. first \in TriggeredIn(General, fs)
    <3>1. first \in General
      BY <1>1, <2>2, <2>4, TriggeredFits
    <3> QED
      BY <2>2, <3>1 DEF TriggeredIn
  <2> QED
    BY <1>1, <2>1, <2>2, <2>5 DEF Best
<1>4. CASE TriggeredIn(General, fs) = {} /\ TriggeredIn(Library, fs) # {}
  <2>1. Candidates(fs) = TriggeredIn(Library, fs)
    BY <1>4 DEF Candidates, CandidatesIn
  <2>2. first \in TriggeredIn(Library, fs)
    BY <2>1 DEF Best
  <2>3. first \notin General
    BY <1>4, <2>2 DEF TriggeredIn
  <2> QED
    BY <1>4, <2>2, <2>3 DEF TriggeredIn
<1> QED
  BY <1>2, <1>3, <1>4

IsRead(known) == known \in [Clouds -> [edition : Nat, form : RuleForms]]

\* Limits are what could be registered of the rules that were read.
Registered(known, finished, lim) ==
  /\ finished <=> known["aws"].form \in {"sound", "bad_combination"}
  /\ lim = IF known["aws"].form \in {"sound", "bad_combination", "bad_entry"}
           THEN [edition |-> known["aws"].edition, whole |-> finished]
           ELSE NoLimits

AdviceInv ==
  /\ IsRead(rules) /\ IsRead(rulesRead) /\ edits \in Nat
  /\ limitsDone \in BOOLEAN /\ Registered(rulesRead, limitsDone, limits)
  /\ FirstIsUnmoved

\* Rules that are known stay as they are.
LEMMA RulesAreReadOnce ==
  ASSUME IsRead(rules), NEW known, IsRead(known), NEW p \in Clouds
  PROVE  /\ IsRead(ReadRules(known, p))
         /\ p # "aws" \/ known["aws"].form # "absent" => ReadRules(known, p)["aws"] = known["aws"]
BY DEF ReadRules, Clouds, IsRead

\* What is registered of rules that are read now, or were known already.
LEMMA LimitsAreRegistered ==
  ASSUME AdviceInv, NEW known, IsRead(known),
         rulesRead["aws"].form # "absent" => known["aws"] = rulesRead["aws"],
         RegisterLimits(known)
  PROVE  limitsDone' \in BOOLEAN /\ Registered(known, limitsDone', limits')
<1>1. CASE limitsDone
  <2>1. known["aws"] = rulesRead["aws"] /\ limitsDone' = limitsDone /\ limits' = limits
    BY <1>1 DEF AdviceInv, Registered, RegisterLimits
  <2> QED
    BY <2>1 DEF AdviceInv, Registered
<1>2. CASE ~limitsDone
  <2>1. /\ limitsDone' = (known["aws"].form \in {"sound", "bad_combination"})
        /\ limits' = LimitsOf(known["aws"])
    BY <1>2 DEF RegisterLimits
  <2>2. known["aws"].form \notin {"sound", "bad_combination", "bad_entry"} => limits = NoLimits
    BY <1>2 DEF AdviceInv, Registered
  <2>3. limitsDone' \in BOOLEAN
    BY <2>1
  <2> DEFINE form == known["aws"].form
             edition == known["aws"].edition
  <2>4. CASE form \in {"sound", "bad_combination"}
    <3>1. limits' = [edition |-> edition, whole |-> TRUE]
      BY <2>1, <2>4 DEF LimitsOf
    <3>2. limitsDone' = TRUE
      BY <2>1, <2>4
    <3> QED
      BY <2>4, <3>1, <3>2 DEF Registered
  <2>5. CASE form = "bad_entry"
    <3>1. limits' = [edition |-> edition, whole |-> FALSE]
      BY <2>1, <2>5 DEF LimitsOf
    <3>2. form \notin {"sound", "bad_combination"}
      BY <2>5
    <3>3. ~limitsDone'
      BY <2>1, <3>2, Zenon
    <3>4. limitsDone' = FALSE
      BY <3>3, <2>3
    <3> QED
      BY <2>5, <3>1, <3>2, <3>4 DEF Registered
  <2>6. CASE form \notin {"sound", "bad_combination", "bad_entry"}
    <3>1. limits' = NoLimits
      <4>1. LimitsOf(known["aws"]) = limits
        BY <2>6 DEF LimitsOf
      <4> QED
        BY <2>1, <2>2, <2>6, <4>1
    <3>2. form \notin {"sound", "bad_combination"}
      BY <2>6
    <3>3. ~limitsDone'
      BY <2>1, <3>2, Zenon
    <3>4. limitsDone' = FALSE
      BY <3>3, <2>3
    <3> QED
      BY <2>6, <3>1, <3>2, <3>4 DEF Registered
  <2> QED
    BY <2>4, <2>5, <2>6
<1> QED
  BY <1>1, <1>2 DEF AdviceInv

LEMMA EngineIsMade ==
  ASSUME AdviceInv
  PROVE  /\ IsRead(KnownToEngine)
         /\ MakeEngine =>
              limitsDone' \in BOOLEAN /\ Registered(KnownToEngine, limitsDone', limits')
<1>1. "aws" \in Clouds
  BY DEF Clouds
<1>2. /\ IsRead(KnownToEngine)
      /\ rulesRead["aws"].form # "absent" => KnownToEngine["aws"] = rulesRead["aws"]
  BY <1>1, RulesAreReadOnce DEF AdviceInv, KnownToEngine
<1>3. ASSUME MakeEngine
      PROVE  limitsDone' \in BOOLEAN /\ Registered(KnownToEngine, limitsDone', limits')
  <2>1. CASE engine
    BY <1>3, <2>1 DEF MakeEngine, KnownToEngine, AdviceInv
  <2>2. CASE ~engine
    BY <1>2, <1>3, <2>2, LimitsAreRegistered DEF MakeEngine
  <2> QED
    BY <2>1, <2>2
<1> QED
  BY <1>2, <1>3

\* What gives no pattern has none that does not fit.
NothingFirst(a) == a.first = "none"

LEMMA EngineKeepsInv ==
  ASSUME AdviceInv, EnsureEngine, UNCHANGED <<rules, edits>>, FirstIsUnmoved'
  PROVE  AdviceInv'
<1>1. rulesRead' = KnownToEngine /\ MakeEngine
  BY DEF EnsureEngine
<1> QED
  BY <1>1, EngineIsMade DEF AdviceInv, IsRead

LEMMA FirstStaysUnmoved ==
  ASSUME \/ UNCHANGED <<advice, learned>> /\ FirstIsUnmoved
         \/ NothingFirst(advice')
         \/ UNCHANGED learned /\ \E p, fs : Advises(p, fs)
  PROVE  FirstIsUnmoved'
<1>1. CASE UNCHANGED <<advice, learned>> /\ FirstIsUnmoved
  BY <1>1 DEF FirstIsUnmoved, Library
<1>2. CASE NothingFirst(advice')
  BY <1>2 DEF FirstIsUnmoved, NothingFirst
<1>3. ASSUME NEW p, NEW fs, Advises(p, fs), UNCHANGED learned
      PROVE  FirstIsUnmoved'
  <2>1. PICK first \in Best(Candidates(fs), fs) : advice'.first = first /\ advice'.features = fs
    <3> HIDE DEF Best, Candidates, Violations, Generated, Hints
    <3> QED
      BY <1>3 DEF Advises
  <2>2. Library' = Library
    BY <1>3 DEF Library
  <2>3. \/ first \in Best(CandidatesIn(General, fs), fs)
        \/ TriggeredIn(General, fs) = {} /\ first \in TriggeredIn(Library \ General, fs)
    BY <2>1, BestIsUnmoved
  <2> QED
    BY <2>1, <2>2, <2>3 DEF FirstIsUnmoved
<1> QED
  BY <1>1, <1>2, <1>3

LEMMA OutcomesNameNoPattern ==
  /\ \A outcome : NothingFirst([NoAdvice EXCEPT !.outcome = outcome])
  /\ \A outcome, p : NothingFirst([NoAdvice EXCEPT !.outcome = outcome, !.platform = p])
  /\ \A outcome, os : NothingFirst([NoAdvice EXCEPT !.outcome = outcome, !.others = os])
  /\ \A outcome, p, files, vs :
       NothingFirst([NoAdvice EXCEPT !.outcome = outcome, !.platform = p, !.files = files,
                                     !.violations = vs])
BY DEF NothingFirst, NoAdvice

\* The rules of its own cloud are read by a request; the limits are of AWS.
LEMMA CloudsKeepInv ==
  ASSUME AdviceInv, UNCHANGED <<rules, edits>>, NEW fs,
         AwsChecks(fs) \/ AzureChecks(fs) \/ GcpChecks(fs)
  PROVE  AdviceInv'
<1>0. "aws" \in Clouds /\ "azure" \in Clouds /\ "gcp" \in Clouds /\ IsRead(rules) /\ IsRead(rulesRead)
  BY DEF Clouds, AdviceInv
<1>1. ASSUME NEW p, NEW known, CloudRaises(p, fs, known)
      PROVE  FirstIsUnmoved'
  BY <1>1, OutcomesNameNoPattern, FirstStaysUnmoved DEF CloudRaises
<1>2. CASE AwsChecks(fs)
  <2>1. PICK read : /\ read = ReadRules(rulesRead, "aws") /\ RegisterLimits(read)
                    /\ rulesRead' = read /\ CloudRaises("aws", fs, read)
    BY <1>2 DEF AwsChecks
  <2>2. IsRead(read) /\ (rulesRead["aws"].form # "absent" => read["aws"] = rulesRead["aws"])
    BY <1>0, <2>1, RulesAreReadOnce
  <2>3. limitsDone' \in BOOLEAN /\ Registered(read, limitsDone', limits')
    BY <2>1, <2>2, LimitsAreRegistered
  <2>4. FirstIsUnmoved'
    BY <1>1, <2>1
  <2> QED
    BY <2>1, <2>2, <2>3, <2>4 DEF AdviceInv, IsRead
<1>3. ASSUME NEW p \in {"azure", "gcp"}, MakeEngine, NEW read,
             read = ReadRules(KnownToEngine, p), rulesRead' = read, CloudRaises(p, fs, read)
      PROVE  AdviceInv'
  <2>1. /\ IsRead(KnownToEngine)
        /\ limitsDone' \in BOOLEAN /\ Registered(KnownToEngine, limitsDone', limits')
    BY <1>3, EngineIsMade
  <2>2. IsRead(read) /\ read["aws"] = KnownToEngine["aws"]
    BY <1>0, <1>3, <2>1, RulesAreReadOnce
  <2>3. Registered(read, limitsDone', limits')
    BY <2>1, <2>2 DEF Registered
  <2>4. FirstIsUnmoved'
    BY <1>1, <1>3
  <2> QED
    BY <1>3, <2>1, <2>2, <2>3, <2>4 DEF AdviceInv, IsRead
<1>4. CASE AzureChecks(fs)
  BY <1>3, <1>4 DEF AzureChecks
<1>5. CASE GcpChecks(fs)
  BY <1>3, <1>5 DEF GcpChecks
<1> QED
  BY <1>2, <1>4, <1>5

LEMMA RequestsKeepInv ==
  ASSUME AdviceInv, NEW r, ProcessWithAdapter(r)
  PROVE  AdviceInv'
<1> DEFINE p == Detected(r)
           fs == Features(r.words)
<1>1. UNCHANGED <<rules, edits, learned>>
  BY DEF ProcessWithAdapter
<1>2. \/ AwsChecks(fs)
      \/ AzureChecks(fs)
      \/ GcpChecks(fs)
      \/ EnsureEngine /\ Advises(p, fs)
      \/ EnsureEngine /\ DetectionFails("raised", p)
      \/ EnsureEngine /\ DetectionFails("not_found", p)
  BY DEF ProcessWithAdapter
<1> HIDE DEF p, fs
<1>3. CASE EnsureEngine /\ (\/ Advises(p, fs)
                            \/ DetectionFails("raised", p) \/ DetectionFails("not_found", p))
  <2>0. ASSUME NEW outcome, DetectionFails(outcome, p)
        PROVE  NothingFirst(advice')
    BY <2>0, OutcomesNameNoPattern DEF DetectionFails
  <2>1. Advises(p, fs) \/ NothingFirst(advice')
    BY <1>3, <2>0
  <2>2. FirstIsUnmoved'
    BY <1>1, <2>1, FirstStaysUnmoved
  <2> QED
    BY <1>1, <1>3, <2>2, EngineKeepsInv
<1> QED
  BY <1>1, <1>2, <1>3, CloudsKeepInv

\* The inductive invariant holds of every state of every behaviour.
THEOREM AdviceInvariant == AdviceSpec => []AdviceInv
<1>1. AdviceInit => AdviceInv
  <2> SUFFICES ASSUME AdviceInit
               PROVE  AdviceInv
    OBVIOUS
  <2>1. /\ rules \in [Clouds -> {Edition(0, "absent"), Edition(0, "sound")}]
        /\ rulesRead = [q \in Clouds |-> Edition(0, "absent")] /\ edits = 0
        /\ limitsDone = FALSE /\ limits = NoLimits /\ advice.first = "none"
    BY DEF AdviceInit, NoAdvice
  <2>2. {Edition(0, "absent"), Edition(0, "sound")} \subseteq [edition : Nat, form : RuleForms]
    BY DEF Edition, RuleForms
  <2>3. IsRead(rules) /\ IsRead(rulesRead)
    BY <2>1, <2>2 DEF IsRead
  <2>4. rulesRead["aws"].form = "absent"
    BY <2>1 DEF Clouds, Edition
  <2>5. Registered(rulesRead, limitsDone, limits)
    BY <2>1, <2>4 DEF Registered
  <2>6. FirstIsUnmoved
    BY <2>1 DEF FirstIsUnmoved
  <2> QED
    BY <2>1, <2>3, <2>5, <2>6 DEF AdviceInv
<1>2. AdviceInv /\ [AdviceNext]_adviceVars => AdviceInv'
  <2> SUFFICES ASSUME AdviceInv, [AdviceNext]_adviceVars
               PROVE  AdviceInv'
    OBVIOUS
  <2>1. ASSUME NEW r \in AdviceRequests, ProcessWithAdapter(r)
        PROVE  AdviceInv'
    BY <2>1, RequestsKeepInv
  <2>2. ASSUME UNCHANGED <<rules, edits, rulesRead, limitsDone, limits>>,
               NothingFirst(advice') \/ UNCHANGED <<advice, learned>>
        PROVE  AdviceInv'
    <3>1. FirstIsUnmoved'
      BY <2>2, FirstStaysUnmoved DEF AdviceInv
    <3> QED
      BY <2>2, <3>1 DEF AdviceInv, IsRead
  <2>3. CASE ListPlatforms
    BY <2>2, <2>3, OutcomesNameNoPattern DEF ListPlatforms
  <2>4. CASE GetPlatformConstraints
    <3>1. FirstIsUnmoved'
      BY <2>4, OutcomesNameNoPattern, FirstStaysUnmoved DEF GetPlatformConstraints
    <3> QED
      BY <2>4, <3>1, EngineKeepsInv DEF GetPlatformConstraints
  <2>5. ASSUME NEW mentioned \in Searches, SearchKnowledge(mentioned)
        PROVE  AdviceInv'
    BY <2>2, <2>5, OutcomesNameNoPattern DEF SearchKnowledge
  <2>6. ASSUME NEW r \in AdviceRequests, KnowledgeQuery(r.words)
        PROVE  AdviceInv'
    BY <2>2, <2>6, OutcomesNameNoPattern DEF KnowledgeQuery
  <2>7. CASE Edit
    <3>1. UNCHANGED <<rulesRead, limitsDone, limits, learned, advice>> /\ edits' = edits + 1
      BY <2>7 DEF Edit
    <3>2. IsRead(rules')
      <4>1. \A form \in RuleForms : Edition(edits + 1, form) \in [edition : Nat, form : RuleForms]
        BY DEF AdviceInv, Edition
      <4> QED
        BY <2>7, <4>1 DEF Edit, AdviceInv, IsRead
    <3>3. FirstIsUnmoved'
      BY <3>1, FirstStaysUnmoved DEF AdviceInv
    <3> QED
      BY <3>1, <3>2, <3>3 DEF AdviceInv, IsRead
  <2>8. CASE UNCHANGED adviceVars
    BY <2>2, <2>8 DEF adviceVars
  <2> QED
    BY <2>1, <2>3, <2>4, <2>5, <2>6, <2>7, <2>8 DEF AdviceNext
<1> QED
  BY <1>1, <1>2, PTL DEF AdviceSpec

\* Whatever searches and edits leave behind in the shared tables, malformed or
\* not, a request is advised first what it would be without the searches, unless
\* it triggers nothing but what they have learned; it is checked with limits of
\* the rules it reads: PatternMatcher, register_aws_constraints.
THEOREM AdviceIsSoundHolds == AdviceSpec => []AdviceIsSound
<1>1. AdviceInv => AdviceIsSound
  <2> SUFFICES ASSUME AdviceInv
               PROVE  LimitsFollowRules
    BY DEF AdviceInv, AdviceIsSound
  <2>1. Registered(rulesRead, limitsDone, limits)
    BY DEF AdviceInv
  <2>2. CASE rulesRead["aws"].form \in {"sound", "bad_combination"}
    BY <2>1, <2>2 DEF Registered, LimitsFollowRules, AdviceInv
  <2>3. CASE rulesRead["aws"].form = "bad_entry"
    BY <2>1, <2>3 DEF Registered, LimitsFollowRules, AdviceInv
  <2>4. CASE rulesRead["aws"].form \notin {"sound", "bad_combination", "bad_entry"}
    BY <2>1, <2>4 DEF Registered, LimitsFollowRules, AdviceInv, NoLimits
  <2> QED
    BY <2>2, <2>3, <2>4
<1> QED
  BY <1>1, AdviceInvariant, PTL

-----------------------------------------------------------------------------
(***************************************************************************)
(* Searching                                                               *)
(*                                                                         *)
(* The outermost search goes the way of the call, the one inside of an     *)
(* enhanced search any other: what raises in the first is the embedding of *)
(* a source of the call's own way, or entity reasoning.                    *)
(***************************************************************************)
IsFrame(f) ==
  f = [way |-> f.way, left |-> f.left, round |-> f.round, found |-> f.found,
       lately |-> f.lately, known |-> f.known, nested |-> f.nested]

WayOf(c) == IF c.enhanced THEN "enhanced" ELSE Way(c.intents, c.forced)

Alone(f) == frames = <<f>> /\ IsFrame(f) /\ f.way = WayOf(call[1])
Enclosed(f, g) ==
  /\ frames = <<f, g>> /\ IsFrame(f) /\ IsFrame(g)
  /\ f.way # "enhanced" /\ g.way = "enhanced" /\ call[1].enhanced

HybridInv ==
  /\ call = <<>> => frames = <<>> /\ delivered.at = "none"
  /\ frames = <<>> \/ (\E f : Alone(f)) \/ (\E f, g : Enclosed(f, g))
  /\ OutagesAreSurvived

LEMMA WaysAreNotEnhanced == \A intents, forced : Way(intents, forced) # "enhanced"
BY DEF Way, StrategyFor

LEMMA FramesAreFrames ==
  /\ \A way, steps : IsFrame(Frame(way, steps)) /\ Frame(way, steps).way = way
  /\ \A c : IsFrame(SearchFrame(c)) /\ SearchFrame(c).way = Way(c.intents, c.forced)
BY DEF Frame, SearchFrame, IsFrame

\* What a search goes through does not change its way.
Keeps(f, n) == IsFrame(n) /\ n.way = f.way

LEMMA FieldStays ==
  ASSUME NEW f, IsFrame(f), NEW x
  PROVE  /\ Keeps(f, [f EXCEPT !.left = x]) /\ Keeps(f, [f EXCEPT !.found = x])
         /\ Keeps(f, [f EXCEPT !.lately = x]) /\ Keeps(f, [f EXCEPT !.known = x])
         /\ Keeps(f, [f EXCEPT !.round = x]) /\ Keeps(f, [f EXCEPT !.nested = x])
<1>1. PICK w, l, r, fs, la, k, m :
        f = [way |-> w, left |-> l, round |-> r, found |-> fs, lately |-> la, known |-> k,
             nested |-> m]
  BY DEF IsFrame
<1> QED
  BY <1>1 DEF Keeps, IsFrame

LEMMA WayStays ==
  ASSUME NEW f, IsFrame(f), NEW left, NEW found, NEW lately, NEW known, NEW round
  PROVE  /\ Keeps(f, [f EXCEPT !.left = left, !.found = found, !.lately = lately,
                              !.known = known])
         /\ Keeps(f, [f EXCEPT !.left = left, !.round = round, !.lately = lately])
<1>1. PICK a : a = [f EXCEPT !.left = left]
  OBVIOUS
<1>2. Keeps(f, a)
  BY <1>1, FieldStays
<1>3. Keeps(f, [f EXCEPT !.left = left, !.found = found, !.lately = lately, !.known = known])
  <2>1. PICK b : b = [a EXCEPT !.found = found]
    OBVIOUS
  <2>2. PICK c : c = [b EXCEPT !.lately = lately]
    OBVIOUS
  <2>3. [f EXCEPT !.left = left, !.found = found, !.lately = lately, !.known = known] =
        [c EXCEPT !.known = known]
    BY <1>1, <2>1, <2>2
  <2>4. Keeps(a, b) /\ IsFrame(b)
    <3>1. IsFrame(a)
      BY <1>2 DEF Keeps
    <3> QED
      BY <2>1, <3>1, FieldStays DEF Keeps
  <2>5. Keeps(b, c) /\ IsFrame(c)
    BY <2>2, <2>4, FieldStays DEF Keeps
  <2>6. Keeps(c, [c EXCEPT !.known = known])
    BY <2>5, FieldStays
  <2> QED
    BY <1>2, <2>3, <2>4, <2>5, <2>6 DEF Keeps
<1>4. Keeps(f, [f EXCEPT !.left = left, !.round = round, !.lately = lately])
  <2>1. PICK b : b = [a EXCEPT !.round = round]
    OBVIOUS
  <2>2. [f EXCEPT !.left = left, !.round = round, !.lately = lately] = [b EXCEPT !.lately = lately]
    BY <1>1, <2>1
  <2>3. Keeps(a, b)
    BY <1>2, <2>1, FieldStays DEF Keeps
  <2>4. Keeps(b, [b EXCEPT !.lately = lately])
    BY <2>3, FieldStays DEF Keeps
  <2> QED
    BY <1>2, <2>2, <2>3, <2>4 DEF Keeps
<1> QED
  BY <1>3, <1>4

LEMMA PairOf == \A a, b : <<a>> \o <<b>> = <<a, b>>
<1> TAKE a, b
<1> DEFINE s == <<a>> \o <<b>>
           t == <<a, b>>
<1>1. <<a>> \in Seq({a, b}) /\ <<b>> \in Seq({a, b}) /\ t \in Seq({a, b})
  OBVIOUS
<1>2. s \in Seq({a, b})
  BY <1>1
<1>3. Len(s) = 2 /\ Len(t) = 2 /\ s[1] = a /\ s[2] = b /\ t[1] = a /\ t[2] = b
  OBVIOUS
<1> HIDE DEF s, t
<1>4. s = t
  BY <1>1, <1>2, <1>3, SeqEqual
<1> QED
  BY <1>4 DEF s, t

\* The innermost search goes on, in its way.
LEMMA GoesOn ==
  ASSUME HybridInv, frames # <<>>, NEW n, frames' = <<n>> \o Tail(frames),
         IsFrame(n), n.way = Inner.way, call' = call
  PROVE  /\ call # <<>>
         /\ frames' = <<>> \/ (\E f : Alone(f)') \/ (\E f, g : Enclosed(f, g)')
<1>1. ASSUME NEW f, Alone(f)
      PROVE  Alone(n)'
  <2>1. Inner = f /\ frames' = <<n>>
    BY <1>1 DEF Alone, Inner
  <2> QED
    BY <1>1, <2>1 DEF Alone
<1>2. ASSUME NEW f, NEW g, Enclosed(f, g)
      PROVE  Enclosed(n, g)'
  <2>0. frames = <<f, g>>
    BY <1>2 DEF Enclosed
  <2>2. Tail(<<f, g>>) = <<g>>
    OBVIOUS
  <2>3. <<n>> \o <<g>> = <<n, g>>
    BY PairOf
  <2>1. Inner = f /\ frames' = <<n, g>>
    BY <2>0, <2>2, <2>3 DEF Inner
  <2> QED
    BY <1>2, <2>1 DEF Enclosed
<1> QED
  BY <1>1, <1>2 DEF HybridInv

\* The innermost search ends.
LEMMA InnerEnds ==
  ASSUME HybridInv, frames # <<>>, frames' = Tail(frames), call' = call
  PROVE  frames' = <<>> \/ (\E f : Alone(f)')
<1>1. ASSUME NEW f, Alone(f)
      PROVE  frames' = <<>>
  BY <1>1 DEF Alone
<1>2. ASSUME NEW f, NEW g, Enclosed(f, g)
      PROVE  Alone(g)'
  BY <1>2 DEF Enclosed, Alone, WayOf
<1> QED
  BY <1>1, <1>2 DEF HybridInv

\* What has found nothing for want of an embedding keeps its reason.
LEMMA ReasonsStay ==
  ASSUME OutagesAreSurvived, delivered'.at # "raised" \/ UNCHANGED delivered,
         unembedded \subseteq unembedded', call' = call
  PROVE  OutagesAreSurvived'
BY DEF OutagesAreSurvived, ByEntity

\* Where a search raises that no other is around, that is for a reason.
LEMMA RaisesKeepInv ==
  ASSUME HybridInv, frames # <<>>, Raise, call' = call, unembedded \subseteq unembedded',
         \A f : Alone(f) =>
           /\ call[1].enhanced \/ Way(call[1].intents, call[1].forced) # "tooling"
           /\ \/ {"docs", "code"} \cap unembedded' # {}
              \/ call[1].enhanced /\ ByEntity
  PROVE  HybridInv'
<1>1. call # <<>>
  BY DEF HybridInv
<1>2. ASSUME NEW f, Alone(f)
      PROVE  HybridInv'
  <2>1. ~ (Len(frames) > 1)
    BY <1>2 DEF Alone
  <2>2. frames' = <<>>
    BY <2>1 DEF Raise
  <2>3. OutagesAreSurvived'
    BY <1>2 DEF OutagesAreSurvived, ByEntity
  <2> QED
    BY <1>1, <2>2, <2>3 DEF HybridInv
<1>3. ASSUME NEW f, NEW g, Enclosed(f, g)
      PROVE  HybridInv'
  <2>1. Len(frames) > 1
    BY <1>3 DEF Enclosed
  <2>2. frames' = Tail(frames) /\ UNCHANGED delivered
    BY <2>1 DEF Raise
  <2>3. OutagesAreSurvived'
    BY <2>2, ReasonsStay DEF HybridInv
  <2> QED
    BY <1>1, <2>2, <2>3, InnerEnds DEF HybridInv
<1> QED
  BY <1>2, <1>3 DEF HybridInv

LEMMA GoesOnKeepsInv ==
  ASSUME HybridInv, frames # <<>>, NEW n, frames' = <<n>> \o Tail(frames),
         IsFrame(n), n.way = Inner.way, UNCHANGED <<call, delivered>>,
         unembedded \subseteq unembedded'
  PROVE  HybridInv'
<1>1. /\ call # <<>>
      /\ frames' = <<>> \/ (\E f : Alone(f)') \/ (\E f, g : Enclosed(f, g)')
  BY GoesOn
<1>2. OutagesAreSurvived'
  BY ReasonsStay DEF HybridInv
<1> QED
  BY <1>1, <1>2 DEF HybridInv

LEMMA InnerIsFrame ==
  ASSUME HybridInv, frames # <<>>
  PROVE  IsFrame(Inner) /\ (\A f : Alone(f) => Inner = f)
BY DEF HybridInv, Alone, Enclosed, Inner

LEMMA GotKeepsInv ==
  ASSUME HybridInv, frames # <<>>, NEW hits, Got(hits), UNCHANGED <<call, delivered>>,
         unembedded \subseteq unembedded'
  PROVE  HybridInv'
<1>1. PICK left, found, lately, known :
        frames' = <<[Inner EXCEPT !.left = left, !.found = found, !.lately = lately,
                                  !.known = known]>> \o Tail(frames)
  BY DEF Got
<1>2. PICK n : n = [Inner EXCEPT !.left = left, !.found = found, !.lately = lately,
                                !.known = known]
  OBVIOUS
<1>3. IsFrame(n) /\ n.way = Inner.way
  <2>1. PICK f : f = Inner
    OBVIOUS
  <2>2. IsFrame(f)
    BY <2>1, InnerIsFrame
  <2>3. Keeps(f, [f EXCEPT !.left = left, !.found = found, !.lately = lately, !.known = known])
    BY <2>2, WayStays
  <2> QED
    BY <1>2, <2>1, <2>3 DEF Keeps
<1> QED
  BY <1>1, <1>2, <1>3, GoesOnKeepsInv

\* The inductive invariant holds of every state of every behaviour.
THEOREM HybridInvariant == HybridSpec => []HybridInv
<1>1. HybridInit => HybridInv
  BY DEF HybridInit, HybridInv, OutagesAreSurvived, NotDelivered
<1>2. HybridInv /\ [HybridNext]_hybridVars => HybridInv'
  <2> SUFFICES ASSUME HybridInv, [HybridNext]_hybridVars
               PROVE  HybridInv'
    OBVIOUS
  <2>1. ASSUME NEW c \in HybridCalls, StartSearch(c)
        PROVE  HybridInv'
    <3>1. /\ call' = <<c>> /\ UNCHANGED delivered /\ delivered.at = "none"
      BY <2>1 DEF StartSearch, HybridInv
    <3>2. PICK f : frames' = <<f>> /\ IsFrame(f) /\ f.way = WayOf(c)
      BY <2>1, FramesAreFrames DEF StartSearch, WayOf
    <3>3. Alone(f)'
      BY <3>1, <3>2 DEF Alone
    <3>4. OutagesAreSurvived' /\ call' # <<>>
      BY <3>1 DEF OutagesAreSurvived
    <3> QED
      BY <3>3, <3>4 DEF HybridInv
  <2>2. CASE SourceAnswers
    BY <2>2, GotKeepsInv DEF SourceAnswers, Asking
  <2>3. CASE SourceRaises
    <3>1. /\ frames # <<>> /\ call' = call /\ unembedded \subseteq unembedded'
          /\ IF RaisesFor(Inner.way, Step) THEN Raise ELSE Got(<<>>) /\ UNCHANGED delivered
      BY <2>3 DEF SourceRaises, Asking
    <3>2. CASE RaisesFor(Inner.way, Step)
      <4>1. Inner.way # "tooling" /\ Step \in {"docs", "code"} /\ Step \in unembedded'
        BY <2>3, <3>2 DEF SourceRaises, RaisesFor, Embeds
      <4>2. ASSUME NEW f, Alone(f)
            PROVE  /\ call[1].enhanced \/ Way(call[1].intents, call[1].forced) # "tooling"
                   /\ {"docs", "code"} \cap unembedded' # {}
        <5>1. WayOf(call[1]) # "tooling"
          BY <3>1, <4>1, <4>2, InnerIsFrame DEF Alone
        <5> QED
          BY <4>1, <5>1 DEF WayOf
      <4> QED
        BY <3>1, <3>2, <4>2, RaisesKeepInv
    <3>3. CASE ~RaisesFor(Inner.way, Step)
      BY <3>1, <3>3, GotKeepsInv
    <3> QED
      BY <3>2, <3>3
  <2>4. CASE NextRound
    <3>1. /\ frames # <<>> /\ UNCHANGED <<call, delivered, unembedded>>
          /\ frames' = <<[Inner EXCEPT !.left = <<"docs", "code">>, !.round = @ + 1,
                                       !.lately = 0]>> \o Tail(frames)
      BY <2>4 DEF NextRound, Answered
    <3>2. PICK n : n = [Inner EXCEPT !.left = <<"docs", "code">>, !.round = @ + 1, !.lately = 0]
      OBVIOUS
    <3>3. IsFrame(n) /\ n.way = Inner.way
      <4>1. PICK f, left, round, lately :
              f = Inner /\ left = <<"docs", "code">> /\ round = Inner.round + 1 /\ lately = 0
        OBVIOUS
      <4>2. IsFrame(f)
        BY <3>1, <4>1, InnerIsFrame
      <4>3. Keeps(f, [f EXCEPT !.left = left, !.round = round, !.lately = lately])
        BY <4>2, WayStays
      <4> QED
        BY <3>2, <4>1, <4>3 DEF Keeps
    <3> QED
      BY <3>1, <3>2, <3>3, GoesOnKeepsInv
  <2>5. CASE Nested
    <3>1. frames # <<>> /\ Inner.way = "enhanced" /\ UNCHANGED <<call, delivered, unembedded>>
      BY <2>5 DEF Nested, Answered
    <3>2. PICK c, n : frames' = <<SearchFrame(c), [Inner EXCEPT !.nested = n]>>
      BY <2>5 DEF Nested
    <3>3. PICK f : Alone(f)
      BY <3>1 DEF HybridInv, Enclosed, Inner
    <3>4. Inner = f /\ call[1].enhanced
      BY <3>1, <3>3, InnerIsFrame, WaysAreNotEnhanced DEF Alone, WayOf
    <3>5. PICK h, g : h = SearchFrame(c) /\ g = [Inner EXCEPT !.nested = n]
      OBVIOUS
    <3>7. IsFrame(g) /\ g.way = "enhanced"
      BY <3>1, <3>5, InnerIsFrame, FieldStays DEF Keeps
    <3>8. IsFrame(h) /\ h.way # "enhanced"
      BY <3>5, FramesAreFrames, WaysAreNotEnhanced
    <3>9. Enclosed(h, g)'
      BY <3>1, <3>2, <3>4, <3>5, <3>7, <3>8 DEF Enclosed
    <3>6. OutagesAreSurvived' /\ call # <<>>
      BY <3>1, ReasonsStay DEF HybridInv
    <3> QED
      BY <3>1, <3>6, <3>9 DEF HybridInv
  <2>6. CASE RelationsRaise
    <3>1. /\ frames # <<>> /\ Raise /\ UNCHANGED <<call, unembedded>>
          /\ Inner.way = "enhanced" /\ ByEntity
      BY <2>6 DEF RelationsRaise, Answered
    <3>2. ASSUME NEW f, Alone(f)
          PROVE  call[1].enhanced
      BY <3>1, <3>2, InnerIsFrame, WaysAreNotEnhanced DEF Alone, WayOf
    <3> QED
      BY <3>1, <3>2, RaisesKeepInv
  <2>7. CASE Deliver
    <3>1. frames # <<>> /\ frames' = Tail(frames) /\ UNCHANGED <<call, unembedded>>
      BY <2>7 DEF Deliver
    <3>2. delivered'.at # "raised" \/ UNCHANGED delivered
      BY <2>7 DEF Deliver, Delivery
    <3>3. OutagesAreSurvived' /\ call # <<>>
      BY <3>1, <3>2, ReasonsStay DEF HybridInv
    <3> QED
      BY <3>1, <3>3, InnerEnds DEF HybridInv
  <2>8. CASE UNCHANGED hybridVars
    <3>1. OutagesAreSurvived'
      BY <2>8, ReasonsStay DEF hybridVars, HybridInv
    <3> QED
      BY <2>8, <3>1 DEF hybridVars, HybridInv, Alone, Enclosed
  <2> QED
    BY <2>1, <2>2, <2>3, <2>4, <2>5, <2>6, <2>7, <2>8 DEF HybridNext
<1> QED
  BY <1>1, <1>2, PTL DEF HybridSpec

\* Whatever of its sources fails, a search only raises for want of an
\* embedding for documents or code, or an enhanced one over relations of an
\* entity that the query names: HybridRetriever.search and what it calls.
THEOREM OutagesAreSurvivedHolds == HybridSpec => []OutagesAreSurvived
<1>1. HybridInv => OutagesAreSurvived
  BY DEF HybridInv
<1> QED
  BY <1>1, HybridInvariant, PTL

-----------------------------------------------------------------------------
(* Diagrams *)

OwnIds(s) == \A n, m \in DOMAIN s : s[n].id = s[m].id => n = m
IsNode(r) == r = [id |-> r.id, name |-> r.name, inferred |-> r.inferred]
IsEdge(r) == r = [id |-> r.id, from |-> r.from, to |-> r.to, inferred |-> r.inferred]

SoundNodes(ns) ==
  /\ \A n \in DOMAIN ns : IsNode(ns[n])
  /\ OwnIds(ns)
  /\ ns = <<>> <=> DOMAIN ns = {}
SoundEdges(es) == (\A n \in DOMAIN es : IsEdge(es[n])) /\ OwnIds(es)

\* What is drawn, whatever it is drawn from.
SoundDiagram(d) ==
  /\ d = [nodes |-> d.nodes, edges |-> d.edges, confidence |-> d.confidence]
  /\ d.confidence \in Nat
  /\ d.confidence > 0 <=> d.nodes # <<>>
  /\ SoundNodes(d.nodes)
  /\ SoundEdges(d.edges)

\* A node that is written so.
Written(d, id, name) ==
  \E n \in DOMAIN d.nodes : d.nodes[n].id = id /\ Lower(d.nodes[n].name) = Lower(name)

\* An edge joins what a line links.
LineJoins(d, edge, l, head) ==
  /\ l.is = "link"
  /\ Written(d, edge.from, LeftText(l))
  /\ Written(d, edge.to, <<l.b>>) \/ (head = "classDiagram" /\ Written(d, edge.to, <<l.label>>))
FollowsLines(d, head, lines) ==
  \A e \in DOMAIN d.edges : \E n \in DOMAIN lines : LineJoins(d, d.edges[e], lines[n], head)

LEMMA NodesOfFacts ==
  ASSUME NEW names, DOMAIN names \subseteq Int
  PROVE  /\ DOMAIN NodesOf(names) = DOMAIN names
         /\ \A n \in DOMAIN names : NodesOf(names)[n].name = names[n]
         /\ SoundNodes(NodesOf(names))
<1>1. /\ DOMAIN NodesOf(names) = DOMAIN names
      /\ \A n \in DOMAIN names :
           NodesOf(names)[n] = [id |-> NodeId(n), name |-> names[n], inferred |-> FALSE]
  BY DEF NodesOf
<1>2. \A n \in DOMAIN names : IsNode(NodesOf(names)[n])
  BY <1>1 DEF IsNode
<1>3. OwnIds(NodesOf(names))
  <2> SUFFICES ASSUME NEW n \in DOMAIN names, NEW m \in DOMAIN names, NodeId(n) = NodeId(m)
               PROVE  n = m
    BY <1>1 DEF OwnIds
  <2>1. n \in Int /\ m \in Int /\ n - 1 = m - 1
    BY DEF NodeId
  <2> QED
    BY <2>1
<1>4. NodesOf(names) = <<>> <=> DOMAIN NodesOf(names) = {}
  <2>1. DOMAIN <<>> = {}
    OBVIOUS
  <2>2. CASE DOMAIN names = {}
    BY <2>2 DEF NodesOf
  <2>3. CASE DOMAIN names # {}
    BY <1>1, <2>1, <2>3
  <2> QED
    BY <1>1, <2>2, <2>3
<1> QED
  BY <1>1, <1>2, <1>3, <1>4 DEF SoundNodes

LEMMA DrawnFacts ==
  ASSUME NEW ns, NEW es, NEW confidence \in Nat \ {0}, SoundNodes(ns), SoundEdges(es)
  PROVE  /\ SoundDiagram(Drawn(ns, es, confidence))
         /\ Drawn(ns, es, confidence).nodes = ns
         /\ Drawn(ns, es, confidence).edges = es
<1> DEFINE d == Drawn(ns, es, confidence)
<1>1. /\ d = [nodes |-> d.nodes, edges |-> d.edges, confidence |-> d.confidence]
      /\ d.nodes = ns /\ d.edges = es
      /\ d.confidence = IF ns = <<>> THEN 0 ELSE confidence
  BY DEF Drawn
<1> HIDE DEF d
<1>2. d.confidence \in Nat /\ (d.confidence > 0 <=> d.nodes # <<>>)
  BY <1>1
<1> QED
  BY <1>1, <1>2 DEF SoundDiagram, d

LEMMA NothingDrawn ==
  SoundDiagram(NoDiagram) /\ NoDiagram.edges = <<>> /\ NoDiagram.nodes = <<>>
<1>1. /\ NoDiagram = [nodes |-> <<>>, edges |-> <<>>, confidence |-> 0]
      /\ DOMAIN <<>> = {}
  BY DEF NoDiagram, Drawn
<1>2. NoDiagram.nodes = <<>> /\ NoDiagram.edges = <<>> /\ NoDiagram.confidence = 0
  BY <1>1
<1> QED
  BY <1>1, <1>2 DEF SoundDiagram, SoundNodes, SoundEdges, OwnIds

LEMMA NumberedEdges ==
  ASSUME NEW es, NEW number, \A k \in DOMAIN es : number[k] \in Int,
         \A j, k \in DOMAIN es : number[j] = number[k] => j = k,
         \A k \in DOMAIN es : \E from, to : es[k] = EdgeFrom(number[k], from, to)
  PROVE  SoundEdges(es)
<1>1. \A k \in DOMAIN es : IsEdge(es[k]) /\ es[k].id = EdgeId(number[k])
  BY DEF EdgeFrom, IsEdge
<1>2. \A j, k \in DOMAIN es : EdgeId(number[j]) = EdgeId(number[k]) => j = k
  <2> SUFFICES ASSUME NEW j \in DOMAIN es, NEW k \in DOMAIN es,
                      EdgeId(number[j]) = EdgeId(number[k])
               PROVE  number[j] = number[k]
    OBVIOUS
  <2>1. number[j] - 1 = number[k] - 1 /\ number[j] \in Int /\ number[k] \in Int
    BY DEF EdgeId
  <2> QED
    BY <2>1
<1> QED
  BY <1>1, <1>2 DEF SoundEdges, OwnIds

LEMMA NodeNamedFacts ==
  ASSUME NEW ns, DOMAIN ns \subseteq Nat, NEW name, NodesNamed(ns, name) # {}
  PROVE  \E n \in DOMAIN ns :
           ns[n].id = NodeNamed(ns, name) /\ Lower(ns[n].name) = Lower(name)
<1> DEFINE S == NodesNamed(ns, name)
<1>1. S \in SUBSET Nat
  BY DEF NodesNamed
<1>2. \E x \in S : \A y \in S : x <= y
  <2> HIDE DEF S
  <2>1. S # {}
    BY DEF S
  <2> QED
    BY <1>1, <2>1, LeastNatural
<1>3. Min(S) \in S
  <2> HIDE DEF S
  <2> QED
    BY <1>2 DEF Min
<1> HIDE DEF S
<1>4. Min(S) \in DOMAIN ns /\ Lower(ns[Min(S)].name) = Lower(name)
  <2>1. \A n \in S : n \in DOMAIN ns /\ Lower(ns[n].name) = Lower(name)
    BY DEF S, NodesNamed
  <2> QED
    BY <1>3, <2>1
<1> QED
  BY <1>4 DEF NodeNamed, S

LEMMA DrawnFromFacts ==
  ASSUME NEW names, DOMAIN names \subseteq Nat,
         NEW links, IsFiniteSet(DOMAIN links), DOMAIN links \subseteq Int
  PROVE  LET d == DrawnFrom(names, links)
         IN  /\ SoundDiagram(d)
             /\ \A n \in DOMAIN d.nodes : n \in DOMAIN names /\ d.nodes[n].name = names[n]
             /\ \A e \in DOMAIN d.edges : \E k \in DOMAIN links :
                  /\ Written(d, d.edges[e].from, links[k].from)
                  /\ Written(d, d.edges[e].to, links[k].to)
<1> DEFINE ns == NodesOf(names)
           S == {n \in DOMAIN links : Joins(ns, links[n])}
           es == EdgesAmong(ns, links)
           d == DrawnFrom(names, links)
<1>1. /\ DOMAIN ns = DOMAIN names
      /\ \A n \in DOMAIN names : ns[n].name = names[n]
      /\ SoundNodes(ns)
  <2>1. DOMAIN names \subseteq Int
    OBVIOUS
  <2> QED
    BY <2>1, NodesOfFacts
<1> HIDE DEF ns
<1>2. IsFiniteSet(S) /\ S \subseteq Int
  BY FS_Subset
<1>3. /\ DOMAIN InOrder(S) = 1 .. Cardinality(S) /\ Cardinality(S) \in Nat
      /\ \A k \in 1 .. Cardinality(S) : InOrder(S)[k] \in S
      /\ \A j, k \in 1 .. Cardinality(S) : j < k => InOrder(S)[j] < InOrder(S)[k]
  <2> HIDE DEF S
  <2> QED
    BY <1>2, InOrderFacts
<1>4. /\ DOMAIN es = 1 .. Cardinality(S)
      /\ \A k \in DOMAIN es :
           es[k] = EdgeFrom(InOrder(S)[k], NodeNamed(ns, links[InOrder(S)[k]].from),
                               NodeNamed(ns, links[InOrder(S)[k]].to))
  BY <1>3 DEF EdgesAmong
<1>5. \A k \in DOMAIN es : InOrder(S)[k] \in DOMAIN links /\ Joins(ns, links[InOrder(S)[k]])
  BY <1>3, <1>4
<1> HIDE DEF S, es
<1>6. SoundEdges(es)
  <2>1. \A k \in DOMAIN es : InOrder(S)[k] \in Int
    BY <1>5
  <2>2. \A j, k \in DOMAIN es : InOrder(S)[j] = InOrder(S)[k] => j = k
    <3> SUFFICES ASSUME NEW j \in DOMAIN es, NEW k \in DOMAIN es,
                        InOrder(S)[j] = InOrder(S)[k], j # k
                 PROVE  FALSE
      OBVIOUS
    <3>1. j \in Int /\ k \in Int /\ (j < k \/ k < j)
      BY <1>3, <1>4
    <3> QED
      BY <1>3, <1>4, <2>1, <3>1
  <2>3. \A k \in DOMAIN es : \E from, to : es[k] = EdgeFrom(InOrder(S)[k], from, to)
    BY <1>4
  <2> QED
    BY <2>1, <2>2, <2>3, NumberedEdges
<1>7. SoundDiagram(d) /\ d.nodes = ns /\ d.edges = es
  BY <1>1, <1>6, DrawnFacts DEF DrawnFrom, ns, es
<1>8. ASSUME NEW e \in DOMAIN es
      PROVE  \E k \in DOMAIN links :
               /\ Written(d, es[e].from, links[k].from)
               /\ Written(d, es[e].to, links[k].to)
  <2> DEFINE k == InOrder(S)[e]
  <2>1. /\ k \in DOMAIN links
        /\ NodesNamed(ns, links[k].from) # {} /\ NodesNamed(ns, links[k].to) # {}
    BY <1>5 DEF Joins
  <2>2. /\ es[e].from = NodeNamed(ns, links[k].from)
        /\ es[e].to = NodeNamed(ns, links[k].to)
    BY <1>4 DEF EdgeFrom
  <2> HIDE DEF k
  <2>3. /\ Written(d, es[e].from, links[k].from)
        /\ Written(d, es[e].to, links[k].to)
    <3> HIDE DEF d
    <3> QED
      BY <1>1, <1>7, <2>1, <2>2, NodeNamedFacts DEF Written
  <2> QED
    BY <2>1, <2>3
<1> HIDE DEF d
<1>9. \A n \in DOMAIN d.nodes : n \in DOMAIN names /\ d.nodes[n].name = names[n]
  BY <1>1, <1>7
<1> QED
  BY <1>7, <1>8, <1>9 DEF d

\* Lower case keeps the marks of a name apart from its words.
LEMMA LowerFacts ==
  ASSUME NEW s, NEW t, Lower(s) = Lower(t)
  PROVE  /\ DOMAIN s = DOMAIN t
         /\ \A n \in DOMAIN s : \A m \in Marks : s[n] = m <=> t[n] = m
<1>1. DOMAIN Lower(s) = DOMAIN s /\ DOMAIN Lower(t) = DOMAIN t
  BY DEF Lower
<1>2. ASSUME NEW u, NEW n \in DOMAIN u, NEW m \in Marks
      PROVE  Lower(u)[n] = m <=> u[n] = m
  <2>1. m \notin DOMAIN LowerOf /\ \A w \in DOMAIN LowerOf : LowerOf[w] # m
    BY DrawingsAssumption DEF PlainWords
  <2>2. Lower(u)[n] = IF u[n] \in DOMAIN LowerOf THEN LowerOf[u[n]] ELSE u[n]
    BY DEF Lower
  <2> QED
    BY <2>1, <2>2
<1>3. ASSUME NEW n \in DOMAIN s, NEW m \in Marks
      PROVE  s[n] = m <=> t[n] = m
  <2>1. n \in DOMAIN t
    BY <1>1
  <2>2. Lower(s)[n] = m <=> s[n] = m
    BY <1>2
  <2>3. Lower(t)[n] = m <=> t[n] = m
    BY <1>2, <2>1
  <2> QED
    BY <2>2, <2>3
<1> QED
  BY <1>1, <1>3

\* The lines that have words.
LEMMA LineKinds ==
  ASSUME NEW l \in Lines
  PROVE  /\ l.is \in {"word", "box", "participant", "class"} => l.a \in PlainWords
         /\ l.is = "link" => l.a \in PlainWords /\ l.b \in PlainWords /\ l.boxed \in BOOLEAN
         /\ l.is \in {"divider", "blank", "word", "box", "participant", "class", "link"}
BY DEF Lines

LEMMA WrittenLength ==
  ASSUME NEW l, NEW S, {l.a, "[]"} \subseteq S
  PROVE  LeftText(l) \in Seq(S) /\ Len(LeftText(l)) \in 1 .. 2
<1>1. <<l.a, "[]">> \in Seq(S) /\ Len(<<l.a, "[]">>) = 2
  OBVIOUS
<1>2. <<l.a>> \in Seq(S) /\ Len(<<l.a>>) = 1
  OBVIOUS
<1>3. LeftText(l) = <<l.a, "[]">> \/ LeftText(l) = <<l.a>>
  BY DEF LeftText
<1>4. 1 \in 1 .. 2 /\ 2 \in 1 .. 2
  OBVIOUS
<1> QED
  BY <1>1, <1>2, <1>3, <1>4

\* What is left of an arrow at which a line is split joins nothing, if there is a mark.
LEMMA MarksJoinNothing ==
  ASSUME NEW l \in Lines, l.is = "link", NEW k \in Lines, k.is \notin {"divider", "blank"}
  PROVE  /\ Lower(LineText(k)) # Lower(Append(LeftText(l), "-"))
         /\ Lower(LineText(k)) # Lower(<<">", l.b>>)
         /\ \A a : Lower(<<a>>) # Lower(Append(LeftText(l), "-"))
         /\ \A a, b : Lower(<<a>>) # Lower(<<">", b>>)
<1> DEFINE left == Append(LeftText(l), "-")
<1>1. \/ DOMAIN left = 1 .. 2 /\ left[2] = "-"
      \/ DOMAIN left = 1 .. 3 /\ left[3] = "-"
  <2> DEFINE S == {l.a, "[]", "-"}
  <2>0. {l.a, "[]"} \subseteq S /\ "-" \in S
    OBVIOUS
  <2> HIDE DEF S
  <2>1. LeftText(l) \in Seq(S) /\ Len(LeftText(l)) \in 1 .. 2
    BY <2>0, WrittenLength
  <2>2. Len(left) = Len(LeftText(l)) + 1 /\ left[Len(LeftText(l)) + 1] = "-" /\ left \in Seq(S)
    BY <2>0, <2>1, AppendProperties
  <2> HIDE DEF left
  <2>3. DOMAIN left = 1 .. Len(left)
    BY <2>2, LenProperties
  <2>4. PICK n \in {1, 2} : n = Len(LeftText(l))
    BY <2>1
  <2>5. DOMAIN left = 1 .. n + 1 /\ left[n + 1] = "-"
    BY <2>2, <2>3, <2>4
  <2>6. n = 1 \/ n = 2
    OBVIOUS
  <2> QED
    BY <2>5, <2>6
<1> HIDE DEF left
<1>2. {"-", "[]", ">"} \subseteq Marks
  BY DEF Marks
<1>3. k.a \in PlainWords /\ k.a \notin Marks /\ Marks \cap {"participant", "class"} = {}
  BY LineKinds DEF PlainWords, Marks
<1>4. \/ \E x : x \notin Marks /\ LineText(k) = <<x, k.a>>
      \/ LineText(k) = <<k.a, "[]">>
      \/ LineText(k) = <<k.a>>
      \/ DOMAIN LineText(k) \in {1 .. 4, 1 .. 5}
  <2>1. CASE k.is = "link"
    <3> DEFINE S == {k.a, "[]", k.arrow, k.b, k.label}
               right == <<k.arrow, k.b, k.label>>
    <3>1. LineText(k) = LeftText(k) \o right
      BY <2>1 DEF LineText
    <3>2. right \in Seq(S) /\ Len(right) = 3
      OBVIOUS
    <3>3. LeftText(k) \in Seq(S) /\ Len(LeftText(k)) \in 1 .. 2
      BY WrittenLength
    <3> HIDE DEF right, S
    <3>4. PICK n \in {1, 2} : n = Len(LeftText(k))
      BY <3>3
    <3>5. LeftText(k) \o right \in Seq(S) /\ Len(LeftText(k) \o right) = n + 3
      <4>1. /\ LeftText(k) \o right \in Seq(S)
            /\ Len(LeftText(k) \o right) = Len(LeftText(k)) + Len(right)
        BY <3>2, <3>3, ConcatProperties
      <4> QED
        BY <3>2, <3>4, <4>1
    <3>6. DOMAIN (LeftText(k) \o right) = 1 .. Len(LeftText(k) \o right)
      BY <3>5, LenProperties
    <3>7. DOMAIN LineText(k) = 1 .. n + 3
      BY <3>1, <3>5, <3>6
    <3>8. 1 .. n + 3 \in {1 .. 4, 1 .. 5}
      <4>1. n + 3 = 4 \/ n + 3 = 5
        OBVIOUS
      <4> QED
        BY <4>1
    <3> QED
      BY <3>7, <3>8
  <2>2. CASE k.is \in {"participant", "class"}
    <3>1. LineText(k) = <<k.is, k.a>>
      BY <2>2 DEF LineText
    <3>2. k.is \notin Marks
      BY <1>3, <2>2
    <3> QED
      BY <3>1, <3>2
  <2>3. CASE k.is = "box"
    BY <2>3 DEF LineText
  <2>4. CASE k.is = "word"
    BY <2>4 DEF LineText
  <2> QED
    BY <2>1, <2>2, <2>3, <2>4, LineKinds
<1>5. /\ 1 .. 1 # 1 .. 2 /\ 1 .. 1 # 1 .. 3 /\ 1 .. 2 # 1 .. 3
      /\ 1 .. 2 \notin {1 .. 4, 1 .. 5} /\ 1 .. 3 \notin {1 .. 4, 1 .. 5}
  <2>1. 2 \notin 1 .. 1 /\ 2 \in 1 .. 2 /\ 2 \in 1 .. 3 /\ 3 \notin 1 .. 2 /\ 3 \in 1 .. 3
        /\ 4 \notin 1 .. 3 /\ 4 \notin 1 .. 2 /\ 4 \in 1 .. 4 /\ 4 \in 1 .. 5
    OBVIOUS
  <2> QED
    BY <2>1
<1>6. \A a, b : /\ DOMAIN <<a>> = 1 .. 1 /\ DOMAIN <<a, b>> = 1 .. 2
                /\ <<a, b>>[1] = a /\ <<a, b>>[2] = b
  OBVIOUS
<1>7. Lower(LineText(k)) # Lower(left)
  <2> SUFFICES ASSUME Lower(LineText(k)) = Lower(left)
               PROVE  FALSE
    OBVIOUS
  <2>1. /\ DOMAIN LineText(k) = DOMAIN left
        /\ \A n \in DOMAIN left : LineText(k)[n] = "-" <=> left[n] = "-"
    BY <1>2, LowerFacts
  <2>2. DOMAIN left = 1 .. 2 /\ LineText(k)[2] = "-"
    BY <1>1, <1>4, <1>5, <1>6, <2>1
  <2>3. "-" # "[]" /\ k.a # "-"
    BY <1>2, <1>3
  <2> QED
    BY <1>4, <1>5, <1>6, <2>1, <2>2, <2>3
<1>8. Lower(LineText(k)) # Lower(<<">", l.b>>)
  <2> SUFFICES ASSUME Lower(LineText(k)) = Lower(<<">", l.b>>)
               PROVE  FALSE
    OBVIOUS
  <2>1. DOMAIN LineText(k) = 1 .. 2 /\ LineText(k)[1] = ">"
    BY <1>2, <1>6, LowerFacts
  <2>2. k.a # ">" /\ ">" \in Marks
    BY <1>2, <1>3
  <2> QED
    BY <1>4, <1>5, <1>6, <2>1, <2>2
<1>9. \A a : Lower(<<a>>) # Lower(left)
  BY <1>1, <1>5, <1>6, LowerFacts
<1>10. \A a, b : Lower(<<a>>) # Lower(<<">", b>>)
  BY <1>5, <1>6, LowerFacts
<1> QED
  BY <1>7, <1>8, <1>9, <1>10 DEF left

\* An edge between what lines link follows the lines, if the names that agree with
\* what they link agree with what they write.
LEMMA DrawnFollows ==
  ASSUME NEW names, DOMAIN names \subseteq Nat,
         NEW links, IsFiniteSet(DOMAIN links), DOMAIN links \subseteq Int,
         NEW head, NEW lines,
         \A k \in DOMAIN links : \E n \in DOMAIN lines :
           /\ lines[n].is = "link"
           /\ \A m \in DOMAIN names :
                /\ Lower(names[m]) = Lower(links[k].from) => links[k].from = LeftText(lines[n])
                /\ Lower(names[m]) = Lower(links[k].to) =>
                     \/ links[k].to = <<lines[n].b>>
                     \/ head = "classDiagram" /\ links[k].to = <<lines[n].label>>
  PROVE  /\ SoundDiagram(DrawnFrom(names, links))
         /\ FollowsLines(DrawnFrom(names, links), head, lines)
<1> DEFINE d == DrawnFrom(names, links)
<1>1. /\ SoundDiagram(d)
      /\ \A n \in DOMAIN d.nodes : n \in DOMAIN names /\ d.nodes[n].name = names[n]
      /\ \A e \in DOMAIN d.edges : \E k \in DOMAIN links :
           /\ Written(d, d.edges[e].from, links[k].from)
           /\ Written(d, d.edges[e].to, links[k].to)
  BY DrawnFromFacts
<1> HIDE DEF d
<1>2. ASSUME NEW e \in DOMAIN d.edges
      PROVE  \E n \in DOMAIN lines : LineJoins(d, d.edges[e], lines[n], head)
  <2>1. PICK k \in DOMAIN links : /\ Written(d, d.edges[e].from, links[k].from)
                                  /\ Written(d, d.edges[e].to, links[k].to)
    BY <1>1
  <2>2. PICK n \in DOMAIN lines :
          /\ lines[n].is = "link"
          /\ \A m \in DOMAIN names :
               /\ Lower(names[m]) = Lower(links[k].from) => links[k].from = LeftText(lines[n])
               /\ Lower(names[m]) = Lower(links[k].to) =>
                    \/ links[k].to = <<lines[n].b>>
                    \/ head = "classDiagram" /\ links[k].to = <<lines[n].label>>
    OBVIOUS
  <2>3. \E m \in DOMAIN names : Lower(names[m]) = Lower(links[k].from)
    BY <1>1, <2>1 DEF Written
  <2>4. \E m \in DOMAIN names : Lower(names[m]) = Lower(links[k].to)
    BY <1>1, <2>1 DEF Written
  <2>5. links[k].from = LeftText(lines[n])
    BY <2>2, <2>3
  <2>6. \/ links[k].to = <<lines[n].b>>
        \/ head = "classDiagram" /\ links[k].to = <<lines[n].label>>
    BY <2>2, <2>4
  <2>7. LineJoins(d, d.edges[e], lines[n], head)
    BY <2>1, <2>2, <2>5, <2>6 DEF LineJoins
  <2> QED
    BY <2>7
<1> QED
  BY <1>1, <1>2 DEF FollowsLines, d

\* The links of lines are those of their arrows.
LEMMA ArrowsFollow ==
  ASSUME NEW names, DOMAIN names \subseteq Nat, NEW head, NEW lines \in Seq(Lines),
         NEW T, T \subseteq {n \in DOMAIN lines : HasArrow(lines[n])},
         \A m \in DOMAIN names :
           \/ \E a : names[m] = <<a>>
           \/ \E k \in Lines : k.is \notin {"divider", "blank"} /\ names[m] = LineText(k)
  PROVE  LET d == DrawnFrom(names, [k \in DOMAIN Taken(lines, T) |-> SplitAtArrow(Taken(lines, T)[k])])
         IN  SoundDiagram(d) /\ FollowsLines(d, head, lines)
<1> DEFINE taken == Taken(lines, T)
           links == [k \in DOMAIN taken |-> SplitAtArrow(taken[k])]
<1>1. /\ IsFiniteSet(DOMAIN taken) /\ DOMAIN taken \subseteq Int
      /\ \A k \in DOMAIN taken : \E n \in T : taken[k] = lines[n]
  BY SomeTaken
<1> HIDE DEF taken
<1>2. ASSUME NEW k \in DOMAIN taken
      PROVE  \E n \in DOMAIN lines :
               /\ lines[n].is = "link"
               /\ \A m \in DOMAIN names :
                    /\ Lower(names[m]) = Lower(links[k].from) => links[k].from = LeftText(lines[n])
                    /\ Lower(names[m]) = Lower(links[k].to) =>
                         \/ links[k].to = <<lines[n].b>>
                         \/ head = "classDiagram" /\ links[k].to = <<lines[n].label>>
  <2>1. PICK n \in T : taken[k] = lines[n]
    BY <1>1
  <2> DEFINE l == lines[n]
  <2>2. n \in DOMAIN lines /\ l \in Lines /\ HasArrow(l)
    <3>1. DOMAIN lines = 1 .. Len(lines)
      BY LenProperties
    <3> QED
      BY <3>1, ElementOfSeq
  <2>3. l.is = "link"
    BY <2>2 DEF HasArrow
  <2>4. links[k] = SplitAtArrow(l)
    BY <2>1
  <2> HIDE DEF l, links
  <2>5. /\ links[k].from \in {LeftText(l), Append(LeftText(l), "-")}
        /\ links[k].to \in {<<l.b>>, <<">", l.b>>}
    BY <2>4 DEF SplitAtArrow, Link
  <2>6. ASSUME NEW m \in DOMAIN names
        PROVE  /\ Lower(names[m]) # Lower(Append(LeftText(l), "-"))
               /\ Lower(names[m]) # Lower(<<">", l.b>>)
    <3>1. CASE \E a : names[m] = <<a>>
      <4>1. PICK a : names[m] = <<a>>
        BY <3>1
      <4>2. \E k1 \in Lines : k1.is \notin {"divider", "blank"}
        BY <2>2, <2>3
      <4> QED
        BY <2>2, <2>3, <4>1, <4>2, MarksJoinNothing
    <3>2. CASE \E k1 \in Lines : k1.is \notin {"divider", "blank"} /\ names[m] = LineText(k1)
      BY <2>2, <2>3, <3>2, MarksJoinNothing
    <3> QED
      BY <3>1, <3>2
  <2> QED
    BY <2>2, <2>3, <2>5, <2>6 DEF l
<1>3. DOMAIN links = DOMAIN taken
  OBVIOUS
<1> HIDE DEF links
<1>4. SoundDiagram(DrawnFrom(names, links)) /\ FollowsLines(DrawnFrom(names, links), head, lines)
  BY <1>1, <1>2, <1>3, DrawnFollows
<1> QED
  BY <1>4 DEF links, taken

\* A participant of PlantUML is a line with words.
LEMMA PlantUMLNamesFacts ==
  ASSUME NEW lines \in Seq(Lines)
  PROVE  /\ DOMAIN PlantUMLNames(lines) \subseteq Nat
         /\ \A m \in DOMAIN PlantUMLNames(lines) :
              \E l \in Lines : l.is \notin {"divider", "blank"} /\ PlantUMLNames(lines)[m] = LineText(l)
<1> DEFINE T == {n \in DOMAIN lines : lines[n].is = "blank" /\ BlockNames(lines, n) # {}}
<1>1. DOMAIN lines = 1 .. Len(lines) /\ Len(lines) \in Nat /\ \A n \in DOMAIN lines : lines[n] \in Lines
  BY LenProperties, ElementOfSeq
<1>2. IsFiniteSet(T) /\ T \subseteq Int
  <2>1. IsFiniteSet(1 .. Len(lines))
    BY <1>1, FS_Interval
  <2> QED
    BY <1>1, <2>1, FS_Subset
<1>3. /\ Cardinality(T) \in Nat
      /\ DOMAIN InOrder(T) = 1 .. Cardinality(T)
      /\ \A k \in 1 .. Cardinality(T) : InOrder(T)[k] \in T
  <2> HIDE DEF T
  <2> QED
    BY <1>2, InOrderFacts
<1>4. BlockEnds(lines) = InOrder(T)
  BY DEF BlockEnds
<1>5. ASSUME NEW n \in T
      PROVE  \E l \in Lines : /\ l.is \notin {"divider", "blank"}
                              /\ lines[Max(BlockNames(lines, n))] = l
  <2> DEFINE B == BlockNames(lines, n)
  <2>1. n \in DOMAIN lines /\ n \in Nat /\ B # {}
    BY <1>1
  <2>2. ASSUME NEW k \in B
        PROVE  k \in 1 .. n - 1 /\ lines[k].is \notin {"divider", "blank"}
    <3>1. /\ k \in 1 .. n - 1 /\ lines[k].is # "divider"
          /\ \A j \in k .. n - 1 : lines[j].is # "blank"
      BY DEF BlockNames
    <3>2. k \in k .. n - 1
      BY <2>1, <3>1
    <3> QED
      BY <3>1, <3>2
  <2> HIDE DEF B
  <2>3. B \in SUBSET (0 .. n)
    BY <2>1, <2>2
  <2>4. Max(B) \in B
    <3>1. \E m \in B : \A k \in B : m >= k
      BY <2>1, <2>3, GreatestBelow
    <3> QED
      BY <3>1 DEF Max
  <2>5. Max(B) \in DOMAIN lines /\ lines[Max(B)].is \notin {"divider", "blank"}
    <3>1. \A k \in 1 .. n - 1 : k \in DOMAIN lines
      BY <1>1, <2>1
    <3> QED
      BY <2>2, <2>4, <3>1
  <2> QED
    BY <1>1, <2>5 DEF B
<1> HIDE DEF T
<1>6. /\ DOMAIN PlantUMLNames(lines) = 1 .. Cardinality(T)
      /\ \A m \in 1 .. Cardinality(T) :
           PlantUMLNames(lines)[m] = LineText(lines[Max(BlockNames(lines, InOrder(T)[m]))])
  BY <1>3, <1>4 DEF PlantUMLNames
<1> QED
  BY <1>3, <1>5, <1>6

LEMMA PlantUMLFollows ==
  ASSUME NEW lines \in Seq(Lines), NEW head
  PROVE  LET d == DrawnFrom(PlantUMLNames(lines), PlantUMLLinks(lines))
         IN  SoundDiagram(d) /\ FollowsLines(d, head, lines)
<1> DEFINE T == {n \in DOMAIN lines : ~WithinDivider(lines, n) /\ HasArrow(lines[n])}
           names == PlantUMLNames(lines)
<1>1. T \subseteq {n \in DOMAIN lines : HasArrow(lines[n])}
  OBVIOUS
<1>2. PlantUMLLinks(lines) = [k \in DOMAIN Taken(lines, T) |-> SplitAtArrow(Taken(lines, T)[k])]
  BY DEF PlantUMLLinks
<1>3. /\ DOMAIN names \subseteq Nat
      /\ \A m \in DOMAIN names :
           \/ \E a : names[m] = <<a>>
           \/ \E k \in Lines : k.is \notin {"divider", "blank"} /\ names[m] = LineText(k)
  BY PlantUMLNamesFacts
<1> HIDE DEF T, names
<1>4. LET d == DrawnFrom(names, [k \in DOMAIN Taken(lines, T) |-> SplitAtArrow(Taken(lines, T)[k])])
      IN  SoundDiagram(d) /\ FollowsLines(d, head, lines)
  BY <1>1, <1>3, ArrowsFollow
<1> QED
  BY <1>2, <1>4 DEF names

\* What a line of Mermaid declares has a name of one word.
LEMMA NamesOnFacts ==
  ASSUME NEW lines \in Seq(Lines), NEW T \in SUBSET DOMAIN lines
  PROVE  LET names == NamesOn(Taken(lines, T))
         IN  /\ DOMAIN names \subseteq Nat
             /\ \A m \in DOMAIN names : \E a : names[m] = <<a>>
<1>1. /\ Cardinality(T) \in Nat
      /\ DOMAIN Taken(lines, T) = 1 .. Cardinality(T)
  BY SomeTaken
<1>2. 1 .. Cardinality(T) \subseteq Nat
  OBVIOUS
<1> QED
  BY <1>1, <1>2 DEF NamesOn

\* Names of one word agree with names of one word.
LEMMA OneWord ==
  ASSUME NEW a, NEW s, Lower(<<a>>) = Lower(s)
  PROVE  DOMAIN s = 1 .. 1
<1>1. DOMAIN <<a>> = 1 .. 1
  OBVIOUS
<1> QED
  BY <1>1, LowerFacts

LEMMA SequenceFollows ==
  ASSUME NEW lines \in Seq(Lines), NEW head
  PROVE  SoundDiagram(DrawnSequence(lines)) /\ FollowsLines(DrawnSequence(lines), head, lines)
<1> DEFINE T == {n \in DOMAIN lines : HasArrow(lines[n])}
           P == {n \in DOMAIN lines : lines[n].is = "participant"}
           names == NamesOn(Taken(lines, P))
<1>1. T \subseteq {n \in DOMAIN lines : HasArrow(lines[n])} /\ P \in SUBSET DOMAIN lines
  OBVIOUS
<1>2. DrawnSequence(lines) =
        DrawnFrom(names, [k \in DOMAIN Taken(lines, T) |-> SplitAtArrow(Taken(lines, T)[k])])
  BY DEF DrawnSequence
<1> HIDE DEF T, P
<1>3. DOMAIN names \subseteq Nat /\ \A m \in DOMAIN names : \E a : names[m] = <<a>>
  BY <1>1, NamesOnFacts
<1> HIDE DEF names
<1> QED
  BY <1>1, <1>2, <1>3, ArrowsFollow

LEMMA FlowFollows ==
  ASSUME NEW lines \in Seq(Lines), NEW head
  PROVE  SoundDiagram(DrawnFlow(lines)) /\ FollowsLines(DrawnFlow(lines), head, lines)
<1> DEFINE T == {n \in DOMAIN lines :
                   lines[n].is = "link" /\ lines[n].arrow \in {"-->", "-->>"}}
           P == {n \in DOMAIN lines : lines[n].is = "box" \/ (lines[n].is = "link" /\ lines[n].boxed)}
           names == NamesOn(Taken(lines, P))
           taken == Taken(lines, T)
           links == [k \in DOMAIN taken |-> Link(LeftText(taken[k]), FlowTarget(taken[k]))]
<1>1. T \in SUBSET DOMAIN lines /\ P \in SUBSET DOMAIN lines
  OBVIOUS
<1>2. DrawnFlow(lines) = DrawnFrom(names, links)
  BY DEF DrawnFlow
<1>3. \A n \in T : lines[n].is = "link" /\ n \in DOMAIN lines
  OBVIOUS
<1> HIDE DEF T, P
<1>4. DOMAIN names \subseteq Nat /\ \A m \in DOMAIN names : \E a : names[m] = <<a>>
  BY <1>1, NamesOnFacts
<1>5. /\ IsFiniteSet(DOMAIN taken) /\ DOMAIN taken \subseteq Int
      /\ \A k \in DOMAIN taken : \E n \in T : taken[k] = lines[n]
  BY <1>1, SomeTaken
<1> HIDE DEF names, taken
<1>6. ASSUME NEW k \in DOMAIN taken
      PROVE  \E n \in DOMAIN lines :
               /\ lines[n].is = "link"
               /\ \A m \in DOMAIN names :
                    /\ Lower(names[m]) = Lower(links[k].from) => links[k].from = LeftText(lines[n])
                    /\ Lower(names[m]) = Lower(links[k].to) =>
                         \/ links[k].to = <<lines[n].b>>
                         \/ head = "classDiagram" /\ links[k].to = <<lines[n].label>>
  <2>1. PICK n \in T : taken[k] = lines[n]
    BY <1>5
  <2> DEFINE l == lines[n]
  <2>2. l.is = "link" /\ n \in DOMAIN lines
    BY <1>3
  <2>3. links[k].from = LeftText(l) /\ links[k].to = FlowTarget(l)
    BY <2>1 DEF Link
  <2> HIDE DEF l, links
  <2>4. FlowTarget(l) = <<l.b>> \/ DOMAIN FlowTarget(l) # 1 .. 1
    <3> DEFINE S == {">", l.b, "|", l.label}
               head1 == IF l.arrow = "-->>" THEN <<">">> ELSE <<>>
               tail1 == IF l.label = "" THEN <<l.b>> ELSE <<"|", l.label, "|", l.b>>
    <3>1. head1 \in Seq(S) /\ tail1 \in Seq(S)
      <4>1. <<">">> \in Seq(S) /\ <<>> \in Seq(S)
        OBVIOUS
      <4>2. <<l.b>> \in Seq(S) /\ <<"|", l.label, "|", l.b>> \in Seq(S)
        OBVIOUS
      <4> HIDE DEF S
      <4> QED
        BY <4>1, <4>2
    <3>2. FlowTarget(l) = head1 \o tail1
      BY DEF FlowTarget
    <3>3. CASE l.arrow = "-->>"
      <4>1. Len(head1) = 1 /\ (Len(tail1) = 1 \/ Len(tail1) = 4)
        BY <3>3
      <4> HIDE DEF head1, tail1, S
      <4>2. PICK n1 \in {1, 4} : n1 = Len(tail1)
        BY <4>1
      <4>3. /\ head1 \o tail1 \in Seq(S)
            /\ Len(head1 \o tail1) = Len(head1) + Len(tail1)
        BY <3>1, ConcatProperties
      <4>4. Len(head1 \o tail1) = 1 + n1
        BY <4>1, <4>2, <4>3
      <4>5. DOMAIN (head1 \o tail1) = 1 .. Len(head1 \o tail1)
        BY <4>3, LenProperties
      <4>6. DOMAIN FlowTarget(l) = 1 .. 1 + n1
        BY <3>2, <4>4, <4>5
      <4>7. 2 \in 1 .. 1 + n1 /\ 2 \notin 1 .. 1
        OBVIOUS
      <4> QED
        BY <4>6, <4>7
    <3>4. CASE l.arrow # "-->>"
      <4>1. FlowTarget(l) = <<>> \o tail1
        BY <3>2, <3>4
      <4>2. FlowTarget(l) = tail1
        BY <3>1, <4>1, ConcatEmptySeq
      <4>3. DOMAIN <<"|", l.label, "|", l.b>> = 1 .. 4 /\ 2 \in 1 .. 4 /\ 2 \notin 1 .. 1
        OBVIOUS
      <4> QED
        BY <4>2, <4>3
    <3> QED
      BY <3>3, <3>4
  <2>5. \A m \in DOMAIN names : Lower(names[m]) = Lower(FlowTarget(l)) => FlowTarget(l) = <<l.b>>
    BY <1>4, <2>4, OneWord
  <2> QED
    BY <2>2, <2>3, <2>5 DEF l
<1>7. DOMAIN links = DOMAIN taken
  OBVIOUS
<1> HIDE DEF links
<1>8. SoundDiagram(DrawnFrom(names, links)) /\ FollowsLines(DrawnFrom(names, links), head, lines)
  BY <1>4, <1>5, <1>6, <1>7, DrawnFollows
<1> QED
  BY <1>2, <1>8

\* The first and the last of what a class diagram links.
LEMMA ClassWordsFacts ==
  ASSUME NEW l
  PROVE  /\ ClassWords(l)[1] = LeftText(l)
         /\ Last(ClassWords(l)) \in {<<l.b>>, <<l.label>>}
<1> DEFINE S == {LeftText(l), <<"mark">>, <<l.b>>, <<":">>, <<l.label>>}
           A == <<LeftText(l)>>
           M == IF l.arrow \in {"*--", "-->"} THEN <<<<"mark">>>> ELSE <<>>
           B == <<<<l.b>>>>
           C == IF l.label = "" THEN <<>> ELSE <<<<":">>, <<l.label>>>>
<1>1. ClassWords(l) = ((A \o M) \o B) \o C
  BY DEF ClassWords
<1>2. /\ A \in Seq(S) /\ Len(A) = 1 /\ A[1] = LeftText(l)
      /\ B \in Seq(S) /\ Len(B) = 1 /\ B[1] = <<l.b>>
  OBVIOUS
<1>3. M \in Seq(S) /\ Len(M) \in Nat
  <2>1. <<<<"mark">>>> \in Seq(S) /\ <<>> \in Seq(S)
    OBVIOUS
  <2> HIDE DEF S
  <2>2. M \in Seq(S)
    BY <2>1
  <2> HIDE DEF M
  <2> QED
    BY <2>2, LenProperties
<1>4. C \in Seq(S) /\ (Len(C) = 0 \/ (Len(C) = 2 /\ C[2] = <<l.label>>))
  <2>1. /\ <<<<":">>, <<l.label>>>> \in Seq(S) /\ Len(<<<<":">>, <<l.label>>>>) = 2
        /\ <<<<":">>, <<l.label>>>>[2] = <<l.label>>
        /\ <<>> \in Seq(S) /\ Len(<<>>) = 0
    OBVIOUS
  <2> HIDE DEF S
  <2> QED
    BY <2>1
<1> HIDE DEF S, A, M, B, C
<1>5. PICK m \in Nat : m = Len(M)
  BY <1>3
<1>6. /\ A \o M \in Seq(S) /\ Len(A \o M) = 1 + m /\ (A \o M)[1] = LeftText(l)
  <2>1. /\ A \o M \in Seq(S) /\ Len(A \o M) = Len(A) + Len(M)
        /\ \A i \in 1 .. Len(A) + Len(M) :
             (A \o M)[i] = IF i <= Len(A) THEN A[i] ELSE M[i - Len(A)]
    BY <1>2, <1>3, ConcatProperties
  <2>2. 1 \in 1 .. 1 + m /\ 1 <= 1
    OBVIOUS
  <2> QED
    BY <1>2, <1>5, <2>1, <2>2
<1> DEFINE AM == A \o M
<1> HIDE DEF AM
<1>7. /\ AM \o B \in Seq(S) /\ Len(AM \o B) = 2 + m
      /\ (AM \o B)[1] = LeftText(l) /\ (AM \o B)[2 + m] = <<l.b>>
  <2>1. AM \in Seq(S) /\ Len(AM) = 1 + m /\ AM[1] = LeftText(l)
    BY <1>6 DEF AM
  <2>2. /\ AM \o B \in Seq(S) /\ Len(AM \o B) = (1 + m) + 1
        /\ \A i \in 1 .. (1 + m) + 1 :
             (AM \o B)[i] = IF i <= 1 + m THEN AM[i] ELSE B[i - (1 + m)]
    <3>1. /\ AM \o B \in Seq(S) /\ Len(AM \o B) = Len(AM) + Len(B)
          /\ \A i \in 1 .. Len(AM) + Len(B) :
               (AM \o B)[i] = IF i <= Len(AM) THEN AM[i] ELSE B[i - Len(AM)]
      BY <1>2, <2>1, ConcatProperties
    <3> QED
      BY <1>2, <2>1, <3>1
  <2>3. /\ 1 \in 1 .. (1 + m) + 1 /\ 2 + m \in 1 .. (1 + m) + 1 /\ 1 <= 1 + m
        /\ ~ (2 + m <= 1 + m) /\ (2 + m) - (1 + m) = 1 /\ (1 + m) + 1 = 2 + m
    OBVIOUS
  <2> QED
    BY <1>2, <2>1, <2>2, <2>3
<1> DEFINE AB == AM \o B
<1> HIDE DEF AB
<1>8. PICK c \in {0, 2} : c = Len(C)
  BY <1>4
<1>9. /\ Len(AB \o C) = (2 + m) + c
      /\ \A i \in 1 .. (2 + m) + c : (AB \o C)[i] = IF i <= 2 + m THEN AB[i] ELSE C[i - (2 + m)]
  <2>1. AB \in Seq(S) /\ Len(AB) = 2 + m
    BY <1>7 DEF AB
  <2>2. /\ Len(AB \o C) = Len(AB) + Len(C)
        /\ \A i \in 1 .. Len(AB) + Len(C) :
             (AB \o C)[i] = IF i <= Len(AB) THEN AB[i] ELSE C[i - Len(AB)]
    BY <1>4, <2>1, ConcatProperties
  <2> QED
    BY <1>8, <2>1, <2>2
<1>10. AB[1] = LeftText(l) /\ AB[2 + m] = <<l.b>> /\ ClassWords(l) = AB \o C
  BY <1>1, <1>7 DEF AB, AM
<1>11. ClassWords(l)[1] = LeftText(l)
  <2>1. 1 \in 1 .. (2 + m) + c /\ 1 <= 2 + m
    OBVIOUS
  <2> QED
    BY <1>9, <1>10, <2>1
<1>12. Last(ClassWords(l)) = (AB \o C)[(2 + m) + c]
  BY <1>9, <1>10 DEF Last
<1>13. CASE c = 0
  <2>1. (2 + m) + c \in 1 .. (2 + m) + c /\ (2 + m) + c = 2 + m /\ (2 + m) + c <= 2 + m
    BY <1>13
  <2> QED
    BY <1>9, <1>10, <1>11, <1>12, <2>1
<1>14. CASE c = 2
  <2>1. /\ (2 + m) + c \in 1 .. (2 + m) + c /\ ~ ((2 + m) + c <= 2 + m)
        /\ ((2 + m) + c) - (2 + m) = 2
    BY <1>14
  <2>2. C[2] = <<l.label>>
    BY <1>4, <1>8, <1>14
  <2> QED
    BY <1>9, <1>11, <1>12, <2>1, <2>2
<1> QED
  BY <1>13, <1>14

LEMMA ClassesFollow ==
  ASSUME NEW lines \in Seq(Lines)
  PROVE  /\ SoundDiagram(DrawnClasses(lines))
         /\ FollowsLines(DrawnClasses(lines), "classDiagram", lines)
<1> DEFINE T == {n \in DOMAIN lines : IsRelation(lines[n])}
           P == {n \in DOMAIN lines : lines[n].is = "class"}
           names == NamesOn(Taken(lines, P))
           taken == Taken(lines, T)
           links == [k \in DOMAIN taken |-> Link(ClassWords(taken[k])[1], Last(ClassWords(taken[k])))]
<1>1. T \in SUBSET DOMAIN lines /\ P \in SUBSET DOMAIN lines
  OBVIOUS
<1>2. DrawnClasses(lines) = DrawnFrom(names, links)
  BY DEF DrawnClasses
<1>3. \A n \in T : lines[n].is = "link" /\ n \in DOMAIN lines
  BY DEF IsRelation
<1> HIDE DEF T, P
<1>4. DOMAIN names \subseteq Nat /\ \A m \in DOMAIN names : \E a : names[m] = <<a>>
  BY <1>1, NamesOnFacts
<1>5. /\ IsFiniteSet(DOMAIN taken) /\ DOMAIN taken \subseteq Int
      /\ \A k \in DOMAIN taken : \E n \in T : taken[k] = lines[n]
  BY <1>1, SomeTaken
<1> HIDE DEF names, taken
<1>6. ASSUME NEW k \in DOMAIN taken
      PROVE  \E n \in DOMAIN lines :
               /\ lines[n].is = "link"
               /\ links[k].from = LeftText(lines[n])
               /\ links[k].to \in {<<lines[n].b>>, <<lines[n].label>>}
  <2>1. PICK n \in T : taken[k] = lines[n]
    BY <1>5
  <2>2. /\ links[k].from = ClassWords(lines[n])[1]
        /\ links[k].to = Last(ClassWords(lines[n]))
    BY <2>1 DEF Link
  <2> HIDE DEF links
  <2> QED
    BY <1>3, <2>2, ClassWordsFacts
<1>7. DOMAIN links = DOMAIN taken
  OBVIOUS
<1> HIDE DEF links
<1>8. /\ SoundDiagram(DrawnFrom(names, links))
      /\ FollowsLines(DrawnFrom(names, links), "classDiagram", lines)
  <2>1. \A k \in DOMAIN links : \E n \in DOMAIN lines :
           /\ lines[n].is = "link"
           /\ \A m \in DOMAIN names :
                /\ Lower(names[m]) = Lower(links[k].from) => links[k].from = LeftText(lines[n])
                /\ Lower(names[m]) = Lower(links[k].to) =>
                     \/ links[k].to = <<lines[n].b>>
                     \/ "classDiagram" = "classDiagram" /\ links[k].to = <<lines[n].label>>
    BY <1>6, <1>7
  <2>2. DOMAIN names \subseteq Nat /\ IsFiniteSet(DOMAIN links) /\ DOMAIN links \subseteq Int
    BY <1>4, <1>5, <1>7
  <2> QED
    BY <2>1, <2>2, DrawnFollows
<1> QED
  BY <1>2, <1>8

\* What is drawn from a text follows its lines.
LEMMA TextFollows ==
  ASSUME NEW text, text.lines \in Seq(Lines)
  PROVE  SoundDiagram(FromText(text)) /\ FollowsLines(FromText(text), text.head, text.lines)
<1>1. CASE IsPlantUML(text)
  BY <1>1, PlantUMLFollows DEF FromText
<1>2. CASE ~IsPlantUML(text) /\ IsMermaid(text)
  <2>1. FromText(text) = DrawnMermaid(text.head, text.lines)
    BY <1>2 DEF FromText
  <2>2. CASE text.head = "classDiagram"
    BY <2>1, <2>2, ClassesFollow DEF DrawnMermaid
  <2>3. CASE text.head = "sequenceDiagram"
    BY <2>1, <2>3, SequenceFollows DEF DrawnMermaid
  <2>4. CASE text.head \notin {"classDiagram", "sequenceDiagram"}
    BY <2>1, <2>4, FlowFollows DEF DrawnMermaid
  <2> QED
    BY <2>2, <2>3, <2>4
<1>3. CASE ~IsPlantUML(text) /\ ~IsMermaid(text)
  <2>1. FromText(text) = NoDiagram
    BY <1>3 DEF FromText
  <2>2. DOMAIN <<>> = {}
    OBVIOUS
  <2> QED
    BY <2>1, <2>2, NothingDrawn DEF FollowsLines
<1> QED
  BY <1>1, <1>2, <1>3

\* What is drawn from nodes and edges with names of their own.
LEMMA NamedDiagram ==
  ASSUME NEW names, DOMAIN names \subseteq Int, NEW es, DOMAIN es \subseteq Int,
         \A n \in DOMAIN es : \E from, to : es[n] = EdgeFrom(n, from, to),
         NEW confidence \in Nat \ {0}
  PROVE  SoundDiagram(Drawn(NodesOf(names), es, confidence))
<1> DEFINE number == [n \in DOMAIN es |-> n]
<1>1. SoundNodes(NodesOf(names))
  BY NodesOfFacts
<1>2. SoundEdges(es)
  <2>1. /\ \A k \in DOMAIN es : number[k] \in Int
        /\ \A j, k \in DOMAIN es : number[j] = number[k] => j = k
        /\ \A k \in DOMAIN es : \E from, to : es[k] = EdgeFrom(number[k], from, to)
    <3>1. \A k \in DOMAIN es : number[k] = k
      OBVIOUS
    <3> HIDE DEF number
    <3> QED
      BY <3>1
  <2> HIDE DEF number
  <2> QED
    BY <2>1, NumberedEdges
<1> QED
  BY <1>1, <1>2, DrawnFacts

LEMMA CellsReadType ==
  ASSUME NEW file, file.models \in Seq(Seq(Cells))
  PROVE  CellsRead(file) \in Seq(Cells)
<1> DEFINE models == file.models
           broken == {n \in DOMAIN models : models[n] = <<>>}
<1>1. ModelsRead(models) \in Seq(Seq(Cells))
  <2>1. CASE broken = {}
    BY <2>1 DEF ModelsRead
  <2>2. CASE broken # {}
    <3>1. DOMAIN models = 1 .. Len(models) /\ Len(models) \in Nat
      BY LenProperties
    <3>2. broken \in SUBSET Nat
      BY <3>1
    <3>3. Min(broken) \in broken
      <4> HIDE DEF broken
      <4>1. \E x \in broken : \A y \in broken : x <= y
        BY <2>2, <3>2, LeastNatural
      <4> QED
        BY <4>1 DEF Min
    <3>4. Min(broken) \in 1 .. Len(models)
      BY <3>1, <3>3
    <3>5. ModelsRead(models) = SubSeq(models, 1, Min(broken) - 1)
      BY <2>2 DEF ModelsRead
    <3> HIDE DEF broken
    <3>6. \A i \in 1 .. Min(broken) - 1 : models[i] \in Seq(Cells)
      <4>1. \A i \in 1 .. Min(broken) - 1 : i \in 1 .. Len(models)
        BY <3>1, <3>4
      <4> QED
        BY <3>1, <4>1, ElementOfSeq
    <3>7. SubSeq(models, 1, Min(broken) - 1) \in Seq(Seq(Cells))
      <4>1. 1 \in Int /\ Min(broken) - 1 \in Int
        BY <3>1, <3>4
      <4> QED
        BY <3>6, <4>1, SubSeqProperties
    <3> QED
      BY <3>5, <3>7
  <2> QED
    BY <2>1, <2>2
<1>2. CASE file.root
  BY <1>1, <1>2, FlattenSeqType DEF CellsRead
<1>3. CASE ~file.root
  BY <1>3 DEF CellsRead
<1> QED
  BY <1>2, <1>3

LEMMA DrawIOSound ==
  ASSUME NEW file, file.models \in Seq(Seq(Cells))
  PROVE  SoundDiagram(FromDrawIO(file))
<1> DEFINE cells == CellsRead(file)
           elements == Taken(cells, {n \in DOMAIN cells : ~cells[n].edge})
           connections == Taken(cells, {n \in DOMAIN cells : cells[n].edge})
           names == [n \in DOMAIN elements |->
                       IF elements[n].value = <<>> THEN elements[n].id ELSE elements[n].value]
           es == [n \in DOMAIN connections |-> EdgeFrom(n, connections[n].from, connections[n].to)]
<1>1. FromDrawIO(file) = Drawn(NodesOf(names), es, 90)
  BY DEF FromDrawIO
<1>2. DOMAIN elements \subseteq Int /\ DOMAIN connections \subseteq Int
  <2> DEFINE E == {n \in DOMAIN cells : ~cells[n].edge}
             C == {n \in DOMAIN cells : cells[n].edge}
  <2>1. cells \in Seq(Cells)
    BY CellsReadType
  <2>2. E \in SUBSET DOMAIN cells /\ C \in SUBSET DOMAIN cells
    OBVIOUS
  <2> HIDE DEF E, C, cells
  <2>3. /\ Cardinality(E) \in Nat /\ DOMAIN Taken(cells, E) = 1 .. Cardinality(E)
        /\ Cardinality(C) \in Nat /\ DOMAIN Taken(cells, C) = 1 .. Cardinality(C)
    BY <2>1, <2>2, SomeTaken
  <2>4. DOMAIN Taken(cells, E) \subseteq Int /\ DOMAIN Taken(cells, C) \subseteq Int
    BY <2>3
  <2> QED
    BY <2>4 DEF E, C
<1> HIDE DEF elements, connections
<1>3. /\ DOMAIN names \subseteq Int /\ DOMAIN es \subseteq Int
      /\ \A n \in DOMAIN es : \E from, to : es[n] = EdgeFrom(n, from, to)
      /\ 90 \in Nat \ {0}
  BY <1>2
<1> HIDE DEF names, es
<1> QED
  BY <1>1, <1>3, NamedDiagram

LEMMA VisionSound ==
  ASSUME NEW seen \in Visions
  PROVE  SoundDiagram(FromVision(seen))
<1> DEFINE es == [n \in DOMAIN seen.relations |->
                       EdgeFrom(n, seen.relations[n].from, seen.relations[n].to)]
<1>1. FromVision(seen) = Drawn(NodesOf(seen.entities), es, 85)
  BY DEF FromVision
<1>2. DOMAIN seen.entities \subseteq Int /\ DOMAIN seen.relations \subseteq Int
  <2>1. seen.entities \in Seq(Names) /\ seen.relations \in Seq(Relations)
    BY DrawingsAssumption
  <2>2. DOMAIN seen.entities = 1 .. Len(seen.entities) /\ DOMAIN seen.relations = 1 .. Len(seen.relations)
    BY <2>1, LenProperties
  <2> QED
    BY <2>2
<1>3. /\ DOMAIN es \subseteq Int
      /\ \A n \in DOMAIN es : \E from, to : es[n] = EdgeFrom(n, from, to)
      /\ 85 \in Nat \ {0}
  BY <1>2
<1> HIDE DEF es
<1> QED
  BY <1>1, <1>2, <1>3, NamedDiagram

\* Whatever a request gives, what is drawn from it is sound.
LEMMA ContentSound ==
  ASSUME NEW d \in Drawings, d.form # "image"
  PROVE  /\ SoundDiagram(FromContent(d))
         /\ d.form = "text" => FollowsLines(FromContent(d), d.head, d.lines)
<1>1. CASE d.form = "text"
  <2>1. d.lines \in Seq(Lines)
    BY <1>1, DrawingsAssumption
  <2> QED
    BY <1>1, <2>1, TextFollows DEF FromContent
<1>2. CASE d.form = "drawio"
  <2>1. d.models \in Seq(Seq(Cells))
    BY <1>2, DrawingsAssumption
  <2> QED
    BY <1>2, <2>1, DrawIOSound DEF FromContent
<1>3. CASE d.form = "openapi"
  <2>1. d.servers \in Seq(Names)
    BY <1>3, DrawingsAssumption
  <2>2. DOMAIN d.servers = 1 .. Len(d.servers)
    BY <2>1, LenProperties
  <2>3. DOMAIN d.servers \subseteq Int /\ DOMAIN <<>> = {} /\ 90 \in Nat \ {0}
    BY <2>2
  <2>4. SoundDiagram(Drawn(NodesOf(d.servers), <<>>, 90))
    BY <2>3, NamedDiagram
  <2> QED
    BY <1>3, <2>4 DEF FromContent
<1>4. CASE d.form \in {"bpmn", "none"}
  BY <1>4, NothingDrawn DEF FromContent
<1> QED
  BY <1>1, <1>2, <1>3, <1>4, DrawingsAssumption

\* What of a diagram the enrichment keeps.
SameDrawing(d, e) ==
  /\ e = [nodes |-> e.nodes, edges |-> e.edges, confidence |-> e.confidence]
  /\ e.confidence \in Nat /\ (e.confidence > 0 <=> e.nodes # <<>>)
  /\ DOMAIN e.nodes = DOMAIN d.nodes /\ DOMAIN e.edges = DOMAIN d.edges
  /\ e.nodes = <<>> <=> d.nodes = <<>>
  /\ \A n \in DOMAIN d.nodes :
       IsNode(e.nodes[n]) /\ e.nodes[n].id = d.nodes[n].id /\ e.nodes[n].name = d.nodes[n].name
  /\ \A n \in DOMAIN d.edges :
       /\ IsEdge(e.edges[n]) /\ e.edges[n].id = d.edges[n].id
       /\ e.edges[n].from = d.edges[n].from /\ e.edges[n].to = d.edges[n].to

LEMMA EnrichmentKeeps ==
  ASSUME NEW d, NEW e, SoundDiagram(d), SameDrawing(d, e)
  PROVE  /\ SoundDiagram(e)
         /\ \A head, lines : FollowsLines(d, head, lines) => FollowsLines(e, head, lines)
<1>1. SoundNodes(e.nodes) /\ SoundEdges(e.edges)
  BY DEF SoundDiagram, SameDrawing, SoundNodes, SoundEdges, OwnIds
<1>2. SoundDiagram(e)
  BY <1>1 DEF SoundDiagram, SameDrawing
<1>3. \A id, name : Written(d, id, name) => Written(e, id, name)
  BY DEF Written, SameDrawing
<1>4. ASSUME NEW head, NEW lines, FollowsLines(d, head, lines)
      PROVE  FollowsLines(e, head, lines)
  <2> SUFFICES ASSUME NEW k \in DOMAIN e.edges
               PROVE  \E n \in DOMAIN lines : LineJoins(e, e.edges[k], lines[n], head)
    BY DEF FollowsLines
  <2>1. k \in DOMAIN d.edges /\ e.edges[k].from = d.edges[k].from /\ e.edges[k].to = d.edges[k].to
    BY DEF SameDrawing
  <2>2. PICK n \in DOMAIN lines : LineJoins(d, d.edges[k], lines[n], head)
    BY <1>4, <2>1 DEF FollowsLines
  <2>3. LineJoins(e, e.edges[k], lines[n], head)
    BY <1>3, <2>1, <2>2 DEF LineJoins
  <2> QED
    BY <2>3
<1> QED
  BY <1>2, <1>4

\* The diagram of a request is sound and follows its lines; what waits has nodes.
DiagramsInv ==
  /\ drawing \in Drawings
  /\ SoundDiagram(diagram)
  /\ drawing.form = "text" => FollowsLines(diagram, drawing.head, drawing.lines)
  /\ drawn \in {"embedding", "node types", "edge types"} => diagram.nodes # <<>>

LEMMA InvHangsTogether == DiagramsInv => DiagramsHangTogether
<1> SUFFICES ASSUME DiagramsInv
             PROVE  DiagramsHangTogether
  OBVIOUS
<1>1. ASSUME drawing.form = "text", NEW e \in DOMAIN diagram.edges
      PROVE  \E n \in DOMAIN drawing.lines :
               LET l == drawing.lines[n]
               IN  /\ l.is = "link" /\ WrittenAs(diagram.edges[e].from, LeftText(l))
                   /\ \/ WrittenAs(diagram.edges[e].to, <<l.b>>)
                      \/ drawing.head = "classDiagram" /\ WrittenAs(diagram.edges[e].to, <<l.label>>)
  <2>1. \A id, name : Written(diagram, id, name) <=> WrittenAs(id, name)
    BY DEF Written, WrittenAs
  <2> QED
    BY <1>1, <2>1 DEF DiagramsInv, FollowsLines, LineJoins
<1>2. \A s \in {diagram.nodes, diagram.edges} : \A n, m \in DOMAIN s : s[n].id = s[m].id => n = m
  BY DEF DiagramsInv, SoundDiagram, SoundNodes, SoundEdges, OwnIds
<1>3. diagram.confidence > 0 <=> diagram.nodes # <<>>
  BY DEF DiagramsInv, SoundDiagram
<1> QED
  BY <1>1, <1>2, <1>3 DEF DiagramsHangTogether

LEMMA EnrichedConfidence ==
  ASSUME NEW d, SoundDiagram(d), d.nodes # <<>>
  PROVE  /\ Enriched(d) = [nodes |-> d.nodes, edges |-> d.edges, confidence |-> Enriched(d).confidence]
         /\ Enriched(d).confidence \in Nat \ {0}
<1>1. /\ d = [nodes |-> d.nodes, edges |-> d.edges, confidence |-> d.confidence]
      /\ d.confidence \in Nat
  BY DEF SoundDiagram
<1>2. Enriched(d) = [nodes |-> d.nodes, edges |-> d.edges,
                     confidence |-> IF d.confidence + 10 > 100 THEN 100 ELSE d.confidence + 10]
  BY <1>1 DEF Enriched
<1>3. (IF d.confidence + 10 > 100 THEN 100 ELSE d.confidence + 10) \in Nat \ {0}
  BY <1>1
<1> QED
  BY <1>2, <1>3

LEMMA NodeTypesKeep ==
  ASSUME NEW d, SoundDiagram(d), d.nodes # <<>>, NEW names
  PROVE  LET typed == [d EXCEPT !.nodes =
                         [n \in DOMAIN @ |-> [@[n] EXCEPT !.inferred = d.nodes[n].name \in names]]]
         IN  SameDrawing(d, typed) /\ SameDrawing(d, Enriched(typed))
<1> DEFINE typed == [d EXCEPT !.nodes =
                       [n \in DOMAIN @ |-> [@[n] EXCEPT !.inferred = d.nodes[n].name \in names]]]
<1>1. /\ d = [nodes |-> d.nodes, edges |-> d.edges, confidence |-> d.confidence]
      /\ d.confidence \in Nat /\ (d.confidence > 0 <=> d.nodes # <<>>)
      /\ \A n \in DOMAIN d.nodes : IsNode(d.nodes[n])
      /\ \A n \in DOMAIN d.edges : IsEdge(d.edges[n])
      /\ DOMAIN d.nodes # {}
  BY DEF SoundDiagram, SoundNodes, SoundEdges
<1>2. /\ typed = [nodes |-> typed.nodes, edges |-> d.edges, confidence |-> d.confidence]
      /\ DOMAIN typed.nodes = DOMAIN d.nodes
      /\ \A n \in DOMAIN d.nodes :
           typed.nodes[n] = [d.nodes[n] EXCEPT !.inferred = d.nodes[n].name \in names]
  <2> DEFINE ns == [n \in DOMAIN d.nodes |->
                         [d.nodes[n] EXCEPT !.inferred = d.nodes[n].name \in names]]
  <2>1. typed = [d EXCEPT !.nodes = ns]
    OBVIOUS
  <2>2. /\ DOMAIN ns = DOMAIN d.nodes
        /\ \A n \in DOMAIN d.nodes :
             ns[n] = [d.nodes[n] EXCEPT !.inferred = d.nodes[n].name \in names]
    OBVIOUS
  <2> HIDE DEF ns, typed
  <2>3. typed = [nodes |-> ns, edges |-> d.edges, confidence |-> d.confidence]
    BY <1>1, <2>1
  <2> QED
    BY <2>2, <2>3
<1> HIDE DEF typed
<1>3. ASSUME NEW n \in DOMAIN d.nodes
      PROVE  /\ IsNode(typed.nodes[n]) /\ typed.nodes[n].id = d.nodes[n].id
             /\ typed.nodes[n].name = d.nodes[n].name
  BY <1>1, <1>2 DEF IsNode
<1>4. typed.nodes # <<>>
  <2>1. DOMAIN <<>> = {}
    OBVIOUS
  <2> QED
    BY <1>1, <1>2, <2>1
<1>5. SameDrawing(d, typed)
  BY <1>1, <1>2, <1>3, <1>4 DEF SameDrawing
<1>6. SameDrawing(d, Enriched(typed))
  <2>1. SoundDiagram(typed)
    BY <1>5, EnrichmentKeeps
  <2>2. /\ Enriched(typed) = [nodes |-> typed.nodes, edges |-> typed.edges,
                              confidence |-> Enriched(typed).confidence]
        /\ Enriched(typed).confidence \in Nat \ {0}
    BY <1>4, <2>1, EnrichedConfidence
  <2> DEFINE e == Enriched(typed)
  <2> HIDE DEF e
  <2>3. /\ e = [nodes |-> e.nodes, edges |-> e.edges, confidence |-> e.confidence]
        /\ e.nodes = typed.nodes /\ e.edges = typed.edges
        /\ e.confidence \in Nat /\ e.confidence > 0
    BY <2>2 DEF e
  <2>4. SameDrawing(d, e)
    BY <1>4, <1>5, <2>3 DEF SameDrawing
  <2> QED
    BY <2>4 DEF e
<1> QED
  BY <1>5, <1>6 DEF typed

LEMMA EdgeTypesKeep ==
  ASSUME NEW d, SoundDiagram(d), d.nodes # <<>>, NEW pairs
  PROVE  SameDrawing(d, Enriched([d EXCEPT !.edges =
           [n \in DOMAIN @ |-> [@[n] EXCEPT !.inferred = <<d.edges[n].from, d.edges[n].to>> \in pairs]]]))
<1> DEFINE typed == [d EXCEPT !.edges =
             [n \in DOMAIN @ |-> [@[n] EXCEPT !.inferred = <<d.edges[n].from, d.edges[n].to>> \in pairs]]]
<1>1. /\ d = [nodes |-> d.nodes, edges |-> d.edges, confidence |-> d.confidence]
      /\ d.confidence \in Nat /\ (d.confidence > 0 <=> d.nodes # <<>>)
      /\ \A n \in DOMAIN d.nodes : IsNode(d.nodes[n])
      /\ \A n \in DOMAIN d.edges : IsEdge(d.edges[n])
  BY DEF SoundDiagram, SoundNodes, SoundEdges
<1>2. /\ typed = [nodes |-> d.nodes, edges |-> typed.edges, confidence |-> d.confidence]
      /\ DOMAIN typed.edges = DOMAIN d.edges
      /\ \A n \in DOMAIN d.edges :
           typed.edges[n] = [d.edges[n] EXCEPT !.inferred = <<d.edges[n].from, d.edges[n].to>> \in pairs]
  <2> DEFINE es == [n \in DOMAIN d.edges |->
             [d.edges[n] EXCEPT !.inferred = <<d.edges[n].from, d.edges[n].to>> \in pairs]]
  <2>1. typed = [d EXCEPT !.edges = es]
    OBVIOUS
  <2>2. /\ DOMAIN es = DOMAIN d.edges
        /\ \A n \in DOMAIN d.edges : es[n] =
             [d.edges[n] EXCEPT !.inferred = <<d.edges[n].from, d.edges[n].to>> \in pairs]
    OBVIOUS
  <2> HIDE DEF es, typed
  <2>3. typed = [nodes |-> d.nodes, edges |-> es, confidence |-> d.confidence]
    BY <1>1, <2>1
  <2> QED
    BY <2>2, <2>3
<1> HIDE DEF typed
<1>3. ASSUME NEW n \in DOMAIN d.edges
      PROVE  /\ IsEdge(typed.edges[n]) /\ typed.edges[n].id = d.edges[n].id
             /\ typed.edges[n].from = d.edges[n].from /\ typed.edges[n].to = d.edges[n].to
  BY <1>1, <1>2 DEF IsEdge
<1>4. SameDrawing(d, typed) /\ typed.nodes = d.nodes
  BY <1>1, <1>2, <1>3 DEF SameDrawing
<1>5. SoundDiagram(typed)
  BY <1>4, EnrichmentKeeps
<1>6. /\ Enriched(typed) = [nodes |-> typed.nodes, edges |-> typed.edges,
                            confidence |-> Enriched(typed).confidence]
      /\ Enriched(typed).confidence \in Nat \ {0}
  BY <1>4, <1>5, EnrichedConfidence
<1> DEFINE e == Enriched(typed)
<1> HIDE DEF e
<1>7. /\ e = [nodes |-> e.nodes, edges |-> e.edges, confidence |-> e.confidence]
      /\ e.nodes = typed.nodes /\ e.edges = typed.edges
      /\ e.confidence \in Nat /\ e.confidence > 0
  BY <1>6 DEF e
<1>8. SameDrawing(d, e)
  BY <1>4, <1>7 DEF SameDrawing
<1> QED
  BY <1>8 DEF e, typed

\* Every step keeps the invariant.
THEOREM DiagramsInvariant == DiagramsInit /\ [][DiagramsNext]_diagramVars => []DiagramsInv
<1>1. DiagramsInit => DiagramsInv
  <2> SUFFICES ASSUME DiagramsInit
               PROVE  DiagramsInv
    OBVIOUS
  <2>1. drawing \in Drawings /\ drawn = "asked" /\ diagram = NoDiagram /\ DOMAIN <<>> = {}
    BY DEF DiagramsInit
  <2> QED
    BY <2>1, NothingDrawn DEF DiagramsInv, FollowsLines
<1>2. DiagramsInv /\ [DiagramsNext]_diagramVars => DiagramsInv'
  <2> SUFFICES ASSUME DiagramsInv, [DiagramsNext]_diagramVars
               PROVE  DiagramsInv'
    OBVIOUS
  <2>1. /\ drawing \in Drawings /\ SoundDiagram(diagram)
        /\ drawing.form = "text" => FollowsLines(diagram, drawing.head, drawing.lines)
        /\ drawn \in {"embedding", "node types", "edge types"} => diagram.nodes # <<>>
    BY DEF DiagramsInv
  <2>2. ASSUME NEW d, Built(d), SoundDiagram(d),
               drawing.form = "text" => FollowsLines(d, drawing.head, drawing.lines)
        PROVE  DiagramsInv'
    <3>1. /\ diagram' = d /\ drawing' = drawing
          /\ drawn' = IF drawing.enrich /\ d.nodes # <<>> THEN "embedding" ELSE "sent"
      BY <2>2 DEF Built
    <3> QED
      BY <2>1, <2>2, <3>1 DEF DiagramsInv
  <2>3. CASE BuildFromText
    <3>1. CASE Raises(drawing) /\ drawn' = "raised" /\ UNCHANGED <<drawing, diagram>>
      BY <2>1, <3>1 DEF DiagramsInv
    <3>2. CASE Built(FromContent(drawing))
      <4>1. drawing.form # "image"
        BY <2>3 DEF BuildFromText
      <4> QED
        BY <2>1, <2>2, <3>2, <4>1, ContentSound
    <3> QED
      BY <2>3, <3>1, <3>2 DEF BuildFromText
  <2>4. CASE BuildFromImage
    <3>1. drawing.form # "text"
      BY <2>4 DEF BuildFromImage
    <3>2. CASE Built(NoDiagram)
      BY <2>2, <3>1, <3>2, NothingDrawn
    <3>3. ASSUME NEW seen \in Visions, Built(IF seen.odd THEN NoDiagram ELSE FromVision(seen))
          PROVE  DiagramsInv'
      BY <2>2, <3>1, <3>3, NothingDrawn, VisionSound
    <3> QED
      BY <2>4, <3>2, <3>3 DEF BuildFromImage
  <2>5. CASE Embed
    BY <2>1, <2>5 DEF Embed, DiagramsInv
  <2>6. ASSUME SameDrawing(diagram, diagram'), UNCHANGED drawing,
               drawn \in {"embedding", "node types", "edge types"}
        PROVE  DiagramsInv'
    <3>1. diagram'.nodes # <<>>
      BY <2>1, <2>6 DEF SameDrawing
    <3>2. /\ SoundDiagram(diagram')
          /\ drawing.form = "text" => FollowsLines(diagram', drawing.head, drawing.lines)
      BY <2>1, <2>6, EnrichmentKeeps
    <3> QED
      BY <2>1, <2>6, <3>1, <3>2 DEF DiagramsInv
  <2>7. CASE InferNodeTypes
    <3>1. drawn = "node types" /\ UNCHANGED drawing
      BY <2>7 DEF InferNodeTypes
    <3>2. PICK names :
            LET typed == [diagram EXCEPT !.nodes =
                            [n \in DOMAIN @ |->
                               [@[n] EXCEPT !.inferred = diagram.nodes[n].name \in names]]]
            IN  diagram' = typed \/ diagram' = Enriched(typed)
      BY <2>7 DEF InferNodeTypes
    <3> DEFINE typed == [diagram EXCEPT !.nodes =
                           [n \in DOMAIN @ |->
                              [@[n] EXCEPT !.inferred = diagram.nodes[n].name \in names]]]
    <3>4. SameDrawing(diagram, typed) /\ SameDrawing(diagram, Enriched(typed))
      BY <2>1, <3>1, NodeTypesKeep
    <3>5. diagram' = typed \/ diagram' = Enriched(typed)
      BY <3>2
    <3> HIDE DEF typed
    <3>3. SameDrawing(diagram, diagram')
      BY <3>4, <3>5
    <3> QED
      BY <2>6, <3>1, <3>3
  <2>8. CASE InferEdgeTypes
    <3>1. drawn = "edge types" /\ UNCHANGED drawing
      BY <2>8 DEF InferEdgeTypes
    <3>2. \E pairs : diagram' = Enriched([diagram EXCEPT !.edges =
            [n \in DOMAIN @ |->
               [@[n] EXCEPT !.inferred = <<diagram.edges[n].from, diagram.edges[n].to>> \in pairs]]])
      BY <2>8 DEF InferEdgeTypes
    <3>3. SameDrawing(diagram, diagram')
      BY <2>1, <3>1, <3>2, EdgeTypesKeep
    <3> QED
      BY <2>6, <3>1, <3>3
  <2>9. CASE UNCHANGED diagramVars
    BY <2>1, <2>9 DEF diagramVars, DiagramsInv
  <2> QED
    BY <2>3, <2>4, <2>5, <2>7, <2>8, <2>9 DEF DiagramsNext
<1> QED
  BY <1>1, <1>2, PTL

\* Edges drawn from text join what a line of it links, whatever is inferred after,
\* nodes and edges keep ids of their own, and only a diagram with nodes claims
\* confidence: DiagramIRBuilder, extract_diagram.
THEOREM DiagramsHangTogetherHolds ==
  DiagramsInit /\ [][DiagramsNext]_diagramVars => []DiagramsHangTogether
<1> QED
  BY DiagramsInvariant, InvHangsTogether, PTL

-----------------------------------------------------------------------------
(***************************************************************************)
(* Handlers                                                                *)
(*                                                                         *)
(* That the chunks of a text account for it is shown chunker by chunker,   *)
(* and then of each handler.                                               *)
(***************************************************************************)
\* Chunks that follow each other, with ids of their own.
Apart(chunks, n) ==
  /\ n \in Nat /\ DOMAIN chunks = 1 .. n
  /\ \A j, k \in 1 .. n :
       j < k => chunks[j].index < chunks[k].index /\ chunks[j].id # chunks[k].id

Found(parts, units) == \A i \in units : \E k \in DOMAIN parts : i \in parts[k].units

LEMMA ApartAccount ==
  ASSUME NEW chunks, NEW n, Apart(chunks, n), NEW units, Found(chunks, units)
  PROVE  AccountsFor(chunks, units)
<1>1. ASSUME NEW i \in DOMAIN chunks, NEW j \in DOMAIN chunks, i # j
      PROVE  chunks[i].id # chunks[j].id
  <2>1. i \in 1 .. n /\ j \in 1 .. n /\ (i < j \/ j < i)
    BY <1>1 DEF Apart
  <2> QED
    BY <2>1 DEF Apart
<1>2. ASSUME NEW i \in DOMAIN chunks, NEW j \in DOMAIN chunks, i < j
      PROVE  chunks[i].index < chunks[j].index
  BY <1>2 DEF Apart
<1>3. units \subseteq UNION {chunks[k].units : k \in DOMAIN chunks}
  BY DEF Found
<1> QED
  BY <1>1, <1>2, <1>3 DEF AccountsFor

\* No chunks, or one.
LEMMA NoneAccount ==
  AccountsFor(<<>>, {})
BY DEF AccountsFor

LEMMA OneAccounts ==
  ASSUME NEW id, NEW index, NEW name, NEW places, NEW units, units \subseteq places
  PROVE  AccountsFor(<<NewChunk(id, index, name, places)>>, units)
<1> DEFINE one == NewChunk(id, index, name, places)
<1>1. one.units = places
  BY DEF NewChunk
<1> HIDE DEF one
<1>2. DOMAIN <<one>> = {1} /\ <<one>>[1] = one
  OBVIOUS
<1>3. \A i, j \in DOMAIN <<one>> : i = j /\ ~ i < j
  BY <1>2
<1>4. units \subseteq UNION {<<one>>[k].units : k \in DOMAIN <<one>>}
  BY <1>1, <1>2
<1> QED
  BY <1>3, <1>4 DEF AccountsFor, one

LEMMA WholeAccounts ==
  ASSUME NEW text, NEW id, NEW units, units \subseteq DOMAIN text
  PROVE  AccountsFor(Whole(text, id), units)
BY OneAccounts DEF Whole

\* Chunks that account for more account for less.
LEMMA AccountForLess ==
  ASSUME NEW chunks, NEW units, AccountsFor(chunks, units), NEW fewer, fewer \subseteq units
  PROVE  AccountsFor(chunks, fewer)
BY DEF AccountsFor

\* The places of a text that satisfy a test are finitely many.
LEMMA PlacesOfText ==
  ASSUME NEW text, IsList(text), NEW S, S \subseteq DOMAIN text
  PROVE  /\ IsFiniteSet(S) /\ S \subseteq Int
         /\ IsFiniteSet(DOMAIN text)
<1>1. IsFiniteSet(1 .. Len(text)) /\ DOMAIN text = 1 .. Len(text)
  BY FS_Interval DEF IsList
<1> QED
  BY <1>1, FS_Subset DEF IsList

(* Windows *)

\* Before every number is a multiple of the step, less than a step away.
LEMMA MultipleBelow ==
  ASSUME NEW i \in Nat, NEW d \in Nat \ {0}
  PROVE  \E s \in 0 .. i : s % d = 0 /\ i - s < d
<1>1. (i - (i % d)) % d = 0
  <2>1. \A q \in Nat : (d * q) % d = 0
    OBVIOUS
  <2>2. i = d * (i \div d) + (i % d) /\ i \div d \in Nat /\ i % d \in Nat
    OBVIOUS
  <2>3. PICK q \in Nat : q = i \div d
    BY <2>2
  <2>4. i - (i % d) = d * q
    BY <2>2, <2>3
  <2> QED
    BY <2>1, <2>4
<1>2. i % d \in 0 .. d - 1 /\ i % d <= i
  OBVIOUS
<1>3. PICK r \in 0 .. d - 1 : r = i % d
  BY <1>2
<1>4. r <= i /\ (i - r) % d = 0
  BY <1>1, <1>2, <1>3
<1>5. i - r \in 0 .. i /\ i - (i - r) < d
  BY <1>4
<1> QED
  BY <1>4, <1>5

\* Every chunk is a record of the four fields.
Chunked(chunks) ==
  \A k \in DOMAIN chunks :
    chunks[k] = NewChunk(chunks[k].id, chunks[k].index, chunks[k].name, chunks[k].units)

LEMMA WindowsAccount ==
  ASSUME NEW text, IsList(text), NEW S \in SUBSET StartsBefore(Len(text))
  PROVE  LET chunks == WindowChunks(text, InOrder(S))
         IN /\ Apart(chunks, Cardinality(S)) /\ Chunked(chunks)
            /\ \A k \in DOMAIN chunks : chunks[k].units \subseteq DOMAIN text
            /\ Found(chunks, UNION {Window(text, s) : s \in S})
<1> DEFINE chunks == WindowChunks(text, InOrder(S))
           n == Cardinality(S)
<1>1. IsFiniteSet(S) /\ S \subseteq Nat /\ S \subseteq Int
  <2>1. StartsBefore(Len(text)) \subseteq 0 .. Len(text) - 1 /\ Len(text) \in Nat
    BY DEF StartsBefore, IsList
  <2>2. IsFiniteSet(0 .. Len(text) - 1)
    BY <2>1, FS_Interval
  <2> QED
    BY <2>1, <2>2, FS_Subset
<1>2. /\ n \in Nat /\ DOMAIN InOrder(S) = 1 .. n
      /\ \A k \in 1 .. n : InOrder(S)[k] \in S
      /\ \A j, k \in 1 .. n : j < k => InOrder(S)[j] < InOrder(S)[k]
      /\ \A i \in S : \E k \in 1 .. n : InOrder(S)[k] = i
  BY <1>1, InOrderFacts
<1> HIDE DEF n
<1>3. /\ DOMAIN chunks = 1 .. n
      /\ \A k \in 1 .. n :
           /\ chunks[k] = NewChunk(<<"", InOrder(S)[k]>>, k - 1, "", Window(text, InOrder(S)[k]))
           /\ chunks[k].id = <<"", InOrder(S)[k]>> /\ chunks[k].index = k - 1
           /\ chunks[k].name = "" /\ chunks[k].units = Window(text, InOrder(S)[k])
  BY <1>2 DEF WindowChunks, NewChunk
<1> HIDE DEF chunks
<1>4. Apart(chunks, n)
  <2> SUFFICES ASSUME NEW j \in 1 .. n, NEW k \in 1 .. n, j < k
               PROVE  chunks[j].index < chunks[k].index /\ chunks[j].id # chunks[k].id
    BY <1>2, <1>3 DEF Apart
  <2>1. InOrder(S)[j] < InOrder(S)[k] /\ InOrder(S)[j] \in Int /\ InOrder(S)[k] \in Int
    BY <1>1, <1>2
  <2>2. InOrder(S)[j] # InOrder(S)[k]
    BY <2>1
  <2>3. j - 1 < k - 1
    BY <1>2
  <2>4. <<"", InOrder(S)[j]>> # <<"", InOrder(S)[k]>>
    BY <2>2
  <2>5. /\ chunks[j].id = <<"", InOrder(S)[j]>> /\ chunks[j].index = j - 1
        /\ chunks[k].id = <<"", InOrder(S)[k]>> /\ chunks[k].index = k - 1
    BY <1>3
  <2> QED
    BY <2>3, <2>4, <2>5
<1>5. Chunked(chunks)
  BY <1>3 DEF Chunked
<1>6. \A k \in DOMAIN chunks : chunks[k].units \subseteq DOMAIN text
  <2>1. \A s \in S : Window(text, s) \subseteq DOMAIN text
    BY <1>1 DEF Window, IsList
  <2> SUFFICES ASSUME NEW k \in 1 .. n
               PROVE  chunks[k].units \subseteq DOMAIN text
    BY <1>3
  <2>2. InOrder(S)[k] \in S /\ chunks[k].units = Window(text, InOrder(S)[k])
    BY <1>2, <1>3
  <2> QED
    BY <2>1, <2>2
<1>7. Found(chunks, UNION {Window(text, s) : s \in S})
  <2> SUFFICES ASSUME NEW s \in S, NEW i \in Window(text, s)
               PROVE  \E k \in DOMAIN chunks : i \in chunks[k].units
    BY DEF Found
  <2>1. PICK k \in 1 .. n : InOrder(S)[k] = s
    BY <1>2
  <2> QED
    BY <1>3, <2>1
<1> QED
  BY <1>4, <1>5, <1>6, <1>7 DEF chunks, n

\* The windows of a text have all of it that is not blank.
LEMMA SlidingAccounts ==
  ASSUME NEW text, IsList(text)
  PROVE  \E n : /\ Apart(Sliding(text), n) /\ Chunked(Sliding(text))
                /\ \A k \in DOMAIN Sliding(text) : Sliding(text)[k].units \subseteq DOMAIN text
                /\ Found(Sliding(text), {i \in DOMAIN text : text[i] # "blank"})
<1> DEFINE S == {i \in StartsBefore(Len(text)) : \E j \in Window(text, i) : text[j] # "blank"}
           step == ChunkSize - ChunkOverlap
<1>1. Sliding(text) = WindowChunks(text, InOrder(S))
  BY DEF Sliding
<1>2. {i \in DOMAIN text : text[i] # "blank"} \subseteq UNION {Window(text, s) : s \in S}
  <2> SUFFICES ASSUME NEW i \in DOMAIN text, text[i] # "blank"
               PROVE  \E s \in S : i \in Window(text, s)
    OBVIOUS
  <2>1. i \in 1 .. Len(text) /\ Len(text) \in Nat
    BY DEF IsList
  <2>2. step \in Nat \ {0} /\ step <= ChunkSize /\ ChunkSize \in Nat
    BY ChunkAssumption
  <2>3. PICK s \in 0 .. i - 1 : s % step = 0 /\ (i - 1) - s < step
    <3>1. i - 1 \in Nat
      BY <2>1
    <3> HIDE DEF step
    <3> QED
      BY <2>2, <3>1, MultipleBelow
  <2>4. s \in StartsBefore(Len(text))
    BY <2>1, <2>3 DEF StartsBefore
  <2>5. i \in Window(text, s)
    <3>1. s + 1 <= i /\ i <= s + ChunkSize
      <4> HIDE DEF step
      <4> QED
        BY <2>1, <2>2, <2>3
    <3> QED
      BY <2>1, <2>2, <2>3, <3>1 DEF Window
  <2> QED
    BY <2>4, <2>5
<1>3. S \in SUBSET StartsBefore(Len(text))
  OBVIOUS
<1> HIDE DEF S
<1> DEFINE chunks == WindowChunks(text, InOrder(S))
<1>4. /\ Apart(chunks, Cardinality(S)) /\ Chunked(chunks)
      /\ \A k \in DOMAIN chunks : chunks[k].units \subseteq DOMAIN text
      /\ Found(chunks, UNION {Window(text, s) : s \in S})
  BY <1>3, WindowsAccount
<1> HIDE DEF chunks
<1>5. Found(chunks, {i \in DOMAIN text : text[i] # "blank"})
  BY <1>2, <1>4 DEF Found
<1> QED
  BY <1>1, <1>4, <1>5 DEF chunks

\* Chunks of the text at some places account for what is at those places.
LEMMA RelocatedAccount ==
  ASSUME NEW chunks, NEW n, Apart(chunks, n), Chunked(chunks), NEW units, Found(chunks, units),
         NEW places
  PROVE  /\ Apart(Relocated(chunks, places), n) /\ Chunked(Relocated(chunks, places))
         /\ Found(Relocated(chunks, places), {places[j] : j \in units})
<1> DEFINE moved == Relocated(chunks, places)
<1>1. /\ DOMAIN moved = DOMAIN chunks
      /\ \A k \in DOMAIN chunks :
           moved[k] = NewChunk(chunks[k].id, chunks[k].index, chunks[k].name,
                               {places[j] : j \in chunks[k].units})
  <2>1. ASSUME NEW k \in DOMAIN chunks
        PROVE  moved[k] = NewChunk(chunks[k].id, chunks[k].index, chunks[k].name,
                                   {places[j] : j \in chunks[k].units})
    <3>1. moved[k] = [chunks[k] EXCEPT !.units = {places[j] : j \in chunks[k].units}]
      BY DEF Relocated
    <3>2. chunks[k] = NewChunk(chunks[k].id, chunks[k].index, chunks[k].name, chunks[k].units)
      BY DEF Chunked
    <3> DEFINE id == chunks[k].id
               index == chunks[k].index
               name == chunks[k].name
               had == chunks[k].units
               has == {places[j] : j \in chunks[k].units}
    <3>3. chunks[k] = [id |-> id, index |-> index, name |-> name, units |-> had]
      BY <3>2 DEF NewChunk
    <3> HIDE DEF moved
    <3>4. moved[k] = [chunks[k] EXCEPT !.units = has]
      BY <3>1
    <3> HIDE DEF id, index, name, had, has
    <3>5. moved[k] = [id |-> id, index |-> index, name |-> name, units |-> has]
      BY <3>3, <3>4
    <3> QED
      BY <3>5 DEF NewChunk, id, index, name, has
  <2>2. DOMAIN moved = DOMAIN chunks
    BY DEF Relocated
  <2> QED
    BY <2>1, <2>2
<1> HIDE DEF moved
<1>2. \A k \in DOMAIN chunks :
        /\ moved[k].id = chunks[k].id /\ moved[k].index = chunks[k].index
        /\ moved[k].name = chunks[k].name /\ moved[k].units = {places[j] : j \in chunks[k].units}
  BY <1>1 DEF NewChunk
<1>3. Apart(moved, n)
  BY <1>1, <1>2 DEF Apart
<1>4. Chunked(moved)
  BY <1>1, <1>2 DEF Chunked
<1>5. Found(moved, {places[j] : j \in units})
  <2> SUFFICES ASSUME NEW j \in units
               PROVE  \E k \in DOMAIN moved : places[j] \in moved[k].units
    BY DEF Found
  <2>1. PICK k \in DOMAIN chunks : j \in chunks[k].units
    BY DEF Found
  <2>2. places[j] \in moved[k].units
    BY <1>2, <2>1
  <2> QED
    BY <1>1, <2>1, <2>2
<1> QED
  BY <1>3, <1>4, <1>5 DEF moved

\* What is left of a text when some of its units are taken out, is in its windows.
LEMMA SlidingOverAccounts ==
  ASSUME NEW text, IsList(text), NEW dropped
  PROVE  \E n : /\ Apart(SlidingOver(text, dropped), n)
                /\ Found(SlidingOver(text, dropped),
                         {i \in DOMAIN text : text[i] \notin dropped \cup {"blank"}})
<1> DEFINE P == {i \in DOMAIN text : text[i] \notin dropped}
           places == InOrder(P)
           left == TextAt(text, places)
           legible == {j \in DOMAIN left : left[j] # "blank"}
<1>1. /\ Cardinality(P) \in Nat /\ DOMAIN places = 1 .. Cardinality(P)
      /\ \A i \in P : \E k \in 1 .. Cardinality(P) : places[k] = i
  <2>1. IsFiniteSet(P) /\ P \subseteq Int
    BY PlacesOfText
  <2> HIDE DEF P
  <2> QED
    BY <2>1, InOrderFacts
<1> HIDE DEF P
<1>2. /\ DOMAIN left = DOMAIN places
      /\ \A k \in DOMAIN places : left[k] = text[places[k]]
  BY DEF TextAt
<1>3. IsList(left)
  <2>1. left = [k \in 1 .. Cardinality(P) |-> text[places[k]]]
    BY <1>1 DEF TextAt
  <2>2. Len(left) = Cardinality(P)
    <3> HIDE DEF places, left
    <3> QED
      BY <1>1, <2>1
  <2> QED
    BY <1>1, <1>2, <2>2 DEF IsList
<1>4. SlidingOver(text, dropped) = Relocated(Sliding(left), places)
  BY DEF SlidingOver, SlidingAt, P
<1> HIDE DEF left, places
<1>5. PICK n : Apart(Sliding(left), n) /\ Chunked(Sliding(left)) /\ Found(Sliding(left), legible)
  BY <1>3, SlidingAccounts
<1> HIDE DEF legible
<1>6. /\ Apart(Relocated(Sliding(left), places), n)
      /\ Found(Relocated(Sliding(left), places), {places[j] : j \in legible})
  BY <1>5, RelocatedAccount
<1>7. {i \in DOMAIN text : text[i] \notin dropped \cup {"blank"}} \subseteq {places[j] : j \in legible}
  <2> SUFFICES ASSUME NEW i \in DOMAIN text, text[i] \notin dropped \cup {"blank"}
               PROVE  \E j \in legible : places[j] = i
    OBVIOUS
  <2>1. i \in P
    BY DEF P
  <2>2. PICK j \in 1 .. Cardinality(P) : places[j] = i
    BY <1>1, <2>1
  <2>3. j \in legible
    BY <1>1, <1>2, <2>2 DEF legible
  <2> QED
    BY <2>2, <2>3
<1> QED
  BY <1>4, <1>6, <1>7 DEF Found

(* Stretches between separators *)

\* What is no separator belongs to a stretch that starts with the text or after one.
LEMMA StretchStarts ==
  ASSUME NEW text, IsList(text), NEW separators, NEW i \in DOMAIN text,
         text[i] \notin separators
  PROVE  \E s \in 1 .. i : /\ text[s] \notin separators
                           /\ s = 1 \/ text[s - 1] \in separators
                           /\ \A k \in s .. i : text[k] \notin separators
<1> DEFINE T == {0} \cup {j \in 1 .. i - 1 : text[j] \in separators}
<1>1. i \in 1 .. Len(text) /\ Len(text) \in Nat
  BY DEF IsList
<1>2. PICK m \in T : \A j \in T : m >= j
  <2>1. T \in SUBSET (0 .. i - 1) /\ T # {} /\ i - 1 \in Nat
    BY <1>1
  <2> HIDE DEF T
  <2> QED
    BY <2>1, GreatestBelow
<1>3. m \in 0 .. i - 1 /\ (m = 0 \/ text[m] \in separators)
  BY <1>1, <1>2
<1>4. \A k \in m + 1 .. i : text[k] \notin separators
  <2> SUFFICES ASSUME NEW k \in m + 1 .. i, text[k] \in separators
               PROVE  FALSE
    OBVIOUS
  <2>1. k # i
    OBVIOUS
  <2>2. k \in 1 .. i - 1 /\ ~ m >= k
    BY <1>1, <1>3, <2>1
  <2> QED
    BY <1>2, <2>2
<1>5. m + 1 \in 1 .. i /\ (m + 1) - 1 = m /\ m + 1 \in m + 1 .. i
  BY <1>1, <1>3
<1> QED
  BY <1>3, <1>4, <1>5

\* A chunk for each place of a set has what there is at each.
LEMMA PlacedFound ==
  ASSUME NEW S, IsFiniteSet(S), S \subseteq Int,
         NEW chunks, DOMAIN chunks = DOMAIN InOrder(S),
         NEW spans, \A k \in DOMAIN chunks : chunks[k].units = spans[InOrder(S)[k]],
         NEW units, \A i \in units : \E s \in S : i \in spans[s]
  PROVE  Found(chunks, units)
<1> SUFFICES ASSUME NEW i \in units
             PROVE  \E k \in DOMAIN chunks : i \in chunks[k].units
  BY DEF Found
<1>1. PICK s \in S : i \in spans[s]
  OBVIOUS
<1>2. /\ DOMAIN InOrder(S) = 1 .. Cardinality(S)
      /\ \A j \in S : \E k \in 1 .. Cardinality(S) : InOrder(S)[k] = j
  BY InOrderFacts
<1>3. PICK k \in DOMAIN InOrder(S) : InOrder(S)[k] = s
  BY <1>2
<1> QED
  BY <1>1, <1>3

\* The documents that are not blank have what is not blank.
LEMMA YamlAccounts ==
  ASSUME NEW text, IsList(text)
  PROVE  \E n : /\ Apart(YamlChunks(text), n)
                /\ Found(YamlChunks(text), {i \in DOMAIN text : text[i] \notin {"blank", "---"}})
<1> DEFINE Firsts == {i \in DOMAIN text : text[i] # "---" /\ (i = 1 \/ text[i - 1] = "---")}
           docs == YamlDocuments(text)
           D == {d \in DOMAIN docs : \E i \in docs[d] : text[i] # "blank"}
           n == Cardinality(D)
<1>1. IsFiniteSet(Firsts) /\ Firsts \subseteq Int
  BY PlacesOfText
<1>2. docs = DocumentsFrom(text, InOrder(Firsts))
  BY DEF YamlDocuments
<1> HIDE DEF Firsts
<1>3. /\ DOMAIN docs = 1 .. Cardinality(Firsts) /\ Cardinality(Firsts) \in Nat
      /\ \A d \in DOMAIN docs : docs[d] = Document(text, InOrder(Firsts)[d])
      /\ \A s \in Firsts : \E d \in DOMAIN docs : InOrder(Firsts)[d] = s
  <2> HIDE DEF docs
  <2>1. /\ DOMAIN InOrder(Firsts) = 1 .. Cardinality(Firsts) /\ Cardinality(Firsts) \in Nat
        /\ \A s \in Firsts : \E d \in 1 .. Cardinality(Firsts) : InOrder(Firsts)[d] = s
    BY <1>1, InOrderFacts
  <2> QED
    BY <1>2, <2>1 DEF DocumentsFrom
<1> HIDE DEF docs
<1>4. IsFiniteSet(D) /\ D \subseteq Int
  <2>1. IsFiniteSet(1 .. Cardinality(Firsts))
    BY <1>3, FS_Interval
  <2> QED
    BY <1>3, <2>1, FS_Subset
<1>5. YamlChunks(text) = ChunksOfKept(docs, InOrder(D))
  BY DEF YamlChunks, WithText, docs
<1> DEFINE chunks == ChunksOfKept(docs, InOrder(D))
<1>6. \A i \in DOMAIN text : text[i] \notin {"blank", "---"} => \E d \in D : i \in docs[d]
  <2> SUFFICES ASSUME NEW i \in DOMAIN text, text[i] \notin {"blank", "---"}
               PROVE  \E d \in D : i \in docs[d]
    OBVIOUS
  <2>1. PICK s \in 1 .. i : /\ text[s] \notin {"---"}
                            /\ s = 1 \/ text[s - 1] \in {"---"}
                            /\ \A k \in s .. i : text[k] \notin {"---"}
    BY StretchStarts
  <2>2. s \in Firsts /\ i \in Document(text, s)
    BY <2>1 DEF Firsts, Document, IsList
  <2>3. PICK d \in DOMAIN docs : InOrder(Firsts)[d] = s
    BY <1>3, <2>2
  <2>4. i \in docs[d]
    BY <1>3, <2>2, <2>3
  <2> QED
    BY <2>4
<1> HIDE DEF D
<1>7. /\ n \in Nat /\ DOMAIN InOrder(D) = 1 .. n
      /\ \A k \in 1 .. n : InOrder(D)[k] \in D
      /\ \A j, k \in 1 .. n : j < k => InOrder(D)[j] < InOrder(D)[k]
  BY <1>4, InOrderFacts
<1> HIDE DEF n
<1>8. /\ DOMAIN chunks = 1 .. n
      /\ \A k \in 1 .. n : /\ chunks[k].id = <<"", InOrder(D)[k] - 1>>
                           /\ chunks[k].index = InOrder(D)[k] - 1
                           /\ chunks[k].units = docs[InOrder(D)[k]]
  BY <1>7 DEF ChunksOfKept, NewChunk
<1> HIDE DEF chunks
<1>9. Apart(chunks, n)
  <2> SUFFICES ASSUME NEW j \in 1 .. n, NEW k \in 1 .. n, j < k
               PROVE  chunks[j].index < chunks[k].index /\ chunks[j].id # chunks[k].id
    BY <1>7, <1>8 DEF Apart
  <2>1. PICK a \in Int : a = InOrder(D)[j]
    BY <1>4, <1>7
  <2>2. PICK b \in Int : b = InOrder(D)[k]
    BY <1>4, <1>7
  <2>3. a < b
    BY <1>7, <2>1, <2>2
  <2>4. a - 1 < b - 1 /\ <<"", a - 1>> # <<"", b - 1>>
    BY <2>3
  <2>5. /\ chunks[j].id = <<"", a - 1>> /\ chunks[j].index = a - 1
        /\ chunks[k].id = <<"", b - 1>> /\ chunks[k].index = b - 1
    BY <1>8, <2>1, <2>2
  <2> QED
    BY <2>4, <2>5
<1>10. Found(chunks, {i \in DOMAIN text : text[i] \notin {"blank", "---"}})
  <2>1. DOMAIN chunks = DOMAIN InOrder(D) /\ \A k \in DOMAIN chunks : chunks[k].units = docs[InOrder(D)[k]]
    BY <1>7, <1>8
  <2> QED
    BY <1>4, <1>6, <2>1, PlacedFound
<1> QED
  BY <1>5, <1>9, <1>10 DEF chunks

\* Chunks that are numbered have ids of their own.
Numbered(chunks, n) ==
  \A k \in 1 .. n : chunks[k].id = <<"", k - 1>> /\ chunks[k].index = k - 1

LEMMA NumberedApart ==
  ASSUME NEW chunks, NEW n \in Nat, DOMAIN chunks = 1 .. n, Numbered(chunks, n)
  PROVE  Apart(chunks, n)
<1> SUFFICES ASSUME NEW j \in 1 .. n, NEW k \in 1 .. n, j < k
             PROVE  chunks[j].index < chunks[k].index /\ chunks[j].id # chunks[k].id
  BY DEF Apart
<1>1. PICK a \in Int : a = j - 1
  OBVIOUS
<1>2. PICK b \in Int : b = k - 1
  OBVIOUS
<1>3. a < b
  BY <1>1, <1>2
<1>4. <<"", a>> # <<"", b>>
  BY <1>3
<1>5. /\ chunks[j].id = <<"", a>> /\ chunks[j].index = a
      /\ chunks[k].id = <<"", b>> /\ chunks[k].index = b
  BY <1>1, <1>2 DEF Numbered
<1> QED
  BY <1>3, <1>4, <1>5

\* Each instruction is in the chunk of its kind.
LEMMA DockerfileAccounts ==
  ASSUME NEW text, IsList(text)
  PROVE  \E n : /\ Apart(DockerfileChunks(text), n)
                /\ Found(DockerfileChunks(text),
                         {i \in DOMAIN text : text[i] \notin {"blank", "comment", "continued"}})
<1> DEFINE Firsts == {i \in DOMAIN text : /\ text[i] \notin {"blank", "comment", "continued"}
                                     /\ \A j \in 1 .. i - 1 : text[j] # text[i]}
           same == [s \in Firsts |-> {i \in DOMAIN text : text[i] = text[s]}]
           units == {i \in DOMAIN text : text[i] \notin {"blank", "comment", "continued"}}
           chunks == GroupChunks(text, InOrder(Firsts))
           n == Cardinality(Firsts)
<1>1. DockerfileChunks(text) = chunks
  BY DEF DockerfileChunks
<1>2. IsFiniteSet(Firsts) /\ Firsts \subseteq Int
  BY PlacesOfText
<1>3. \A i \in units : \E s \in Firsts : i \in same[s]
  <2> SUFFICES ASSUME NEW i \in units
               PROVE  \E s \in Firsts : i \in same[s]
    OBVIOUS
  <2> DEFINE T == {j \in 1 .. i : text[j] = text[i]}
  <2>1. DOMAIN text = 1 .. Len(text) /\ Len(text) \in Nat
    BY DEF IsList
  <2>2. PICK s \in T : \A j \in T : s <= j
    <3>1. T \in SUBSET Nat /\ i \in T
      BY <2>1
    <3> HIDE DEF T
    <3> QED
      BY <3>1, LeastNatural
  <2>3. \A j \in 1 .. s - 1 : text[j] # text[s]
    <3> SUFFICES ASSUME NEW j \in 1 .. s - 1, text[j] = text[s]
                 PROVE  FALSE
      OBVIOUS
    <3>1. j \in T /\ ~ s <= j
      BY <2>1, <2>2
    <3> QED
      BY <2>2, <3>1
  <2>4. s \in Firsts
    BY <2>1, <2>2, <2>3
  <2> QED
    BY <2>2, <2>4
<1> HIDE DEF Firsts
<1>4. /\ n \in Nat /\ DOMAIN InOrder(Firsts) = 1 .. n
      /\ \A k \in 1 .. n : InOrder(Firsts)[k] \in Firsts
  BY <1>2, InOrderFacts
<1> HIDE DEF n
<1>5. /\ DOMAIN chunks = 1 .. n
      /\ \A k \in 1 .. n : /\ chunks[k].id = <<"", k - 1>> /\ chunks[k].index = k - 1
                           /\ chunks[k].units = same[InOrder(Firsts)[k]]
  BY <1>4 DEF GroupChunks, NewChunk
<1> HIDE DEF chunks, same, units
<1>6. Apart(chunks, n)
  <2>1. Numbered(chunks, n)
    BY <1>5 DEF Numbered
  <2> QED
    BY <1>4, <1>5, <2>1, NumberedApart
<1>7. Found(chunks, units)
  BY <1>2, <1>3, <1>4, <1>5, PlacedFound
<1> QED
  BY <1>1, <1>6, <1>7 DEF units

\* Blocks that start in lines of these kinds have those lines.
LEMMA ProtoAccounts ==
  ASSUME NEW text, IsList(text)
  PROVE  \E n : /\ Apart(ProtoBlocks(text), n)
                /\ Found(ProtoBlocks(text), {i \in DOMAIN text : text[i] \in {"service", "message"}})
<1> DEFINE Firsts == {i \in DOMAIN text : text[i] \in {"service", "message"}}
           block == [s \in Firsts |-> Block(text, s)]
           chunks == BlocksAt(text, InOrder(Firsts))
           n == Cardinality(Firsts)
<1>1. ProtoBlocks(text) = chunks
  BY DEF ProtoBlocks
<1>2. IsFiniteSet(Firsts) /\ Firsts \subseteq Int
  BY PlacesOfText
<1>3. \A i \in Firsts : \E s \in Firsts : i \in block[s]
  <2>1. \A i \in Firsts : i \in Block(text, i)
    BY DEF Block, IsList
  <2> QED
    BY <2>1
<1> HIDE DEF Firsts
<1>4. /\ n \in Nat /\ DOMAIN InOrder(Firsts) = 1 .. n
      /\ \A k \in 1 .. n : InOrder(Firsts)[k] \in Firsts
      /\ \A j, k \in 1 .. n : j < k => InOrder(Firsts)[j] < InOrder(Firsts)[k]
  BY <1>2, InOrderFacts
<1> HIDE DEF n
<1>5. /\ DOMAIN chunks = 1 .. n
      /\ \A k \in 1 .. n : /\ chunks[k].id = <<text[InOrder(Firsts)[k]], InOrder(Firsts)[k]>>
                           /\ chunks[k].index = k - 1
                           /\ chunks[k].units = block[InOrder(Firsts)[k]]
  BY <1>4 DEF BlocksAt, NewChunk
<1> HIDE DEF chunks, block
<1>6. Apart(chunks, n)
  <2> SUFFICES ASSUME NEW j \in 1 .. n, NEW k \in 1 .. n, j < k
               PROVE  chunks[j].index < chunks[k].index /\ chunks[j].id # chunks[k].id
    BY <1>4, <1>5 DEF Apart
  <2>1. PICK a \in Int : a = InOrder(Firsts)[j]
    BY <1>2, <1>4
  <2>2. PICK b \in Int : b = InOrder(Firsts)[k]
    BY <1>2, <1>4
  <2>3. a < b
    BY <1>4, <2>1, <2>2
  <2>4. j - 1 < k - 1 /\ <<text[a], a>> # <<text[b], b>>
    BY <1>4, <2>3
  <2>5. /\ chunks[j].id = <<text[a], a>> /\ chunks[j].index = j - 1
        /\ chunks[k].id = <<text[b], b>> /\ chunks[k].index = k - 1
    BY <1>5, <2>1, <2>2
  <2> QED
    BY <2>4, <2>5
<1>7. Found(chunks, Firsts)
  BY <1>2, <1>3, <1>4, <1>5, PlacedFound
<1> QED
  BY <1>1, <1>6, <1>7 DEF Firsts

(* One list after the other *)

Retains(t, s) == \A k \in DOMAIN s : \E l \in DOMAIN t : t[l] = s[k]

\* What has all of a sequence has what that one has of a third.
LEMMA RetainsThrough ==
  ASSUME NEW s, NEW t, NEW u, Retains(u, t), Retains(t, s)
  PROVE  Retains(u, s)
<1> SUFFICES ASSUME NEW k \in DOMAIN s
             PROVE  \E l \in DOMAIN u : u[l] = s[k]
  BY DEF Retains
<1>1. PICK i \in DOMAIN t : t[i] = s[k]
  BY DEF Retains
<1>2. PICK l \in DOMAIN u : u[l] = t[i]
  BY <1>1 DEF Retains
<1> QED
  BY <1>1, <1>2

\* Two sequences, joined, have what each has.
LEMMA JoinRetains ==
  ASSUME NEW s, NEW t, IsSequence(s), IsSequence(t)
  PROVE  IsSequence(s \o t) /\ Retains(s \o t, s) /\ Retains(s \o t, t)
<1> DEFINE R == Range(s) \cup Range(t)
           both == s \o t
<1>1. s \in Seq(R) /\ t \in Seq(R)
  <2>1. s \in Seq(Range(s)) /\ t \in Seq(Range(t)) /\ Range(s) \subseteq R /\ Range(t) \subseteq R
    BY DEF IsSequence
  <2> HIDE DEF R
  <2> QED
    BY <2>1, SeqMonotonic
<1> HIDE DEF R
<1>2. PICK m \in Nat : m = Len(s) /\ DOMAIN s = 1 .. m
  BY <1>1, LenProperties
<1>3. PICK n \in Nat : n = Len(t) /\ DOMAIN t = 1 .. n
  BY <1>1, LenProperties
<1>4. /\ both \in Seq(R) /\ Len(both) = m + n
      /\ \A i \in 1 .. m + n : both[i] = IF i <= m THEN s[i] ELSE t[i - m]
  BY <1>1, <1>2, <1>3, ConcatProperties
<1> HIDE DEF both
<1>5. DOMAIN both = 1 .. m + n
  BY <1>4, LenProperties
<1>6. IsSequence(both)
  BY <1>4, SeqOfRange DEF IsSequence
<1>7. \A k \in DOMAIN s : k \in DOMAIN both /\ both[k] = s[k]
  BY <1>2, <1>4, <1>5
<1>8. ASSUME NEW k \in DOMAIN t
      PROVE  m + k \in DOMAIN both /\ both[m + k] = t[k]
  <2>1. k \in 1 .. n /\ m + k \in 1 .. m + n /\ ~ m + k <= m /\ (m + k) - m = k
    BY <1>3
  <2> QED
    BY <1>4, <1>5, <2>1
<1> QED
  BY <1>6, <1>7, <1>8 DEF both, Retains

\* The places of a finite set, in order, are a sequence.
LEMMA InOrderIsSequence ==
  ASSUME NEW S, IsFiniteSet(S), S \subseteq Int
  PROVE  IsSequence(InOrder(S)) /\ \A i \in S : \E k \in DOMAIN InOrder(S) : InOrder(S)[k] = i
<1>1. /\ Cardinality(S) \in Nat /\ DOMAIN InOrder(S) = 1 .. Cardinality(S)
      /\ \A i \in S : \E k \in 1 .. Cardinality(S) : InOrder(S)[k] = i
  BY InOrderFacts
<1>2. InOrder(S) \in [1 .. Cardinality(S) -> Range(InOrder(S))]
  <2>1. InOrder(S) = [k \in 1 .. Cardinality(S) |-> InOrder(S)[k]]
    BY DEF InOrder
  <2> QED
    BY <1>1, <2>1 DEF Range
<1>3. InOrder(S) \in Seq(Range(InOrder(S)))
  BY <1>1, <1>2, SeqDef
<1> QED
  BY <1>1, <1>3 DEF IsSequence

\* Types, operations and schemas have a chunk each.
LEMMA GraphQLAccounts ==
  ASSUME NEW text, IsList(text)
  PROVE  \E n : /\ Apart(GraphQLChunks(text), n)
                /\ Found(GraphQLChunks(text),
                         {i \in DOMAIN text : text[i] \in {"type", "operation", "schema"}})
<1> DEFINE Of(kind) == {i \in DOMAIN text : text[i] = kind}
           a == InOrder(Of("type"))
           b == InOrder(Of("operation"))
           c == InOrder(Of("schema"))
           places == (a \o b) \o c
           chunks == SingleChunks(places)
<1>1. GraphQLChunks(text) = chunks
  BY DEF GraphQLChunks
<1>2. /\ IsSequence(a) /\ \A i \in Of("type") : \E k \in DOMAIN a : a[k] = i
      /\ IsSequence(b) /\ \A i \in Of("operation") : \E k \in DOMAIN b : b[k] = i
      /\ IsSequence(c) /\ \A i \in Of("schema") : \E k \in DOMAIN c : c[k] = i
  <2>1. ASSUME NEW kind
        PROVE  IsFiniteSet(Of(kind)) /\ Of(kind) \subseteq Int
    BY PlacesOfText
  <2> HIDE DEF Of
  <2> QED
    BY <2>1, InOrderIsSequence
<1> HIDE DEF a, b, c
<1>3. IsSequence(places) /\ Retains(places, a) /\ Retains(places, b) /\ Retains(places, c)
  <2> DEFINE ab == a \o b
  <2>1. IsSequence(a) /\ IsSequence(b) /\ IsSequence(c)
    BY <1>2
  <2>2. IsSequence(ab) /\ Retains(ab, a) /\ Retains(ab, b)
    BY <2>1, JoinRetains
  <2> HIDE DEF ab
  <2>3. IsSequence(ab)
    BY <2>2
  <2>4. IsSequence(ab \o c) /\ Retains(ab \o c, ab) /\ Retains(ab \o c, c)
    BY <2>1, <2>3, JoinRetains
  <2>5. places = ab \o c
    BY DEF ab
  <2> HIDE DEF places
  <2>6. Retains(places, ab) /\ Retains(places, c)
    BY <2>4, <2>5
  <2>7. Retains(places, a)
    BY <2>2, <2>6, RetainsThrough
  <2>8. Retains(places, b)
    BY <2>2, <2>6, RetainsThrough
  <2> QED
    BY <2>4, <2>5, <2>6, <2>7, <2>8
<1> HIDE DEF places
<1>4. PICK n \in Nat : DOMAIN places = 1 .. n
  BY <1>3, LenProperties DEF IsSequence
<1>5. /\ DOMAIN chunks = 1 .. n
      /\ \A k \in 1 .. n : /\ chunks[k].id = <<"", k - 1>> /\ chunks[k].index = k - 1
                           /\ chunks[k].units = {places[k]}
  BY <1>4 DEF SingleChunks, NewChunk
<1> HIDE DEF chunks
<1>6. Apart(chunks, n)
  <2>1. Numbered(chunks, n)
    BY <1>5 DEF Numbered
  <2> QED
    BY <1>5, <2>1, NumberedApart
<1>7. Found(chunks, {i \in DOMAIN text : text[i] \in {"type", "operation", "schema"}})
  <2> SUFFICES ASSUME NEW i \in DOMAIN text, text[i] \in {"type", "operation", "schema"}
               PROVE  \E l \in DOMAIN places : places[l] = i
    BY <1>4, <1>5 DEF Found
  <2>1. i \in Of("type") \/ i \in Of("operation") \/ i \in Of("schema")
    OBVIOUS
  <2> HIDE DEF Of
  <2> QED
    BY <1>2, <1>3, <2>1 DEF Retains
<1> QED
  BY <1>1, <1>6, <1>7 DEF chunks

(* What the parsers find *)

FindsAll(members, lines) == IsSequence(members) /\ Found(members, lines)

OfKinds(lines, kinds) == {i \in DOMAIN lines : lines[i].kind \in kinds}

LEMMA ListIsSequence ==
  ASSUME NEW n \in Nat, NEW f, f = [k \in 1 .. n |-> f[k]]
  PROVE  IsSequence(f)
<1>1. f \in [1 .. n -> Range(f)]
  BY DEF Range
<1>2. f \in Seq(Range(f))
  BY <1>1, SeqDef
<1> QED
  BY <1>2 DEF IsSequence

LEMMA NoneFinds ==
  FindsAll(<<>>, {})
BY EmptySeq DEF FindsAll, Found, IsSequence

LEMMA JoinFinds ==
  ASSUME NEW a, NEW S, FindsAll(a, S), NEW b, NEW T, FindsAll(b, T)
  PROVE  FindsAll(a \o b, S \cup T)
<1>1. IsSequence(a) /\ IsSequence(b) /\ Found(a, S) /\ Found(b, T)
  BY DEF FindsAll
<1> DEFINE both == a \o b
<1>2. IsSequence(both) /\ Retains(both, a) /\ Retains(both, b)
  BY <1>1, JoinRetains
<1> HIDE DEF both
<1>3. Found(both, S \cup T)
  <2> SUFFICES ASSUME NEW i \in S \cup T
               PROVE  \E k \in DOMAIN both : i \in both[k].units
    BY DEF Found
  <2>1. CASE i \in S
    <3>1. PICK k \in DOMAIN a : i \in a[k].units
      BY <1>1, <2>1 DEF Found
    <3>2. PICK l \in DOMAIN both : both[l] = a[k]
      BY <1>2 DEF Retains
    <3> QED
      BY <3>1, <3>2
  <2>2. CASE i \in T
    <3>1. PICK k \in DOMAIN b : i \in b[k].units
      BY <1>1, <2>2 DEF Found
    <3>2. PICK l \in DOMAIN both : both[l] = b[k]
      BY <1>2 DEF Retains
    <3> QED
      BY <3>1, <3>2
  <2> QED
    BY <2>1, <2>2
<1> QED
  BY <1>2, <1>3 DEF FindsAll, both

LEMMA FindsLess ==
  ASSUME NEW members, NEW S, FindsAll(members, S), NEW T, T \subseteq S
  PROVE  FindsAll(members, T)
BY DEF FindsAll, Found

\* Entities at some lines, and those that go on to the next, find these lines.
LEMMA EntitiesFind ==
  ASSUME NEW lines, IsList(lines), NEW S, S \subseteq DOMAIN lines
  PROVE  FindsAll(EntitiesAt(lines, InOrder(S)), S)
<1> DEFINE n == Cardinality(S)
           members == EntitiesAt(lines, InOrder(S))
<1>1. /\ n \in Nat /\ DOMAIN InOrder(S) = 1 .. n
      /\ \A i \in S : \E k \in 1 .. n : InOrder(S)[k] = i
  BY PlacesOfText, InOrderFacts
<1> HIDE DEF n
<1>2. members = [k \in 1 .. n |-> members[k]]
  BY <1>1 DEF EntitiesAt
<1>3. DOMAIN members = 1 .. n /\ \A k \in 1 .. n : members[k].units = {InOrder(S)[k]}
  BY <1>1 DEF EntitiesAt, Entity
<1> HIDE DEF members
<1>4. IsSequence(members)
  BY <1>1, <1>2, ListIsSequence
<1>5. Found(members, S)
  <2> SUFFICES ASSUME NEW i \in S
               PROVE  \E k \in DOMAIN members : i \in members[k].units
    BY DEF Found
  <2>1. PICK k \in 1 .. n : InOrder(S)[k] = i
    BY <1>1
  <2> QED
    BY <1>3, <2>1
<1> QED
  BY <1>4, <1>5 DEF FindsAll, members

LEMMA LinesFind ==
  ASSUME NEW lines, IsList(lines), NEW kinds
  PROVE  FindsAll(LineEntities(lines, kinds), OfKinds(lines, kinds))
<1>1. OfKinds(lines, kinds) \subseteq DOMAIN lines
  BY DEF OfKinds
<1>2. LineEntities(lines, kinds) = EntitiesAt(lines, InOrder(OfKinds(lines, kinds)))
  BY DEF LineEntities, LinesOf, OfKinds
<1> QED
  BY <1>1, <1>2, EntitiesFind

LEMMA StretchesFind ==
  ASSUME NEW lines, IsList(lines), NEW S, S \subseteq DOMAIN lines
  PROVE  FindsAll(StretchesAt(lines, InOrder(S)), S)
<1> DEFINE n == Cardinality(S)
           starts == InOrder(S)
           members == StretchesAt(lines, starts)
<1>1. /\ n \in Nat /\ DOMAIN starts = 1 .. n
      /\ \A k \in 1 .. n : starts[k] \in S
      /\ \A j, k \in 1 .. n : j < k => starts[j] < starts[k]
      /\ \A i \in S : \E k \in 1 .. n : starts[k] = i
  BY PlacesOfText, InOrderFacts
<1>2. Len(starts) = n
  BY <1>1 DEF InOrder
<1> HIDE DEF n, starts
<1>3. members = [k \in 1 .. n |-> members[k]]
  BY <1>1 DEF StretchesAt
<1>4. ASSUME NEW k \in 1 .. n
      PROVE  starts[k] \in members[k].units
  <2>1. members[k].units = starts[k] .. (IF k < n THEN starts[k + 1] - 1 ELSE Len(lines))
    BY <1>1, <1>2 DEF StretchesAt, Entity
  <2>2. starts[k] \in 1 .. Len(lines) /\ Len(lines) \in Nat
    BY <1>1 DEF IsList
  <2>3. CASE k < n
    <3>1. k + 1 \in 1 .. n /\ k < k + 1
      BY <1>1, <2>3
    <3>2. starts[k] < starts[k + 1] /\ starts[k + 1] \in 1 .. Len(lines)
      BY <1>1, <3>1 DEF IsList
    <3> QED
      BY <2>1, <2>2, <2>3, <3>2
  <2>4. CASE ~ k < n
    BY <2>1, <2>2, <2>4
  <2> QED
    BY <2>3, <2>4
<1>5. DOMAIN members = 1 .. n
  BY <1>1 DEF StretchesAt
<1> HIDE DEF members
<1>6. IsSequence(members)
  BY <1>1, <1>3, ListIsSequence
<1>7. Found(members, S)
  <2> SUFFICES ASSUME NEW i \in S
               PROVE  \E k \in DOMAIN members : i \in members[k].units
    BY DEF Found
  <2>1. PICK k \in 1 .. n : starts[k] = i
    BY <1>1
  <2> QED
    BY <1>4, <1>5, <2>1
<1> QED
  BY <1>6, <1>7 DEF FindsAll, members, starts

\* The entities of a file that parses have the lines that its language is searched
\* for, if there are any.
LEMMA ParsersFind ==
  ASSUME NEW lines, IsList(lines), NEW path \in DOMAIN LanguageOf
  PROVE  LET parsed == ParseFile(lines, path)
         IN \/ parsed.fails
            \/ parsed.entities = <<>>
            \/ path \in DOMAIN FoundIn /\ FindsAll(parsed.entities, OfKinds(lines, FoundIn[path]))
<1> DEFINE parsed == ParseFile(lines, path)
           Goal == \/ parsed.fails
                   \/ parsed.entities = <<>>
                   \/ /\ path \in DOMAIN FoundIn
                      /\ FindsAll(parsed.entities, OfKinds(lines, FoundIn[path]))
<1> SUFFICES Goal
  OBVIOUS
<1>1. path \in {"py", "js", "ts", "tsx", "go", "rs", "java", "cs", "kt", "rb", "pom", "gradle",
                "istio", ""}
  BY DEF LanguageOf
<1>2. ASSUME NEW members, NEW kinds, parsed = Parsed(members), path \in DOMAIN FoundIn,
             FoundIn[path] = kinds, FindsAll(members, OfKinds(lines, kinds))
      PROVE  Goal
  <2>1. parsed.entities = members
    BY <1>2 DEF Parsed
  <2> HIDE DEF parsed
  <2> QED
    BY <1>2, <2>1
<1> DEFINE E(kinds) == LineEntities(lines, kinds)
           K(kinds) == OfKinds(lines, kinds)
<1>3. \A kinds : FindsAll(E(kinds), K(kinds))
  BY LinesFind
<1>4. \A kinds, more : K(kinds) \cup K(more) = K(kinds \cup more)
  BY DEF OfKinds
<1>5. ASSUME NEW a, NEW b, NEW kinds, NEW more, FindsAll(a, K(kinds)), FindsAll(b, K(more))
      PROVE  FindsAll(a \o b, K(kinds \cup more))
  <2> HIDE DEF K
  <2>1. FindsAll(a \o b, K(kinds) \cup K(more))
    BY <1>5, JoinFinds
  <2> QED
    BY <1>4, <2>1
<1>6. CASE path = "py"
  <2>1. parsed = Parsed(ParsePython(lines))
    BY <1>6 DEF ParseFile, LanguageOf
  <2>2. /\ ParsePython(lines) = StretchesAt(lines, InOrder(K({"class", "def"})))
        /\ K({"class", "def"}) \subseteq DOMAIN lines
    BY DEF ParsePython, LinesOf, OfKinds
  <2>3. FindsAll(ParsePython(lines), K({"class", "def"}))
    <3> HIDE DEF K
    <3> QED
      BY <2>2, StretchesFind
  <2>4. path \in DOMAIN FoundIn /\ FoundIn[path] = {"class", "def"}
    BY <1>6 DEF FoundIn
  <2> HIDE DEF parsed, Goal
  <2> QED
    BY <1>2, <2>1, <2>3, <2>4
<1> DEFINE script == {"binding", "hook", "arrow"} \cup {"class"}
<1>7. FindsAll(ParseJavaScript(lines), K(script))
  <2>1. ParseJavaScript(lines) = E({"binding", "hook", "arrow"}) \o E({"class"})
    BY DEF ParseJavaScript
  <2> HIDE DEF E, K
  <2> QED
    BY <1>3, <1>5, <2>1
<1>8. CASE path = "js"
  <2>1. parsed = Parsed(ParseJavaScript(lines))
    BY <1>8 DEF ParseFile, LanguageOf
  <2>2. path \in DOMAIN FoundIn /\ FoundIn[path] = script
    BY <1>8 DEF FoundIn
  <2> HIDE DEF parsed, Goal, script
  <2> QED
    BY <1>2, <1>7, <2>1, <2>2
<1> DEFINE typed == script \cup {"interface"}
           types == ParseJavaScript(lines) \o E({"interface"})
<1>9. FindsAll(types, K(typed))
  <2> HIDE DEF E, K, script
  <2> QED
    BY <1>3, <1>5, <1>7
<1>10. CASE path = "ts"
  <2>1. parsed = Parsed(ParseTypeScript(lines, FALSE))
    BY <1>10 DEF ParseFile, LanguageOf
  <2>2. ParseTypeScript(lines, FALSE) = types \o <<>>
    BY DEF ParseTypeScript
  <2>3. FindsAll(types \o <<>>, K(typed) \cup {})
    <3> HIDE DEF types, K, typed
    <3> QED
      BY <1>9, NoneFinds, JoinFinds
  <2>4. path \in DOMAIN FoundIn /\ FoundIn[path] = typed
    BY <1>10 DEF FoundIn
  <2>5. FindsAll(types \o <<>>, K(typed))
    <3> HIDE DEF types, K, typed
    <3> QED
      BY <2>3
  <2> HIDE DEF parsed, Goal, types, typed
  <2> QED
    BY <1>2, <2>1, <2>2, <2>4, <2>5
<1>11. CASE path = "tsx"
  <2> DEFINE hooks == E({"hook"})
             parts == E({"arrow"}) \o E({"component"})
  <2>1. parsed = Parsed(ParseTypeScript(lines, TRUE))
    BY <1>11 DEF ParseFile, LanguageOf
  <2>2. ParseTypeScript(lines, TRUE) = types \o (hooks \o parts)
    BY DEF ParseTypeScript, ReactHooks, JsxComponents
  <2>3. FindsAll(parts, K({"arrow"} \cup {"component"}))
    <3> HIDE DEF E, K
    <3> QED
      BY <1>3, <1>5
  <2>4. FindsAll(hooks \o parts, K({"hook"} \cup ({"arrow"} \cup {"component"})))
    <3>1. FindsAll(hooks, K({"hook"}))
      <4> HIDE DEF E, K
      <4> QED
        BY <1>3
    <3> HIDE DEF hooks, parts, K
    <3> QED
      BY <1>5, <2>3, <3>1
  <2>5. FindsAll(types \o (hooks \o parts),
              K(typed \cup ({"hook"} \cup ({"arrow"} \cup {"component"}))))
    <3> HIDE DEF types, hooks, parts, typed, K
    <3> QED
      BY <1>5, <1>9, <2>4
  <2>6. /\ path \in DOMAIN FoundIn
        /\ FoundIn[path] = typed \cup ({"hook"} \cup ({"arrow"} \cup {"component"}))
    BY <1>11 DEF FoundIn
  <2> HIDE DEF parsed, Goal, types, typed, hooks, parts
  <2> QED
    BY <1>2, <2>1, <2>2, <2>5, <2>6
<1>12. CASE path = "go"
  <2>1. parsed = ParseGo(lines)
    BY <1>12 DEF ParseFile, LanguageOf
  <2>2. ParseGo(lines) = CannotParse \/ ParseGo(lines) = Parsed(<<>>)
    BY DEF ParseGo
  <2> QED
    BY <2>1, <2>2 DEF CannotParse, Parsed
<1>13. CASE path = "rs"
  <2>1. parsed = Parsed(E({"class", "def"}))
    BY <1>13 DEF ParseFile, LanguageOf, ParseRust
  <2>2. path \in DOMAIN FoundIn /\ FoundIn[path] = {"class", "def"}
    BY <1>13 DEF FoundIn
  <2> HIDE DEF parsed, Goal, E, K
  <2> QED
    BY <1>2, <1>3, <2>1, <2>2 DEF K
<1>14. CASE path = "java"
  <2> DEFINE S == {i \in DOMAIN lines :
                     \/ lines[i].kind \in {"class", "interface"}
                     \/ /\ lines[i].kind = "def"
                        /\ i > 1
                        /\ lines[i - 1].kind \in {"class", "interface"}}
             methods == EntitiesAt(lines, InOrder(S))
  <2>1. parsed = Parsed(methods)
    BY <1>14 DEF ParseFile, LanguageOf, ParseJava
  <2>2. K({"class", "interface"}) \subseteq S /\ S \subseteq DOMAIN lines
    BY DEF OfKinds
  <2>3. FindsAll(methods, K({"class", "interface"}))
    <3> HIDE DEF S, K
    <3>1. FindsAll(methods, S)
      BY <2>2, EntitiesFind
    <3> HIDE DEF methods
    <3> QED
      BY <2>2, <3>1, FindsLess
  <2>4. path \in DOMAIN FoundIn /\ FoundIn[path] = {"class", "interface"}
    BY <1>14 DEF FoundIn
  <2> HIDE DEF parsed, Goal, methods
  <2> QED
    BY <1>2, <2>1, <2>3, <2>4
<1>15. CASE path = "cs"
  <2>1. parsed = Parsed(E({"class", "interface"}))
    BY <1>15 DEF ParseFile, LanguageOf, ParseCSharp
  <2>2. path \in DOMAIN FoundIn /\ FoundIn[path] = {"class", "interface"}
    BY <1>15 DEF FoundIn
  <2> HIDE DEF parsed, Goal, E, K
  <2> QED
    BY <1>2, <1>3, <2>1, <2>2 DEF K
<1>16. CASE path = "kt"
  <2>1. parsed = Parsed(E({"class", "interface", "def"}))
    BY <1>16 DEF ParseFile, LanguageOf, ParseKotlin
  <2>2. path \in DOMAIN FoundIn /\ FoundIn[path] = {"class", "interface", "def"}
    BY <1>16 DEF FoundIn
  <2> HIDE DEF parsed, Goal, E, K
  <2> QED
    BY <1>2, <1>3, <2>1, <2>2 DEF K
<1>17. CASE path = "istio"
  <2>1. parsed = Parsed(E({"kind"}))
    BY <1>17 DEF ParseFile, LanguageOf, ParseIstio
  <2>2. path \in DOMAIN FoundIn /\ FoundIn[path] = {"kind"}
    BY <1>17 DEF FoundIn
  <2> HIDE DEF parsed, Goal, E, K
  <2> QED
    BY <1>2, <1>3, <2>1, <2>2 DEF K
<1>18. CASE path = "pom"
  <2> DEFINE S == {i \in DOMAIN lines : /\ lines[i].kind = "project"
                                        /\ \A j \in 1 .. i - 1 : lines[j].kind # "project"}
             first == EntitiesAt(lines, InOrder(S))
             others == (first \o E({"dependency"})) \o E({"plugin"})
  <2>1. parsed = Parsed(ParseMaven(lines))
    BY <1>18 DEF ParseFile, LanguageOf
  <2>2. ParseMaven(lines) = <<>> \/ ParseMaven(lines) = others
    BY DEF ParseMaven
  <2>3. FindsAll(others, K({"dependency", "plugin"}))
    <3>1. S \subseteq DOMAIN lines
      OBVIOUS
    <3> HIDE DEF S
    <3>2. FindsAll(first, S)
      BY <3>1, EntitiesFind
    <3>3. FindsAll(E({"dependency"}), K({"dependency"})) /\ FindsAll(E({"plugin"}), K({"plugin"}))
      <4> HIDE DEF E, K
      <4> QED
        BY <1>3
    <3>4. K({"dependency", "plugin"}) \subseteq (S \cup K({"dependency"})) \cup K({"plugin"})
      BY DEF OfKinds
    <3> HIDE DEF E, K, first
    <3>5. FindsAll(first \o E({"dependency"}), S \cup K({"dependency"}))
      BY <3>2, <3>3, JoinFinds
    <3> DEFINE two == first \o E({"dependency"})
    <3> HIDE DEF two
    <3>6. FindsAll(two, S \cup K({"dependency"}))
      BY <3>5 DEF two
    <3>7. FindsAll(two \o E({"plugin"}), (S \cup K({"dependency"})) \cup K({"plugin"}))
      BY <3>3, <3>6, JoinFinds
    <3>8. others = two \o E({"plugin"})
      BY DEF two
    <3> HIDE DEF others
    <3>9. FindsAll(others, (S \cup K({"dependency"})) \cup K({"plugin"}))
      BY <3>7, <3>8
    <3> QED
      BY <3>4, <3>9, FindsLess
  <2>4. path \in DOMAIN FoundIn /\ FoundIn[path] = {"dependency", "plugin"}
    BY <1>18 DEF FoundIn
  <2>5. parsed.entities = ParseMaven(lines)
    BY <2>1 DEF Parsed
  <2> HIDE DEF parsed, others
  <2> QED
    BY <2>2, <2>3, <2>4, <2>5
<1>19. CASE path = "gradle"
  <2> DEFINE S == {i \in DOMAIN lines :
                     \/ lines[i].kind = "plugin" /\ InBlock(lines, "plugins", i)
                     \/ lines[i].kind = "dependency" /\ InBlock(lines, "dependencies", i)
                     \/ lines[i].kind = "task"}
             first == EntitiesAt(lines, InOrder(S))
             all == first \o E({"apply"})
  <2>1. parsed = Parsed(all)
    BY <1>19 DEF ParseFile, LanguageOf, ParseGradle
  <2>2. FindsAll(all, K({"task", "apply"}))
    <3>1. S \subseteq DOMAIN lines /\ K({"task", "apply"}) \subseteq S \cup K({"apply"})
      BY DEF OfKinds
    <3> HIDE DEF S
    <3>2. FindsAll(first, S)
      BY <3>1, EntitiesFind
    <3>3. FindsAll(E({"apply"}), K({"apply"}))
      <4> HIDE DEF E, K
      <4> QED
        BY <1>3
    <3> HIDE DEF E, K, first
    <3>4. FindsAll(all, S \cup K({"apply"}))
      BY <3>2, <3>3, JoinFinds
    <3> HIDE DEF all
    <3> QED
      BY <3>1, <3>4, FindsLess
  <2>3. path \in DOMAIN FoundIn /\ FoundIn[path] = {"task", "apply"}
    BY <1>19 DEF FoundIn
  <2> HIDE DEF parsed, Goal, all
  <2> QED
    BY <1>2, <2>1, <2>2, <2>3
<1>20. CASE path \in {"rb", ""}
  <2>1. parsed = Parsed(<<>>)
    BY <1>20 DEF ParseFile, LanguageOf
  <2> QED
    BY <2>1 DEF Parsed
<1> HIDE DEF Goal
<1> QED
  BY <1>1, <1>6, <1>8, <1>10, <1>11, <1>12, <1>13, <1>14, <1>15, <1>16, <1>17, <1>18, <1>19, <1>20

\* Named chunks have what the entities have; ids are equal for entities of one name only.
LEMMA NamedAccount ==
  ASSUME NEW members, NEW lines, FindsAll(members, lines)
  PROVE  AccountsFor(NamedChunks(members), lines)
<1> DEFINE chunks == NamedChunks(members)
<1>1. PICK n \in Nat : DOMAIN members = 1 .. n
  BY LenProperties DEF FindsAll, IsSequence
<1>2. /\ DOMAIN chunks = 1 .. n
      /\ \A k \in 1 .. n : /\ chunks[k].id = <<"entity", members[k].name>>
                           /\ chunks[k].name = members[k].name
                           /\ chunks[k].index = k - 1 /\ chunks[k].units = members[k].units
  BY <1>1 DEF NamedChunks, NewChunk
<1> HIDE DEF chunks
<1>3. ASSUME NEW i \in DOMAIN chunks, NEW j \in DOMAIN chunks, i < j
      PROVE  chunks[i].index < chunks[j].index
  <2>1. i - 1 < j - 1 /\ chunks[i].index = i - 1 /\ chunks[j].index = j - 1
    BY <1>2, <1>3
  <2> QED
    BY <2>1
<1>4. \A i, j \in DOMAIN chunks :
        chunks[i].id = chunks[j].id => chunks[i].id = <<"entity", chunks[j].name>>
  BY <1>2
<1>5. lines \subseteq UNION {chunks[k].units : k \in DOMAIN chunks}
  BY <1>1, <1>2 DEF FindsAll, Found
<1> QED
  BY <1>3, <1>4, <1>5 DEF AccountsFor, chunks

-----------------------------------------------------------------------------
(* The handlers *)

\* What a handler makes of a text accounts for these units.
Fine(result, units) ==
  /\ result.outcome \in {"fine", "failed"}
  /\ result.outcome = "fine" => AccountsFor(result.chunks, units)

LEMMA UnhandledFine ==
  ASSUME NEW units
  PROVE  Fine(Unhandled, units)
BY DEF Fine, Unhandled

LEMMA SucceedsFine ==
  ASSUME NEW chunks, NEW units, AccountsFor(chunks, units)
  PROVE  Fine(Succeeds(chunks), units)
BY DEF Fine, Succeeds

LEMMA TextFine ==
  ASSUME NEW file, IsList(file.text)
  PROVE  /\ Fine(HandleText(file), {i \in DOMAIN file.text : file.text[i] \notin {"blank"}})
         /\ \A path, read : Fine(HandleDocument(file, path, read),
                                 {i \in DOMAIN file.text : file.text[i] \notin {"blank"}})
<1> DEFINE text == file.text
           units == {i \in DOMAIN text : text[i] \notin {"blank"}}
           same == {i \in DOMAIN text : text[i] # "blank"}
<1>1. units = same
  OBVIOUS
<1>2. AccountsFor(Sliding(text), units)
  <2>1. PICK n : Apart(Sliding(text), n) /\ Found(Sliding(text), same)
    BY SlidingAccounts
  <2> HIDE DEF units, same, text
  <2> QED
    BY <1>1, <2>1, ApartAccount
<1> HIDE DEF units, same
<1>3. Fine(HandleText(file), units)
  BY <1>2, UnhandledFine, SucceedsFine DEF HandleText
<1>4. ASSUME NEW path, NEW read
      PROVE  Fine(HandleDocument(file, path, read), units)
  BY <1>2, UnhandledFine, SucceedsFine DEF HandleDocument
<1> QED
  BY <1>3, <1>4 DEF units

LEMMA LenientFine ==
  ASSUME NEW file, IsList(file.text), NEW type
  PROVE  Fine(HandleLenient(type, file),
              {i \in DOMAIN file.text : file.text[i] \notin Markup(type) \cup {"blank"}})
<1> DEFINE text == file.text
           units == {i \in DOMAIN text : text[i] \notin Markup(type) \cup {"blank"}}
           chunks == SlidingOver(text, Markup(type))
<1>1. PICK n : Apart(chunks, n) /\ Found(chunks, units)
  BY SlidingOverAccounts
<1>2. HandleLenient(type, file) = Unhandled \/ HandleLenient(type, file) = Succeeds(chunks)
  BY DEF HandleLenient
<1> HIDE DEF units, chunks
<1>3. AccountsFor(chunks, units)
  BY <1>1, ApartAccount
<1>4. Fine(HandleLenient(type, file), units)
  BY <1>2, <1>3, UnhandledFine, SucceedsFine
<1> QED
  BY <1>4 DEF units

LEMMA SourceCodeFine ==
  ASSUME NEW file, IsList(file.text), NEW path \in {file.path, ""}
  PROVE  Fine(HandleSourceCode(file, path),
              IF file.path \in DOMAIN FoundIn THEN OfKinds(file.text, FoundIn[file.path])
              ELSE DOMAIN file.text)
<1> DEFINE text == file.text
           units == IF file.path \in DOMAIN FoundIn THEN OfKinds(text, FoundIn[file.path])
                    ELSE DOMAIN text
           of == IF path \in DOMAIN LanguageOf THEN path ELSE ""
           parsed == ParseFile(text, of)
<1>1. units \subseteq DOMAIN text
  BY DEF OfKinds
<1>2. of \in DOMAIN LanguageOf /\ of \in {file.path, ""} /\ "" \notin DOMAIN FoundIn
  BY DEF LanguageOf, FoundIn
<1>3. \/ parsed.fails
      \/ parsed.entities = <<>>
      \/ of \in DOMAIN FoundIn /\ FindsAll(parsed.entities, OfKinds(text, FoundIn[of]))
  <2> HIDE DEF of, text, parsed
  <2>1. IsList(text)
    BY DEF text
  <2> QED
    BY <1>2, <2>1, ParsersFind DEF parsed
<1>4. HandleSourceCode(file, path) \in {Unhandled, ParsedChunks(text, parsed)}
  BY DEF HandleSourceCode
<1> HIDE DEF parsed
<1>5. Fine(ParsedChunks(text, parsed), units)
  <2>1. CASE parsed.fails
    BY <2>1, UnhandledFine DEF ParsedChunks
  <2>2. CASE ~ parsed.fails /\ parsed.entities = <<>>
    <3>1. ParsedChunks(text, parsed) = Succeeds(Whole(text, <<"full">>))
      BY <2>2 DEF ParsedChunks
    <3>2. AccountsFor(Whole(text, <<"full">>), units)
      <4> HIDE DEF units, text
      <4> QED
        BY <1>1, WholeAccounts
    <3> HIDE DEF units
    <3> QED
      BY <3>1, <3>2, SucceedsFine
  <2>3. CASE ~ parsed.fails /\ parsed.entities # <<>>
    <3>1. ParsedChunks(text, parsed) = Succeeds(NamedChunks(parsed.entities))
      BY <2>3 DEF ParsedChunks
    <3>2. units = OfKinds(text, FoundIn[of]) /\ FindsAll(parsed.entities, OfKinds(text, FoundIn[of]))
      BY <1>2, <1>3, <2>3
    <3> HIDE DEF units
    <3>3. AccountsFor(NamedChunks(parsed.entities), units)
      BY <3>2, NamedAccount
    <3> QED
      BY <3>1, <3>3, SucceedsFine
  <2> QED
    BY <2>1, <2>2, <2>3
<1> HIDE DEF units
<1>6. Fine(HandleSourceCode(file, path), units)
  BY <1>4, <1>5, UnhandledFine
<1> QED
  BY <1>6 DEF units

\* One chunk for all of it.
LEMMA WholeFine ==
  ASSUME NEW text, NEW id, NEW units, units \subseteq DOMAIN text
  PROVE  Fine(Succeeds(Whole(text, id)), units)
BY WholeAccounts, SucceedsFine

LEMMA ConfigFine ==
  ASSUME NEW file, NEW path, NEW units, units \subseteq DOMAIN file.text
  PROVE  /\ Fine(HandleConfig(file, path), units)
         /\ Fine(HandleDiagram(file), units)
<1>1. /\ HandleConfig(file, path) \in {Unhandled, Succeeds(Whole(file.text, <<>>))}
      /\ HandleDiagram(file) \in {Unhandled, Succeeds(Whole(file.text, <<>>))}
  BY DEF HandleConfig, HandleDiagram
<1>2. Fine(Succeeds(Whole(file.text, <<>>)), units)
  BY WholeFine
<1> QED
  BY <1>1, <1>2, UnhandledFine

\* Handlers whose chunks are about the file, not of its text.
LEMMA AboutFine ==
  ASSUME NEW file, NEW path
  PROVE  /\ Fine(HandleBPMN(file, path), {}) /\ Fine(HandleImage(file), {})
         /\ Fine(HandleSAP(file), {})
<1> DEFINE image == Succeeds(<<NewChunk(<<"image">>, 0, "", {})>>)
           sap == Succeeds(<<NewChunk(<<file.type>>, 0, "", {})>>)
<1>1. HandleBPMN(file, path) \in {Unhandled, Succeeds(<<>>), Succeeds(Whole(file.text, <<>>))}
  BY DEF HandleBPMN
<1>2. HandleImage(file) \in {Unhandled, image}
  BY DEF HandleImage
<1>3. HandleSAP(file) \in {Unhandled, sap}
  BY DEF HandleSAP
<1>4. Fine(Succeeds(<<>>), {}) /\ Fine(Succeeds(Whole(file.text, <<>>)), {})
  BY NoneAccount, SucceedsFine, WholeFine
<1>5. Fine(image, {}) /\ Fine(sap, {})
  <2>1. ASSUME NEW id
        PROVE  AccountsFor(<<NewChunk(id, 0, "", {})>>, {})
    <3> DEFINE none == {}
    <3>1. none \subseteq none
      OBVIOUS
    <3> HIDE DEF none
    <3>2. AccountsFor(<<NewChunk(id, 0, "", none)>>, none)
      BY <3>1, OneAccounts
    <3> QED
      BY <3>2 DEF none
  <2>2. /\ AccountsFor(<<NewChunk(<<"image">>, 0, "", {})>>, {})
        /\ AccountsFor(<<NewChunk(<<file.type>>, 0, "", {})>>, {})
    BY <2>1
  <2> QED
    BY <2>2, SucceedsFine
<1> HIDE DEF image, sap
<1> QED
  BY <1>1, <1>2, <1>3, <1>4, <1>5, UnhandledFine

\* The chart and the values of a chart are a chunk each.
LEMMA HelmAccounts ==
  ASSUME NEW text
  PROVE  AccountsFor(HelmChunks(text).chunks, {i \in DOMAIN text : text[i] = "chart"})
<1> DEFINE chart == {i \in DOMAIN text : text[i] = "chart"}
           readable == \A i \in DOMAIN text : text[i] # "broken"
           legible == \E i \in DOMAIN text : text[i] # "blank"
           a == NewChunk(<<"", 0>>, 0, "", chart)
           b == NewChunk(<<"", 1>>, 1, "", DOMAIN text)
           first == IF chart = {} THEN <<>> ELSE <<a>>
           second == IF readable /\ legible THEN <<b>> ELSE <<>>
<1>1. HelmChunks(text).chunks = first \o second
  BY DEF HelmChunks
<1>2. AccountsFor(<<a>>, chart) /\ (chart = {} => AccountsFor(<<b>>, chart))
  BY OneAccounts
<1>3. AccountsFor(<<a>> \o <<b>>, chart)
  <2> DEFINE two == <<a>> \o <<b>>
  <2>1. /\ a.index = 0 /\ a.id = <<"", 0>> /\ a.units = chart
        /\ b.index = 1 /\ b.id = <<"", 1>>
    BY DEF NewChunk
  <2> HIDE DEF a, b
  <2>2. /\ <<a>> \in Seq({a, b}) /\ Len(<<a>>) = 1 /\ <<a>>[1] = a
        /\ <<b>> \in Seq({a, b}) /\ Len(<<b>>) = 1 /\ <<b>>[1] = b
    OBVIOUS
  <2>3. DOMAIN two = 1 .. 2 /\ two[1] = a /\ two[2] = b
    <3>1. /\ two \in Seq({a, b}) /\ Len(two) = 1 + 1
          /\ \A i \in 1 .. 1 + 1 : two[i] = IF i <= 1 THEN <<a>>[i] ELSE <<b>>[i - 1]
      BY <2>2, ConcatProperties
    <3> HIDE DEF two
    <3>2. two[1] = <<a>>[1] /\ two[2] = <<b>>[1]
      BY <3>1
    <3>3. DOMAIN two = 1 .. 2
      BY <3>1, LenProperties
    <3> QED
      BY <2>2, <3>2, <3>3
  <2> HIDE DEF two
  <2>4. Numbered(two, 2)
    <3> SUFFICES ASSUME NEW k \in 1 .. 2
                 PROVE  two[k].id = <<"", k - 1>> /\ two[k].index = k - 1
      BY DEF Numbered
    <3>1. CASE k = 1
      <4>1. k - 1 = 0 /\ two[k] = a
        BY <2>3, <3>1
      <4> QED
        BY <2>1, <4>1
    <3>2. CASE k = 2
      <4>1. k - 1 = 1 /\ two[k] = b
        BY <2>3, <3>2
      <4> QED
        BY <2>1, <4>1
    <3>3. k = 1 \/ k = 2
      OBVIOUS
    <3> QED
      BY <3>1, <3>2, <3>3
  <2>5. Apart(two, 2)
    BY <2>3, <2>4, NumberedApart
  <2>6. Found(two, chart)
    <3>1. 1 \in DOMAIN two
      BY <2>3
    <3>2. two[1].units = chart
      BY <2>1, <2>3
    <3> QED
      BY <3>1, <3>2 DEF Found
  <2>7. AccountsFor(two, chart)
    BY <2>5, <2>6, ApartAccount
  <2> QED
    BY <2>7 DEF two
<1>4. chart = {} => AccountsFor(<<>>, chart)
  BY NoneAccount
<1>5. <<>> \o <<>> = <<>> /\ <<a>> \o <<>> = <<a>> /\ <<>> \o <<b>> = <<b>>
  <2> HIDE DEF a, b
  <2>1. <<>> \in Seq({a, b}) /\ <<a>> \in Seq({a, b}) /\ <<b>> \in Seq({a, b})
    OBVIOUS
  <2> QED
    BY <2>1, ConcatEmptySeq
<1>6. AccountsFor(first \o second, chart)
  <2>1. first \o second \in {<<>> \o <<>>, <<a>> \o <<>>, <<>> \o <<b>>, <<a>> \o <<b>>}
    BY DEF first, second
  <2>2. first = <<>> => chart = {}
    OBVIOUS
  <2>3. /\ first = <<>> \/ first = <<a>>
        /\ second = <<>> \/ second = <<b>>
    OBVIOUS
  <2> HIDE DEF chart, first, second, a, b
  <2> QED
    BY <1>2, <1>3, <1>4, <1>5, <2>2, <2>3
<1> QED
  BY <1>1, <1>6

LEMMA KubernetesFine ==
  ASSUME NEW file, IsList(file.text), NEW path \in {file.path, ""}
  PROVE  Fine(HandleKubernetes(file, path),
              IF IsChart(file.path) THEN {i \in DOMAIN file.text : file.text[i] \in {"chart"}}
              ELSE IF file.path = "dockerfile"
              THEN {i \in DOMAIN file.text : file.text[i] \notin {"blank", "comment", "continued"}}
              ELSE {i \in DOMAIN file.text : file.text[i] \notin {"blank", "---"}})
<1> DEFINE text == file.text
           charts == {i \in DOMAIN text : text[i] \in {"chart"}}
           instructions == {i \in DOMAIN text : text[i] \notin {"blank", "comment", "continued"}}
           legible == {i \in DOMAIN text : text[i] \notin {"blank", "---"}}
           units == IF IsChart(file.path) THEN charts
                    ELSE IF file.path = "dockerfile" THEN instructions ELSE legible
           result == HandleKubernetes(file, path)
<1> SUFFICES Fine(result, units)
  OBVIOUS
<1>1. IsList(text)
  OBVIOUS
<1>2. AccountsFor(HelmChunks(text).chunks, charts)
  <2>1. charts = {i \in DOMAIN text : text[i] = "chart"}
    OBVIOUS
  <2> HIDE DEF charts, text
  <2> QED
    BY <2>1, HelmAccounts
<1>3. AccountsFor(DockerfileChunks(text), instructions)
  <2> HIDE DEF text
  <2>1. PICK n : Apart(DockerfileChunks(text), n) /\ Found(DockerfileChunks(text), instructions)
    BY <1>1, DockerfileAccounts
  <2> HIDE DEF instructions
  <2> QED
    BY <2>1, ApartAccount
<1>4. AccountsFor(YamlChunks(text), legible)
  <2> HIDE DEF text
  <2>1. PICK n : Apart(YamlChunks(text), n) /\ Found(YamlChunks(text), legible)
    BY <1>1, YamlAccounts
  <2> HIDE DEF legible
  <2> QED
    BY <2>1, ApartAccount
<1>5. KubernetesChunks(text).chunks = YamlChunks(text)
  BY DEF KubernetesChunks
<1>6. \A cut : CutOrFail(cut) \in {Unhandled, Succeeds(cut.chunks)}
  BY DEF CutOrFail
<1>7. \/ result = Unhandled
      \/ path = "dockerfile" /\ result = Succeeds(DockerfileChunks(text))
      \/ IsChart(path) /\ result \in {Unhandled, Succeeds(HelmChunks(text).chunks)}
      \/ /\ path \in {"yaml", "yml", "json"}
         /\ result \in {Unhandled, Succeeds(YamlChunks(text))}
  <2>1. CASE file.content # "utf8"
    BY <2>1 DEF HandleKubernetes
  <2>2. CASE file.content = "utf8" /\ path = "dockerfile"
    BY <2>2 DEF HandleKubernetes, IsChart
  <2>3. CASE file.content = "utf8" /\ IsChart(path)
    <3>1. result = CutOrFail(HelmChunks(text))
      BY <2>3 DEF HandleKubernetes, IsChart
    <3> QED
      BY <1>6, <2>3, <3>1
  <2>4. CASE file.content = "utf8" /\ path \in {"yaml", "yml", "json"}
    <3>1. result \in {Succeeds(YamlChunks(text)), CutOrFail(KubernetesChunks(text))}
      BY <2>4 DEF HandleKubernetes, IsChart
    <3> QED
      BY <1>5, <1>6, <2>4, <3>1
  <2>5. CASE /\ file.content = "utf8" /\ path # "dockerfile" /\ ~ IsChart(path)
             /\ path \notin {"yaml", "yml", "json"}
    BY <2>5 DEF HandleKubernetes
  <2> QED
    BY <2>1, <2>2, <2>3, <2>4, <2>5
<1>8. /\ path = "dockerfile" => units = instructions
      /\ IsChart(path) => units = charts
      /\ path \in {"yaml", "yml", "json"} => units = legible
  BY DEF IsChart
<1> HIDE DEF text, charts, instructions, legible, units, result
<1> QED
  BY <1>2, <1>3, <1>4, <1>7, <1>8, UnhandledFine, SucceedsFine

\* Chunks, or one for all of it if there are none.
LEMMA GraphQLFine ==
  ASSUME NEW file, IsList(file.text)
  PROVE  Fine(HandleGraphQL(file),
              {i \in DOMAIN file.text : file.text[i] \in {"type", "operation", "schema"}})
<1> DEFINE text == file.text
           units == {i \in DOMAIN text : text[i] \in {"type", "operation", "schema"}}
           chunks == GraphQLChunks(text)
<1>1. PICK n : Apart(chunks, n) /\ Found(chunks, units)
  BY GraphQLAccounts
<1>2. HandleGraphQL(file) \in {Unhandled, OrWhole(chunks, Whole(text, <<>>))}
  BY DEF HandleGraphQL
<1>3. AccountsFor(Whole(text, <<>>), units)
  <2>1. units \subseteq DOMAIN text
    OBVIOUS
  <2> HIDE DEF units, text
  <2> QED
    BY <2>1, WholeAccounts
<1> HIDE DEF units, text, chunks
<1>4. AccountsFor(chunks, units)
  BY <1>1, ApartAccount
<1>5. Fine(HandleGraphQL(file), units)
  BY <1>2, <1>3, <1>4, UnhandledFine, SucceedsFine DEF OrWhole
<1> QED
  BY <1>5 DEF units, text

LEMMA ProtoFine ==
  ASSUME NEW file, IsList(file.text)
  PROVE  Fine(HandleProto(file),
              {i \in DOMAIN file.text : file.text[i] \in {"service", "message"}})
<1> DEFINE text == file.text
           units == {i \in DOMAIN text : text[i] \in {"service", "message"}}
           legible == {i \in DOMAIN text : text[i] # "blank"}
           chunks == ProtoBlocks(text)
<1>1. PICK n : Apart(chunks, n) /\ Found(chunks, units)
  BY ProtoAccounts
<1>2. HandleProto(file) \in {Unhandled, OrWhole(chunks, Sliding(text))}
  BY DEF HandleProto
<1>3. AccountsFor(Sliding(text), units)
  <2>1. PICK m : Apart(Sliding(text), m) /\ Found(Sliding(text), legible)
    BY SlidingAccounts
  <2>2. units \subseteq legible
    OBVIOUS
  <2> HIDE DEF units, text, legible
  <2>3. AccountsFor(Sliding(text), legible)
    BY <2>1, ApartAccount
  <2> QED
    BY <2>2, <2>3, AccountForLess
<1> HIDE DEF units, text, chunks
<1>4. AccountsFor(chunks, units)
  BY <1>1, ApartAccount
<1>5. Fine(HandleProto(file), units)
  BY <1>2, <1>3, <1>4, UnhandledFine, SucceedsFine DEF OrWhole
<1> QED
  BY <1>5 DEF units, text

(* Code for the pipeline *)

\* What is decorated, at last, is a definition.
LEMMA DecoratorsDecorate ==
  ASSUME NEW lines, IsList(lines), IsPython(lines),
         NEW i \in DOMAIN lines, lines[i].kind = "decorator"
  PROVE  \E d \in i + 1 .. Len(lines) : Defines(lines[d]) /\ i \in Decorated(lines, d)
<1> DEFINE Above(k) == \/ lines[k].kind = "blank"
                       \/ lines[k].kind = "decorator" /\ lines[k].depth = lines[i].depth
           T == {k \in i .. Len(lines) : /\ lines[k].kind = "decorator"
                                         /\ lines[k].depth = lines[i].depth
                                         /\ \A m \in i .. k : Above(m)}
<1>1. i \in 1 .. Len(lines) /\ Len(lines) \in Nat
  BY DEF IsList
<1>2. i \in T
  BY <1>1
<1>3. PICK g \in T : \A k \in T : g >= k
  <2>1. T \in SUBSET (0 .. Len(lines)) /\ T # {}
    BY <1>1, <1>2
  <2> HIDE DEF T
  <2> QED
    BY <1>1, <2>1, GreatestBelow
<1>4. /\ g \in i .. Len(lines) /\ lines[g].kind = "decorator" /\ lines[g].depth = lines[i].depth
      /\ \A m \in i .. g : Above(m)
  BY <1>3
<1>5. g \in DOMAIN lines
  BY <1>1, <1>4 DEF IsList
<1>6. PICK d \in g + 1 .. Len(lines) :
        /\ Defines(lines[d]) \/ lines[d].kind = "decorator"
        /\ lines[d].depth = lines[g].depth
        /\ \A j \in g + 1 .. d - 1 : lines[j].kind = "blank"
  BY <1>4, <1>5 DEF IsPython
<1>7. \A m \in i .. d - 1 : Above(m)
  <2> SUFFICES ASSUME NEW m \in i .. d - 1
               PROVE  Above(m)
    OBVIOUS
  <2>1. CASE m <= g
    <3>1. m \in i .. g
      BY <1>1, <1>4, <2>1
    <3> QED
      BY <1>4, <3>1
  <2>2. CASE ~ m <= g
    <3>1. m \in g + 1 .. d - 1
      BY <1>1, <1>4, <1>6, <2>2
    <3> QED
      BY <1>6, <3>1
  <2> QED
    BY <2>1, <2>2
<1>8. d \in i + 1 .. Len(lines) /\ d \in 1 .. Len(lines) /\ ~ g >= d
  BY <1>1, <1>4, <1>6
<1>9. lines[d].depth = lines[i].depth
  BY <1>4, <1>6
<1>10. lines[d].kind # "decorator"
  <2> SUFFICES ASSUME lines[d].kind = "decorator"
               PROVE  FALSE
    OBVIOUS
  <2>1. Above(d)
    BY <1>9
  <2>2. \A m \in i .. d : Above(m)
    <3> SUFFICES ASSUME NEW m \in i .. d
                 PROVE  Above(m)
      OBVIOUS
    <3>1. m = d \/ m \in i .. d - 1
      BY <1>1, <1>8
    <3> HIDE DEF Above
    <3> QED
      BY <1>7, <2>1, <3>1
  <2>3. d \in T
    BY <1>8, <1>9, <2>2
  <2> QED
    BY <1>3, <1>8, <2>3
<1>11. i \in Decorated(lines, d)
  <2>1. i \in 1 .. d
    BY <1>1, <1>8
  <2> QED
    BY <1>7, <1>9, <2>1 DEF Decorated
<1> QED
  BY <1>6, <1>8, <1>10, <1>11

\* A definition has what is between a decorator of it and a line inside it.
LEMMA DefinitionHas ==
  ASSUME NEW lines, NEW d, NEW j \in Decorated(lines, d), NEW k \in Inside(lines, d), NEW i \in j .. k
  PROVE  i \in Definition(lines, d).units
<1> DEFINE D == Decorated(lines, d)
           I == Inside(lines, d)
           between == {x .. y : x \in D, y \in I}
<1>1. Definition(lines, d).units = UNION between
  BY DEF Definition, Entity
<1> HIDE DEF D, I
<1>2. j \in D /\ k \in I
  BY DEF D, I
<1>3. j .. k \in between
  BY <1>2
<1> HIDE DEF between
<1> QED
  BY <1>1, <1>3

LEMMA CodeFine ==
  ASSUME NEW file, IsList(file.text),
         IsPython(file.text) \/ \E i \in DOMAIN file.text : file.text[i].kind = "broken"
  PROVE  Fine(HandleCode(file),
              IF OfKinds(file.text, {"broken"}) = {}
              THEN OfKinds(file.text, {"def", "class", "decorator"})
              ELSE OfKinds(file.text, {"def", "class"}))
<1> DEFINE lines == file.text
           broken == \E i \in DOMAIN lines : lines[i].kind = "broken"
           S == OfKinds(lines, {"def", "class"})
           spans == [s \in S |-> IF broken THEN RegexLines(lines, s) ELSE Definition(lines, s).units]
           members == EntitiesIn(lines)
           chunks == EntityChunks(members)
           units == IF OfKinds(lines, {"broken"}) = {}
                    THEN OfKinds(lines, {"def", "class", "decorator"}) ELSE S
           n == Cardinality(S)
<1>1. /\ IsList(lines) /\ DOMAIN lines = 1 .. Len(lines) /\ Len(lines) \in Nat
      /\ broken \/ IsPython(lines)
  BY DEF IsList
<1>2. HandleCode(file) = Succeeds(chunks)
  BY DEF HandleCode, CodeChunks, Cut
<1> HIDE DEF lines
<1>3. IsFiniteSet(S) /\ S \subseteq Int /\ S \subseteq DOMAIN lines
  <2>1. S \subseteq DOMAIN lines
    BY DEF OfKinds
  <2> HIDE DEF S
  <2> QED
    BY <1>1, <2>1, PlacesOfText
<1>4. /\ n \in Nat /\ DOMAIN InOrder(S) = 1 .. n
      /\ \A k \in 1 .. n : InOrder(S)[k] \in S
  <2> HIDE DEF S
  <2> QED
    BY <1>3, InOrderFacts
<1>5. LinesOf(lines, {"def", "class"}) = InOrder(S)
  BY DEF LinesOf, OfKinds
<1> HIDE DEF n
<1>6. /\ DOMAIN members = 1 .. n
      /\ \A k \in 1 .. n : members[k].units = spans[InOrder(S)[k]]
  <2>1. CASE broken
    <3>1. members = RegexEntitiesAt(lines, InOrder(S))
      BY <1>5, <2>1 DEF EntitiesIn, PythonEntitiesRegex
    <3> HIDE DEF S
    <3> QED
      BY <1>4, <2>1, <3>1 DEF RegexEntitiesAt, Entity
  <2>2. CASE ~ broken
    <3>1. members = DefinitionsAt(lines, InOrder(S))
      BY <1>5, <2>2 DEF EntitiesIn, PythonEntities
    <3> HIDE DEF S
    <3> QED
      BY <1>4, <2>2, <3>1 DEF DefinitionsAt
  <2> QED
    BY <2>1, <2>2
<1> HIDE DEF members
<1>7. /\ DOMAIN chunks = 1 .. n
      /\ \A k \in 1 .. n : /\ chunks[k].id = <<"", k - 1>> /\ chunks[k].index = k - 1
                           /\ chunks[k].units = spans[InOrder(S)[k]]
  <2> HIDE DEF spans, S
  <2> QED
    BY <1>6 DEF EntityChunks, NewChunk
<1>8. ASSUME NEW i \in S
      PROVE  i \in spans[i]
  <2>1. i \in 1 .. Len(lines) /\ lines[i].kind \in {"def", "class"} /\ lines[i].kind # "blank"
    BY <1>1 DEF OfKinds
  <2>2. CASE broken
    <3>1. i \in RegexLines(lines, i)
      BY <1>1, <2>1 DEF RegexLines
    <3> HIDE DEF S
    <3> QED
      BY <2>2, <3>1
  <2>3. CASE ~ broken
    <3>1. i \in Decorated(lines, i) /\ i \in Inside(lines, i) /\ i \in i .. i
      BY <1>1, <2>1 DEF Decorated, Inside
    <3>2. i \in Definition(lines, i).units
      BY <3>1, DefinitionHas
    <3> HIDE DEF S
    <3> QED
      BY <2>3, <3>2
  <2> QED
    BY <2>2, <2>3
<1>9. ASSUME NEW i \in units
      PROVE  \E s \in S : i \in spans[s]
  <2>1. CASE i \in S
    BY <1>8, <2>1
  <2>2. CASE i \notin S
    <3>1. OfKinds(lines, {"broken"}) = {} /\ i \in DOMAIN lines /\ lines[i].kind = "decorator"
      BY <2>2 DEF OfKinds
    <3>2. ~ broken
      BY <3>1 DEF OfKinds
    <3>3. IsPython(lines)
      BY <1>1, <3>2
    <3>4. PICK d \in i + 1 .. Len(lines) : Defines(lines[d]) /\ i \in Decorated(lines, d)
      BY <1>1, <3>1, <3>3, DecoratorsDecorate
    <3>5. i \in 1 .. Len(lines) /\ d \in 1 .. Len(lines) /\ i \in i .. d
      BY <1>1, <3>1
    <3>6. d \in S /\ lines[d].kind # "blank"
      BY <1>1, <3>4, <3>5 DEF Defines, OfKinds
    <3>7. d \in Inside(lines, d)
      BY <1>1, <3>5, <3>6 DEF Inside
    <3>8. i \in Definition(lines, d).units
      BY <3>4, <3>5, <3>7, DefinitionHas
    <3>9. spans[d] = Definition(lines, d).units
      <4> HIDE DEF S
      <4> QED
        BY <3>2, <3>6
    <3> QED
      BY <3>6, <3>8, <3>9
  <2> QED
    BY <2>1, <2>2
<1> HIDE DEF spans, S, chunks, units
<1>10. Apart(chunks, n)
  <2>1. Numbered(chunks, n)
    BY <1>7 DEF Numbered
  <2> QED
    BY <1>4, <1>7, <2>1, NumberedApart
<1>11. Found(chunks, units)
  BY <1>3, <1>4, <1>7, <1>9, PlacedFound
<1>12. AccountsFor(chunks, units)
  BY <1>10, <1>11, ApartAccount
<1>13. Fine(HandleCode(file), units)
  BY <1>2, <1>12, SucceedsFine
<1> QED
  BY <1>13 DEF units, S, lines

(* Markdown *)

\* The sections have every line that is no heading.
LEMMA SectionsHave ==
  ASSUME NEW text, IsList(text)
  PROVE  \E n \in Nat :
           /\ DOMAIN Sections(text) = 1 .. n
           /\ \A i \in DOMAIN text : text[i] \notin Headings =>
                \E k \in 1 .. n : i \in Sections(text)[k]
<1> DEFINE Firsts == {i \in DOMAIN text : text[i] \notin Headings /\ (i = 1 \/ text[i - 1] \in Headings)}
           sections == Sections(text)
           n == Cardinality(Firsts)
<1>1. CASE \A i \in DOMAIN text : text[i] \in Headings
  <2>1. sections = <<DOMAIN text>>
    BY <1>1 DEF Sections
  <2>2. DOMAIN sections = 1 .. 1
    BY <2>1
  <2> HIDE DEF sections
  <2> QED
    BY <1>1, <2>2 DEF sections
<1>2. CASE ~ \A i \in DOMAIN text : text[i] \in Headings
  <2>1. sections = StretchesFrom(text, InOrder(Firsts))
    BY <1>2 DEF Sections
  <2>2. IsFiniteSet(Firsts) /\ Firsts \subseteq Int
    BY PlacesOfText
  <2>3. ASSUME NEW i \in DOMAIN text, text[i] \notin Headings
        PROVE  \E s \in Firsts : i \in Stretch(text, s)
    <3>1. PICK s \in 1 .. i : /\ text[s] \notin Headings
                              /\ s = 1 \/ text[s - 1] \in Headings
                              /\ \A k \in s .. i : text[k] \notin Headings
      BY <2>3, StretchStarts
    <3>2. s \in Firsts /\ i \in Stretch(text, s)
      BY <3>1 DEF Stretch, IsList
    <3> QED
      BY <3>2
  <2> HIDE DEF Firsts
  <2>4. /\ n \in Nat /\ DOMAIN InOrder(Firsts) = 1 .. n
        /\ \A s \in Firsts : \E k \in 1 .. n : InOrder(Firsts)[k] = s
    BY <2>2, InOrderFacts
  <2> HIDE DEF n
  <2>5. DOMAIN sections = 1 .. n /\ \A k \in 1 .. n : sections[k] = Stretch(text, InOrder(Firsts)[k])
    BY <2>1, <2>4 DEF StretchesFrom
  <2> HIDE DEF sections
  <2>6. ASSUME NEW i \in DOMAIN text, text[i] \notin Headings
        PROVE  \E k \in 1 .. n : i \in sections[k]
    <3>1. PICK s \in Firsts : i \in Stretch(text, s)
      BY <2>3, <2>6
    <3>2. PICK k \in 1 .. n : InOrder(Firsts)[k] = s
      BY <2>4
    <3> QED
      BY <2>5, <3>1, <3>2
  <2> QED
    BY <2>4, <2>5, <2>6 DEF sections
<1> QED
  BY <1>1, <1>2

\* FlattenSeq takes single elements out of their sequences.
LEMMA FlattenSingles ==
  ASSUME NEW n \in Nat, NEW x
  PROVE  LET all == FlattenSeq([k \in 1 .. n |-> <<x[k]>>])
         IN DOMAIN all = 1 .. n /\ \A k \in 1 .. n : all[k] = x[k]
<1> DEFINE seqs == [k \in 1 .. n |-> <<x[k]>>]
           X == {x[k] : k \in 1 .. n}
           flatten == CHOOSE f : f = [i \in 1 .. n |-> IF i = 1 THEN seqs[i] ELSE f[i - 1] \o seqs[i]]
           upto == [i \in 1 .. n |-> [k \in 1 .. i |-> x[k]]]
<1>1. Len(seqs) = n /\ DOMAIN seqs = 1 .. n
  OBVIOUS
<1>2. CASE n = 0
  <2>1. FlattenSeq(seqs) = seqs
    BY <1>1, <1>2 DEF FlattenSeq
  <2> QED
    BY <1>1, <1>2, <2>1
<1>3. CASE n # 0
  <2>1. FlattenSeq(seqs) = flatten[n]
    <3> HIDE DEF seqs
    <3> QED
      BY <1>1, <1>3 DEF FlattenSeq
  <2>2. \A i \in 1 .. n : seqs[i] = <<x[i]>> /\ x[i] \in X
    OBVIOUS
  <2>3. \A i \in 1 .. n : DOMAIN upto[i] = 1 .. i /\ \A k \in 1 .. i : upto[i][k] = x[k]
    OBVIOUS
  <2>4. \A i \in 1 .. n : upto[i] \in [1 .. i -> X]
    OBVIOUS
  <2> HIDE DEF seqs, X
  <2>5. ASSUME NEW i \in 1 .. n
        PROVE  upto[i] = IF i = 1 THEN seqs[i] ELSE upto[i - 1] \o seqs[i]
    <3>1. i \in Nat /\ i \in 1 .. i
      OBVIOUS
    <3> HIDE DEF upto
    <3>2. CASE i = 1
      <4>1. upto[1] \in [1 .. 1 -> X] /\ upto[1][1] = x[1]
        BY <2>3, <2>4, <3>1, <3>2
      <4>2. <<x[1]>> \in [1 .. 1 -> X] /\ <<x[1]>>[1] = x[1]
        BY <2>2, <3>2
      <4>3. \A k \in 1 .. 1 : upto[1][k] = <<x[1]>>[k]
        <5>1. \A k \in 1 .. 1 : k = 1
          OBVIOUS
        <5> QED
          BY <4>1, <4>2, <5>1
      <4>4. upto[1] = <<x[1]>>
        BY <4>1, <4>2, <4>3
      <4> QED
        BY <2>2, <3>2, <4>4
    <3>3. CASE i # 1
      <4>1. i - 1 \in 1 .. n /\ i - 1 \in Nat /\ (i - 1) + 1 = i
        BY <3>3
      <4> DEFINE s == upto[i - 1]
                 t == Append(s, x[i])
      <4>2. s \in [1 .. i - 1 -> X] /\ \A k \in 1 .. i - 1 : s[k] = x[k]
        BY <2>3, <2>4, <4>1
      <4> HIDE DEF s
      <4>3. s \in Seq(X) /\ Len(s) = i - 1
        <5>1. s \in Seq(X)
          BY <4>1, <4>2, SeqDef
        <5>2. DOMAIN s = 1 .. i - 1 /\ DOMAIN s = 1 .. Len(s) /\ Len(s) \in Nat
          BY <4>2, <5>1, LenProperties
        <5> QED
          BY <4>1, <5>1, <5>2
      <4>4. x[i] \in X /\ seqs[i] = <<x[i]>>
        BY <2>2
      <4>5. /\ t \in Seq(X) /\ Len(t) = (i - 1) + 1
            /\ \A k \in 1 .. i - 1 : t[k] = s[k]
            /\ t[(i - 1) + 1] = x[i]
        BY <4>3, <4>4, AppendProperties
      <4>6. t = s \o <<x[i]>>
        BY <4>3, <4>4, AppendIsConcat
      <4> HIDE DEF t
      <4>7. t \in [1 .. i -> X]
        BY <4>1, <4>5, LenProperties
      <4>8. \A k \in 1 .. i : t[k] = x[k]
        <5> SUFFICES ASSUME NEW k \in 1 .. i
                     PROVE  t[k] = x[k]
          OBVIOUS
        <5>1. k = i \/ k \in 1 .. i - 1
          BY <3>1
        <5> QED
          BY <4>1, <4>2, <4>5, <5>1
      <4>9. upto[i] \in [1 .. i -> X] /\ \A k \in 1 .. i : upto[i][k] = x[k]
        BY <2>3, <2>4
      <4>10. upto[i] = t
        BY <4>7, <4>8, <4>9
      <4> QED
        BY <3>3, <4>4, <4>6, <4>10 DEF s
    <3> QED
      BY <3>2, <3>3
  <2>6. upto = [i \in 1 .. n |-> IF i = 1 THEN seqs[i] ELSE upto[i - 1] \o seqs[i]]
    <3>1. DOMAIN upto = 1 .. n /\ upto = [i \in 1 .. n |-> upto[i]]
      OBVIOUS
    <3> HIDE DEF upto
    <3> QED
      BY <2>5, <3>1
  <2>7. flatten = [i \in 1 .. n |-> IF i = 1 THEN seqs[i] ELSE flatten[i - 1] \o seqs[i]]
    <3> HIDE DEF upto
    <3> QED
      BY <2>6
  <2> HIDE DEF upto, flatten
  <2>8. \A i \in 1 .. n : flatten[i] = IF i = 1 THEN seqs[i] ELSE flatten[i - 1] \o seqs[i]
    BY <2>7
  <2> DEFINE T == {i \in 1 .. n : flatten[i] # upto[i]}
  <2>9. T = {}
    <3> SUFFICES ASSUME T # {}
                 PROVE  FALSE
      OBVIOUS
    <3>1. PICK i \in T : \A k \in T : i <= k
      <4>1. T \in SUBSET Nat
        OBVIOUS
      <4> HIDE DEF T
      <4> QED
        BY <4>1, LeastNatural
    <3>2. i # 1 => flatten[i - 1] = upto[i - 1]
      <4> SUFFICES ASSUME i # 1, flatten[i - 1] # upto[i - 1]
                   PROVE  FALSE
        OBVIOUS
      <4>1. i - 1 \in T /\ ~ i <= i - 1
        OBVIOUS
      <4> QED
        BY <3>1, <4>1
    <3>3. flatten[i] = upto[i]
      <4>1. i \in 1 .. n
        OBVIOUS
      <4> HIDE DEF T
      <4> QED
        BY <2>5, <2>8, <3>2, <4>1
    <3> QED
      BY <3>3
  <2>10. n \in 1 .. n
    BY <1>3
  <2>11. flatten[n] = upto[n]
    BY <2>9, <2>10
  <2> QED
    BY <2>1, <2>3, <2>10, <2>11 DEF seqs
<1> QED
  BY <1>2, <1>3

\* Sections that need no splitting are a chunk each.
LEMMA SectionsAreChunks ==
  ASSUME NEW text, IsList(text), Splittable("markdown", text)
  PROVE  LET cut == StructuralChunks(text)
         IN /\ cut.ends
            /\ \E n \in Nat :
                 /\ DOMAIN cut.chunks = 1 .. n
                 /\ \A k \in 1 .. n :
                      cut.chunks[k] = NewChunk(<<"", k - 1>>, k - 1, "", Sections(text)[k])
                 /\ \A i \in DOMAIN text : text[i] \notin Headings =>
                      \E k \in 1 .. n : i \in Sections(text)[k]
<1> DEFINE sections == Sections(text)
           cuts == [k \in DOMAIN sections |-> SectionChunks(text, sections[k], k - 1)]
           x == [k \in DOMAIN sections |-> NewChunk(<<"", k - 1>>, k - 1, "", sections[k])]
           cut == StructuralChunks(text)
<1>1. PICK n \in Nat : /\ DOMAIN sections = 1 .. n
                       /\ \A i \in DOMAIN text : text[i] \notin Headings =>
                            \E k \in 1 .. n : i \in sections[k]
  BY SectionsHave
<1>2. \A k \in DOMAIN sections : Cardinality(sections[k]) <= ChunkSize
  BY DEF Splittable
<1>3. cut = Joined(cuts)
  BY DEF StructuralChunks, SectionsCut
<1> HIDE DEF sections
<1>4. ASSUME NEW k \in DOMAIN sections
      PROVE  cuts[k] = Cut(<<x[k]>>)
  <2>1. cuts[k] = SectionChunks(text, sections[k], k - 1)
    OBVIOUS
  <2>2. Cardinality(sections[k]) <= ChunkSize
    BY <1>2
  <2>3. x[k] = NewChunk(<<"", k - 1>>, k - 1, "", sections[k])
    OBVIOUS
  <2> HIDE DEF cuts, x
  <2> QED
    BY <2>1, <2>2, <2>3 DEF SectionChunks
<1>5. DOMAIN cuts = 1 .. n /\ DOMAIN x = 1 .. n
  BY <1>1
<1>6. \A k \in 1 .. n : x[k] = NewChunk(<<"", k - 1>>, k - 1, "", sections[k])
  BY <1>1
<1> HIDE DEF cuts, x, cut
<1>7. ASSUME NEW k \in 1 .. n
      PROVE  cuts[k].ends /\ cuts[k].chunks = <<x[k]>>
  <2>1. cuts[k] = Cut(<<x[k]>>)
    BY <1>1, <1>4
  <2> DEFINE y == <<x[k]>>
  <2>2. cuts[k] = Cut(y)
    BY <2>1
  <2> HIDE DEF y
  <2>3. cuts[k].ends /\ cuts[k].chunks = y
    BY <2>2 DEF Cut
  <2> QED
    BY <2>3 DEF y
<1>8. cut.ends /\ cut.chunks = FlattenSeq([k \in 1 .. n |-> <<x[k]>>])
  <2>1. cut.ends /\ cut.chunks = FlattenSeq([k \in DOMAIN cuts |-> cuts[k].chunks])
    BY <1>3, <1>5, <1>7 DEF Joined
  <2>2. [k \in DOMAIN cuts |-> cuts[k].chunks] = [k \in 1 .. n |-> <<x[k]>>]
    BY <1>5, <1>7
  <2> QED
    BY <2>1, <2>2
<1>9. DOMAIN cut.chunks = 1 .. n /\ \A k \in 1 .. n : cut.chunks[k] = x[k]
  <2> DEFINE all == FlattenSeq([k \in 1 .. n |-> <<x[k]>>])
  <2>1. DOMAIN all = 1 .. n /\ \A k \in 1 .. n : all[k] = x[k]
    BY FlattenSingles
  <2> HIDE DEF all
  <2>2. cut.chunks = all
    BY <1>8 DEF all
  <2> QED
    BY <2>1, <2>2
<1> QED
  BY <1>1, <1>6, <1>8, <1>9 DEF cut, sections

LEMMA MarkdownFine ==
  ASSUME NEW file, IsList(file.text), Splittable("markdown", file.text)
  PROVE  Fine(HandleMarkdown(file),
              {i \in DOMAIN file.text : file.text[i] \notin Headings \cup {"blank"}})
<1> DEFINE text == file.text
           units == {i \in DOMAIN text : text[i] \notin Headings \cup {"blank"}}
           B == {i \in DOMAIN text : text[i] = "code"}
           blocks == InOrder(B)
           cut == StructuralChunks(text)
           a == BlockChunks(blocks)
           b == After(Len(blocks), cut.chunks)
           m == Cardinality(B)
           both == a \o b
<1>1. HandleMarkdown(file) \in {Unhandled, MarkdownChunks(blocks, cut)}
  BY DEF HandleMarkdown
<1>2. /\ cut.ends
      /\ \E n \in Nat :
           /\ DOMAIN cut.chunks = 1 .. n
           /\ \A k \in 1 .. n :
                cut.chunks[k] = NewChunk(<<"", k - 1>>, k - 1, "", Sections(text)[k])
           /\ \A i \in DOMAIN text : text[i] \notin Headings =>
                \E k \in 1 .. n : i \in Sections(text)[k]
  BY SectionsAreChunks
<1>3. PICK n \in Nat :
        /\ DOMAIN cut.chunks = 1 .. n
        /\ \A k \in 1 .. n :
             cut.chunks[k] = NewChunk(<<"", k - 1>>, k - 1, "", Sections(text)[k])
        /\ \A i \in DOMAIN text : text[i] \notin Headings =>
             \E k \in 1 .. n : i \in Sections(text)[k]
  BY <1>2
<1>4. m \in Nat /\ DOMAIN blocks = 1 .. m /\ Len(blocks) = m
  <2>1. IsFiniteSet(B) /\ B \subseteq Int
    BY PlacesOfText
  <2> HIDE DEF B
  <2>2. m \in Nat /\ DOMAIN blocks = 1 .. m
    BY <2>1, InOrderFacts
  <2> QED
    BY <2>2 DEF InOrder
<1>5. MarkdownChunks(blocks, cut) = Succeeds(both)
  BY <1>2 DEF MarkdownChunks
<1> HIDE DEF cut, m, blocks
<1>6. /\ DOMAIN a = 1 .. m /\ a = [k \in 1 .. m |-> a[k]]
      /\ \A k \in 1 .. m : a[k].id = <<"code", k - 1>> /\ a[k].index = k - 1
  BY <1>4 DEF BlockChunks, NewChunk
<1>7. /\ DOMAIN b = 1 .. n /\ b = [k \in 1 .. n |-> b[k]]
      /\ \A k \in 1 .. n : /\ b[k].id = <<"", k - 1>> /\ b[k].index = (k - 1) + m
                           /\ b[k].units = Sections(text)[k]
  <2>1. /\ DOMAIN b = 1 .. n /\ b = [k \in 1 .. n |-> b[k]]
        /\ \A k \in 1 .. n : b[k] = [cut.chunks[k] EXCEPT !.index = cut.chunks[k].index + m]
    BY <1>3, <1>4 DEF After
  <2> HIDE DEF b, text
  <2>2. ASSUME NEW k \in 1 .. n
        PROVE  /\ b[k].id = <<"", k - 1>> /\ b[k].index = (k - 1) + m
               /\ b[k].units = Sections(text)[k]
    <3> DEFINE id == <<"", k - 1>>
               had == Sections(text)[k]
               r == cut.chunks[k]
               index == k - 1
               none == ""
               later == b[k]
    <3>1. r = NewChunk(id, index, none, had)
      BY <1>3
    <3>2. later = [r EXCEPT !.index = r.index + m]
      BY <2>1
    <3> HIDE DEF id, had, r, index, none, later
    <3>3. r = [id |-> id, index |-> index, name |-> none, units |-> had]
      BY <3>1 DEF NewChunk
    <3>4. r.index = index
      BY <3>3
    <3> DEFINE moved == index + m
    <3>5. later = [r EXCEPT !.index = moved]
      BY <3>2, <3>4
    <3> HIDE DEF moved
    <3>6. later = [id |-> id, index |-> moved, name |-> none, units |-> had]
      BY <3>3, <3>5
    <3>7. later.id = id /\ later.index = moved /\ later.units = had
      BY <3>6
    <3> QED
      BY <3>7 DEF id, index, had, later, moved
  <2> QED
    BY <2>1, <2>2
<1> HIDE DEF a, b
<1>8. /\ DOMAIN both = 1 .. m + n
      /\ \A k \in 1 .. m : both[k] = a[k]
      /\ \A k \in 1 .. n : both[m + k] = b[k]
  <2> DEFINE R == Range(a) \cup Range(b)
  <2>1. IsSequence(a) /\ IsSequence(b)
    BY <1>4, <1>6, <1>7, ListIsSequence
  <2>2. a \in Seq(R) /\ b \in Seq(R)
    <3>1. /\ a \in Seq(Range(a)) /\ b \in Seq(Range(b))
          /\ Range(a) \subseteq R /\ Range(b) \subseteq R
      BY <2>1 DEF IsSequence
    <3> HIDE DEF R
    <3> QED
      BY <3>1, SeqMonotonic
  <2> HIDE DEF R
  <2>3. Len(a) = m /\ Len(b) = n
    <3>1. /\ Len(a) \in Nat /\ 1 .. Len(a) = 1 .. m
          /\ Len(b) \in Nat /\ 1 .. Len(b) = 1 .. n
      BY <1>6, <1>7, <2>2, LenProperties
    <3> QED
      BY <1>4, <3>1
  <2>4. /\ both \in Seq(R) /\ Len(both) = m + n
        /\ \A k \in 1 .. m + n : both[k] = IF k <= m THEN a[k] ELSE b[k - m]
    BY <2>2, <2>3, ConcatProperties
  <2> HIDE DEF both
  <2>5. DOMAIN both = 1 .. m + n
    BY <2>4, LenProperties
  <2>6. \A k \in 1 .. m : both[k] = a[k]
    BY <1>4, <2>4
  <2>7. ASSUME NEW k \in 1 .. n
        PROVE  both[m + k] = b[k]
    <3>1. m + k \in 1 .. m + n /\ ~ m + k <= m /\ (m + k) - m = k
      BY <1>4
    <3> QED
      BY <2>4, <3>1
  <2> QED
    BY <2>5, <2>6, <2>7
<1> HIDE DEF both
<1>9. /\ \A k \in 1 .. m : both[k].id = <<"code", k - 1>> /\ both[k].index = k - 1
      /\ \A k \in 1 .. n : /\ both[m + k].id = <<"", k - 1>> /\ both[m + k].index = (k - 1) + m
                           /\ both[m + k].units = Sections(text)[k]
  BY <1>6, <1>7, <1>8
<1>10. Apart(both, m + n)
  <2> SUFFICES ASSUME NEW j \in 1 .. m + n, NEW k \in 1 .. m + n, j < k
               PROVE  both[j].index < both[k].index /\ both[j].id # both[k].id
    BY <1>4, <1>8 DEF Apart
  <2>1. CASE k \in 1 .. m
    <3>1. j \in 1 .. m
      BY <1>4, <2>1
    <3>2. PICK p \in Int : p = j - 1
      OBVIOUS
    <3>3. PICK q \in Int : q = k - 1
      OBVIOUS
    <3>4. p < q
      BY <1>4, <3>2, <3>3
    <3>5. <<"code", p>> # <<"code", q>>
      BY <3>4
    <3>6. /\ both[j].id = <<"code", p>> /\ both[j].index = p
          /\ both[k].id = <<"code", q>> /\ both[k].index = q
      BY <1>9, <2>1, <3>1, <3>2, <3>3
    <3> QED
      BY <3>4, <3>5, <3>6
  <2>2. CASE j \in 1 .. m /\ k \notin 1 .. m
    <3>1. PICK l \in 1 .. n : k = m + l
      <4>1. k - m \in 1 .. n /\ k = m + (k - m)
        BY <1>4, <2>2
      <4> QED
        BY <4>1
    <3>2. PICK p \in Int : p = j - 1
      OBVIOUS
    <3>3. PICK q \in Int : q = l - 1
      OBVIOUS
    <3>4. p < q + m
      BY <1>4, <2>2, <3>1, <3>2, <3>3
    <3>5. <<"code", p>> # <<"", q>>
      OBVIOUS
    <3>6. /\ both[j].id = <<"code", p>> /\ both[j].index = p
          /\ both[k].id = <<"", q>> /\ both[k].index = q + m
      BY <1>9, <2>2, <3>1, <3>2, <3>3
    <3> QED
      BY <3>4, <3>5, <3>6
  <2>3. CASE j \notin 1 .. m
    <3>1. PICK i \in 1 .. n : j = m + i
      <4>1. j - m \in 1 .. n /\ j = m + (j - m)
        BY <1>4, <2>3
      <4> QED
        BY <4>1
    <3>2. PICK l \in 1 .. n : k = m + l
      <4>1. k - m \in 1 .. n /\ k = m + (k - m)
        BY <1>4, <3>1
      <4> QED
        BY <4>1
    <3>3. PICK p \in Int : p = i - 1
      OBVIOUS
    <3>4. PICK q \in Int : q = l - 1
      OBVIOUS
    <3>5. p < q /\ p + m < q + m
      BY <1>4, <3>1, <3>2, <3>3, <3>4
    <3>6. <<"", p>> # <<"", q>>
      BY <3>5
    <3>7. /\ both[j].id = <<"", p>> /\ both[j].index = p + m
          /\ both[k].id = <<"", q>> /\ both[k].index = q + m
      BY <1>9, <3>1, <3>2, <3>3, <3>4
    <3> QED
      BY <3>5, <3>6, <3>7
  <2> QED
    BY <2>1, <2>2, <2>3
<1>11. Found(both, units)
  <2> SUFFICES ASSUME NEW i \in units
               PROVE  \E k \in DOMAIN both : i \in both[k].units
    BY DEF Found
  <2>1. i \in DOMAIN text /\ text[i] \notin Headings
    OBVIOUS
  <2>2. PICK k \in 1 .. n : i \in Sections(text)[k]
    BY <1>3, <2>1
  <2>3. m + k \in 1 .. m + n
    BY <1>4
  <2> QED
    BY <1>8, <1>9, <2>2, <2>3
<1> HIDE DEF units
<1>12. AccountsFor(both, units)
  BY <1>10, <1>11, ApartAccount
<1>13. Fine(HandleMarkdown(file), units)
  BY <1>1, <1>5, <1>12, UnhandledFine, SucceedsFine
<1> QED
  BY <1>13 DEF units

(* Sentences *)

\* Of some numbers between two there is a greatest.
LEMMA GreatestBetween ==
  ASSUME NEW a \in Int, NEW b \in Int, NEW T \in SUBSET (a .. b), T # {}
  PROVE  \E m \in T : \A k \in T : m >= k
<1> DEFINE S == {b - k : k \in T}
<1>1. S \in SUBSET Nat /\ S # {}
  <2>1. \A k \in T : b - k \in Nat
    OBVIOUS
  <2> QED
    BY <2>1
<1>2. PICK m \in S : \A k \in S : m <= k
  <2> HIDE DEF S
  <2> QED
    BY <1>1, LeastNatural
<1>3. PICK k \in T : m = b - k
  OBVIOUS
<1>4. \A j \in T : k >= j
  <2> SUFFICES ASSUME NEW j \in T
               PROVE  k >= j
    OBVIOUS
  <2>1. b - k <= b - j
    BY <1>2, <1>3
  <2>2. k \in Int /\ j \in Int
    OBVIOUS
  <2> QED
    BY <2>1, <2>2
<1> QED
  BY <1>4

LEMMA LastOfBetween ==
  ASSUME NEW a \in Int, NEW b \in Int, NEW T \in SUBSET (a .. b), T # {}
  PROVE  LastOf(T) \in T /\ \A k \in T : k <= LastOf(T)
<1>1. PICK m \in T : \A k \in T : m >= k
  BY GreatestBetween
<1>2. \A k \in T : k <= m
  <2> SUFFICES ASSUME NEW k \in T
               PROVE  k <= m
    OBVIOUS
  <2>1. m >= k /\ k \in Int /\ m \in Int
    BY <1>1
  <2> QED
    BY <2>1
<1> QED
  BY <1>2 DEF LastOf

\* A window ends somewhere after its start.
LEMMA SentenceCutFacts ==
  ASSUME NEW text, IsList(text), NEW pos \in Int
  PROVE  LET cut == SentenceCut(text, pos)
         IN /\ cut \in Int
            /\ pos + ChunkSize >= Len(text) => cut = Len(text)
            /\ ~ pos + ChunkSize >= Len(text) =>
                 /\ cut <= pos + ChunkSize
                 /\ \A e \in pos + 1 .. pos + ChunkSize - 1 :
                      text[e] = "end" => e <= cut /\ cut <= pos + ChunkSize - 1
<1> DEFINE T == {e \in pos + 1 .. pos + ChunkSize - 1 : text[e] = "end"}
           cut == SentenceCut(text, pos)
<1>1. ChunkSize \in Nat /\ Len(text) \in Nat /\ pos + 1 \in Int /\ pos + ChunkSize - 1 \in Int
  BY ChunkAssumption DEF IsList
<1>2. CASE pos + ChunkSize >= Len(text)
  <2>1. cut = Len(text)
    BY <1>2 DEF SentenceCut
  <2> QED
    BY <1>1, <1>2, <2>1
<1>3. CASE ~ pos + ChunkSize >= Len(text)
  <2>1. cut = IF \E e \in pos + 1 .. pos + ChunkSize - 1 : text[e] = "end"
              THEN LastOf(T) ELSE pos + ChunkSize
    BY <1>3 DEF SentenceCut, LastEnd
  <2>2. CASE T = {}
    <3>1. \A e \in pos + 1 .. pos + ChunkSize - 1 : text[e] # "end"
      BY <2>2
    <3>2. cut = pos + ChunkSize
      BY <2>1, <3>1
    <3> QED
      BY <1>1, <1>3, <3>1, <3>2
  <2>3. CASE T # {}
    <3>1. cut = LastOf(T)
      BY <2>1, <2>3
    <3>2. T \in SUBSET (pos + 1 .. pos + ChunkSize - 1)
      OBVIOUS
    <3>3. \A e \in pos + 1 .. pos + ChunkSize - 1 : text[e] = "end" => e \in T
      OBVIOUS
    <3> HIDE DEF T, cut
    <3>4. LastOf(T) \in T /\ \A k \in T : k <= LastOf(T)
      BY <1>1, <2>3, <3>2, LastOfBetween
    <3>5. cut \in pos + 1 .. pos + ChunkSize - 1 /\ \A k \in T : k <= cut
      BY <3>1, <3>2, <3>4
    <3>6. cut \in Int /\ cut <= pos + ChunkSize /\ cut <= pos + ChunkSize - 1
      BY <1>1, <3>5
    <3> QED
      BY <1>3, <3>3, <3>5, <3>6 DEF cut
  <2> QED
    BY <2>2, <2>3
<1> QED
  BY <1>2, <1>3

Turns == [pos : Int, over : BOOLEAN, pieces : Seq(SUBSET Int)]

Turned(text, s) == IF s.over THEN s ELSE DocumentTurn(text, s)

\* A turn adds the next piece, or finds that nothing is left.
LEMMA TurnFacts ==
  ASSUME NEW text, IsList(text), NEW s \in Turns
  PROVE  LET cut == SentenceCut(text, s.pos)
             next == cut - ChunkOverlap
         IN /\ Turned(text, s) \in Turns
            /\ ~ s.over /\ ~ (cut - s.pos < MinChunk /\ s.pieces # <<>>) =>
                 Turned(text, s) = [pos |-> next,
                                    over |-> cut >= Len(text) \/ next <= 0 \/ next >= cut,
                                    pieces |-> Append(s.pieces, s.pos + 1 .. cut)]
<1> DEFINE cut == SentenceCut(text, s.pos)
           next == cut - ChunkOverlap
           over == cut >= Len(text) \/ next <= 0 \/ next >= cut
           piece == s.pos + 1 .. cut
<1>1. s.pos \in Int /\ s.over \in BOOLEAN /\ s.pieces \in Seq(SUBSET Int)
  BY DEF Turns
<1>2. cut \in Int /\ ChunkOverlap \in Int
  <2>1. PICK pos \in Int : pos = s.pos
    BY <1>1
  <2>2. SentenceCut(text, pos) \in Int
    BY SentenceCutFacts
  <2>3. ChunkOverlap \in Nat
    BY ChunkAssumption
  <2> QED
    BY <2>1, <2>2, <2>3
<1> HIDE DEF cut
<1>3. next \in Int /\ over \in BOOLEAN /\ piece \in SUBSET Int
  BY <1>1, <1>2
<1>4. DocumentTurn(text, s) = IF cut - s.pos < MinChunk /\ s.pieces # <<>>
                              THEN [s EXCEPT !.over = TRUE]
                              ELSE [pos |-> next, over |-> over, pieces |-> Append(s.pieces, piece)]
  BY DEF DocumentTurn, DocumentStep, cut
<1> HIDE DEF next, over, piece
<1>5. [s EXCEPT !.over = TRUE] \in Turns
  BY DEF Turns
<1>6. Append(s.pieces, piece) \in Seq(SUBSET Int)
  BY <1>1, <1>3, AppendProperties
<1>7. [pos |-> next, over |-> over, pieces |-> Append(s.pieces, piece)] \in Turns
  BY <1>3, <1>6 DEF Turns
<1>8. Turned(text, s) \in Turns
  BY <1>4, <1>5, <1>7 DEF Turned
<1>9. ~ s.over /\ ~ (cut - s.pos < MinChunk /\ s.pieces # <<>>) =>
        Turned(text, s) = [pos |-> next, over |-> over, pieces |-> Append(s.pieces, piece)]
  BY <1>4 DEF Turned
<1> QED
  BY <1>8, <1>9 DEF cut, next, over, piece

\* The loop takes turns, one more than there are places.
LEMMA LoopTurns ==
  ASSUME NEW text, IsList(text)
  PROVE  \E f \in [0 .. Len(text) + 1 -> Turns] :
           /\ f[0] = NoPieces
           /\ \A i \in 1 .. Len(text) + 1 : f[i] = Turned(text, f[i - 1])
           /\ Repeated(text, LAMBDA s : DocumentTurn(text, s)) = f[Len(text) + 1]
<1> DEFINE after == CHOOSE f : f = [n \in 0 .. Len(text) + 1 |->
                      IF n = 0 THEN NoPieces
                      ELSE IF f[n - 1].over THEN f[n - 1] ELSE DocumentTurn(text, f[n - 1])]
<1>1. Repeated(text, LAMBDA s : DocumentTurn(text, s)) = after[Len(text) + 1]
  BY DEF Repeated
<1>2. PICK m \in Nat : m = Len(text) + 1
  BY DEF IsList
<1> DEFINE step == [p \in (1 .. m) \X Turns |-> Turned(text, p[2])]
<1>3. NoPieces \in Turns
  <2>1. <<>> \in Seq(SUBSET Int)
    OBVIOUS
  <2> QED
    BY <2>1 DEF NoPieces, Turns
<1>4. step \in [(1 .. m) \X Turns -> Turns]
  <2>1. \A s \in Turns : Turned(text, s) \in Turns
    BY TurnFacts
  <2> QED
    BY <2>1
<1>5. \A i \in 1 .. m, s \in Turns : step[<<i, s>>] = Turned(text, s)
  OBVIOUS
<1> HIDE DEF step
<1>6. PICK f \in [0 .. m -> Turns] : BuildsFromZero(f, m, NoPieces, step)
  BY <1>3, <1>4, IterationFromZero
<1>7. f[0] = NoPieces
  BY <1>6 DEF BuildsFromZero
<1>8. ASSUME NEW i \in 1 .. m
      PROVE  f[i] = Turned(text, f[i - 1])
  <2>1. i - 1 \in 0 .. m
    OBVIOUS
  <2>2. f[i - 1] \in Turns
    BY <2>1
  <2>3. f[i] = step[<<i, f[i - 1]>>]
    BY <1>6 DEF BuildsFromZero
  <2> QED
    BY <1>5, <2>2, <2>3
<1>9. f = [n \in 0 .. m |-> IF n = 0 THEN NoPieces
                            ELSE IF f[n - 1].over THEN f[n - 1] ELSE DocumentTurn(text, f[n - 1])]
  <2>1. ASSUME NEW n \in 0 .. m
        PROVE  f[n] = IF n = 0 THEN NoPieces
                      ELSE IF f[n - 1].over THEN f[n - 1] ELSE DocumentTurn(text, f[n - 1])
    <3>1. n = 0 \/ n \in 1 .. m
      OBVIOUS
    <3> QED
      BY <1>7, <1>8, <3>1 DEF Turned
  <2> QED
    BY <2>1
<1>10. after = [n \in 0 .. m |-> IF n = 0 THEN NoPieces
                                 ELSE IF after[n - 1].over THEN after[n - 1]
                                 ELSE DocumentTurn(text, after[n - 1])]
  BY <1>2, <1>9
<1> HIDE DEF after
<1>11. after[0] = NoPieces
  BY <1>10
<1>12. ASSUME NEW i \in 1 .. m
       PROVE  after[i] = Turned(text, after[i - 1])
  <2>1. i \in 0 .. m /\ i # 0
    OBVIOUS
  <2> QED
    BY <1>10, <2>1 DEF Turned
<1> DEFINE T == {i \in 0 .. m : after[i] # f[i]}
<1>13. T = {}
  <2> SUFFICES ASSUME T # {}
               PROVE  FALSE
    OBVIOUS
  <2>1. PICK i \in T : \A k \in T : i <= k
    <3>1. T \in SUBSET Nat
      OBVIOUS
    <3> HIDE DEF T
    <3> QED
      BY <3>1, LeastNatural
  <2>2. i # 0 /\ i \in 1 .. m
    BY <1>7, <1>11
  <2>3. after[i - 1] = f[i - 1]
    <3> SUFFICES ASSUME after[i - 1] # f[i - 1]
                 PROVE  FALSE
      OBVIOUS
    <3>1. i - 1 \in T /\ ~ i <= i - 1
      BY <2>2
    <3> QED
      BY <2>1, <3>1
  <2>4. after[i] = f[i]
    BY <1>8, <1>12, <2>2, <2>3
  <2> QED
    BY <2>4
<1>14. after[m] = f[m]
  <2>1. m \in 0 .. m
    OBVIOUS
  <2> QED
    BY <1>13, <2>1
<1> QED
  BY <1>1, <1>2, <1>7, <1>8, <1>14

Covers(pieces, m) == \A i \in 1 .. m : \E k \in DOMAIN pieces : i \in pieces[k]

\* One more piece covers the text to its end.
LEMMA CoversMore ==
  ASSUME NEW pieces \in Seq(SUBSET Int), NEW a \in Nat, NEW b \in Int, Covers(pieces, a)
  PROVE  Covers(Append(pieces, a + 1 .. b), b)
<1> DEFINE piece == a + 1 .. b
           more == Append(pieces, piece)
<1>1. piece \in SUBSET Int
  OBVIOUS
<1>2. \A i \in 1 .. b : i \in 1 .. a \/ i \in piece
  OBVIOUS
<1> HIDE DEF piece
<1>3. PICK n \in Nat : n = Len(pieces)
  OBVIOUS
<1>4. DOMAIN pieces = 1 .. n /\ DOMAIN more = 1 .. n + 1
  BY <1>1, <1>3
<1>5. more[n + 1] = piece /\ n + 1 \in DOMAIN more
  BY <1>1, <1>3, <1>4
<1>6. \A k \in DOMAIN pieces : k \in DOMAIN more /\ more[k] = pieces[k]
  BY <1>1, <1>3, <1>4
<1> HIDE DEF more
<1>7. ASSUME NEW i \in 1 .. b
      PROVE  \E k \in DOMAIN more : i \in more[k]
  <2>1. CASE i \in 1 .. a
    <3>1. PICK k \in DOMAIN pieces : i \in pieces[k]
      BY <2>1 DEF Covers
    <3> QED
      BY <1>6, <3>1
  <2>2. CASE i \in piece
    BY <1>5, <2>2
  <2> QED
    BY <1>2, <2>1, <2>2
<1>8. Covers(more, b)
  BY <1>7 DEF Covers
<1> QED
  BY <1>8 DEF more, piece

\* After n turns, the pieces cover the text to where the next starts, n places on at
\* least and with more than the overlap to come, or all of it.
TurnInv(text, s, n) ==
  /\ s.over => Covers(s.pieces, Len(text))
  /\ ~s.over => /\ s.pos \in Nat /\ s.pos >= n /\ Covers(s.pieces, s.pos)
                /\ s.pieces = <<>> => s.pos = 0
                /\ s.pieces # <<>> => s.pos + ChunkOverlap < Len(text)

LEMMA TurnKeeps ==
  ASSUME NEW text, IsList(text), Splittable("sentences", text),
         NEW s \in Turns, NEW n \in Nat, TurnInv(text, s, n)
  PROVE  TurnInv(text, Turned(text, s), n + 1)
<1>1. CASE s.over
  <2>1. Turned(text, s) = s
    BY <1>1 DEF Turned
  <2> QED
    BY <1>1, <2>1 DEF TurnInv
<1>2. CASE ~s.over
  <2>1. PICK pos \in Nat : pos = s.pos
    BY <1>2 DEF TurnInv
  <2>2. PICK pieces \in Seq(SUBSET Int) : pieces = s.pieces
    BY DEF Turns
  <2>3. /\ pos >= n /\ Covers(pieces, pos)
        /\ pieces = <<>> => pos = 0
        /\ pieces # <<>> => pos + ChunkOverlap < Len(text)
    BY <1>2, <2>1, <2>2 DEF TurnInv
  <2> DEFINE cut == SentenceCut(text, pos)
             next == cut - ChunkOverlap
             over == cut >= Len(text) \/ next <= 0 \/ next >= cut
             piece == pos + 1 .. cut
             after == Turned(text, s)
  <2>4. ~ (cut - pos < MinChunk /\ pieces # <<>>) =>
          after = [pos |-> next, over |-> over, pieces |-> Append(pieces, piece)]
    BY <1>2, <2>1, <2>2, TurnFacts
  <2>5. /\ cut \in Int
        /\ pos + ChunkSize >= Len(text) => cut = Len(text)
        /\ ~ pos + ChunkSize >= Len(text) =>
             \A e \in pos + 1 .. pos + ChunkSize - 1 :
               text[e] = "end" => e <= cut /\ cut <= pos + ChunkSize - 1
    <3>1. pos \in Int
      OBVIOUS
    <3> QED
      BY <3>1, SentenceCutFacts
  <2>6. PICK size \in Nat : size = ChunkSize
    BY ChunkAssumption
  <2>7. PICK overlap \in Nat : overlap = ChunkOverlap
    BY ChunkAssumption
  <2>8. PICK least \in Nat : least = MinChunk
    BY ChunkAssumption
  <2>9. 0 < least /\ least <= overlap /\ overlap < size
    BY <2>6, <2>7, <2>8, ChunkAssumption
  <2>10. PICK len \in Nat : len = Len(text)
    BY DEF IsList
  <2> HIDE DEF cut, after
  <2>11. Covers(Append(pieces, piece), cut)
    BY <2>3, <2>5, CoversMore
  <2>12. CASE pos + size >= len
    <3>1. cut = len
      BY <2>5, <2>6, <2>10, <2>12
    <3>2. ~ (cut - pos < MinChunk /\ pieces # <<>>)
      <4>1. pieces # <<>> => pos + overlap < len
        BY <2>3, <2>7, <2>10
      <4>2. pieces # <<>> => ~ len - pos < least
        BY <2>9, <4>1
      <4> QED
        BY <2>8, <3>1, <4>2
    <3>3. over
      BY <2>10, <3>1
    <3> HIDE DEF over, next, piece
    <3>4. after.over /\ after.pieces = Append(pieces, piece)
      BY <2>4, <3>2, <3>3
    <3>5. Covers(after.pieces, Len(text))
      BY <2>10, <2>11, <3>1, <3>4
    <3>6. TurnInv(text, after, n + 1)
      BY <3>4, <3>5 DEF TurnInv
    <3> QED
      BY <3>6 DEF after
  <2>13. CASE ~ pos + size >= len
    <3>1. PICK e \in pos + overlap + 1 .. pos + size - 1 : text[e] = "end"
      <4> DEFINE i == pos + overlap + 1
                 j == pos + size - 1
      <4>1. i \in 1 .. len /\ j \in 1 .. len /\ j - i + 1 >= size - overlap - 1
        BY <2>9, <2>13
      <4>2. DOMAIN text = 1 .. len
        BY <2>10 DEF IsList
      <4>3. \A a \in DOMAIN text, b \in DOMAIN text :
              b - a + 1 >= size - overlap - 1 => \E k \in a .. b : text[k] = "end"
        BY <2>6, <2>7 DEF Splittable
      <4> HIDE DEF i, j
      <4>4. \E k \in i .. j : text[k] = "end"
        BY <4>1, <4>2, <4>3
      <4> QED
        BY <4>4 DEF i, j
    <3>2. e \in pos + 1 .. pos + size - 1
      BY <2>9
    <3>3. e <= cut /\ cut <= pos + size - 1
      BY <2>5, <2>6, <2>10, <2>13, <3>1, <3>2
    <3>4. /\ pos + overlap + 1 <= cut /\ cut < len
      BY <2>5, <2>9, <2>13, <3>3
    <3>5. ~ cut - pos < least
      BY <2>5, <2>9, <3>4
    <3>6. ~ (cut - pos < MinChunk /\ pieces # <<>>)
      BY <2>8, <3>5
    <3>7. next \in Nat /\ next >= n + 1 /\ next + overlap = cut
      BY <2>3, <2>5, <2>7, <3>4
    <3>8. ~ over
      BY <2>5, <2>7, <2>9, <2>10, <3>4, <3>7
    <3>9. Covers(Append(pieces, piece), next)
      <4>1. \A m \in 1 .. next : m \in 1 .. cut
        BY <2>5, <3>7
      <4> HIDE DEF piece, next
      <4> QED
        BY <2>11, <4>1 DEF Covers
    <3>10. Append(pieces, piece) # <<>>
      <4>1. piece \in SUBSET Int
        BY <2>5
      <4> HIDE DEF piece
      <4> QED
        BY <4>1
    <3>11. next + ChunkOverlap < Len(text)
      BY <2>7, <2>10, <3>4, <3>7
    <3> HIDE DEF over, next, piece
    <3>12. after.pos = next /\ ~ after.over /\ after.pieces = Append(pieces, piece)
      BY <2>4, <3>6, <3>8
    <3>13. TurnInv(text, after, n + 1)
      BY <3>7, <3>9, <3>10, <3>11, <3>12 DEF TurnInv
    <3> QED
      BY <3>13 DEF after
  <2> QED
    BY <2>12, <2>13
<1> QED
  BY <1>1, <1>2

\* So that the loop comes to an end, with the text in its pieces.
LEMMA LoopCovers ==
  ASSUME NEW text, IsList(text), Splittable("sentences", text)
  PROVE  LET looped == Repeated(text, LAMBDA s : DocumentTurn(text, s))
         IN looped \in Turns /\ looped.over /\ Covers(looped.pieces, Len(text))
<1> DEFINE looped == Repeated(text, LAMBDA s : DocumentTurn(text, s))
<1>1. PICK m \in Nat : m = Len(text)
  BY DEF IsList
<1>2. PICK f \in [0 .. m + 1 -> Turns] :
        /\ f[0] = NoPieces
        /\ \A i \in 1 .. m + 1 : f[i] = Turned(text, f[i - 1])
        /\ looped = f[m + 1]
  BY <1>1, LoopTurns
<1> HIDE DEF looped
<1> DEFINE T == {i \in 0 .. m + 1 : ~ TurnInv(text, f[i], i)}
<1>3. T = {}
  <2> SUFFICES ASSUME T # {}
               PROVE  FALSE
    OBVIOUS
  <2>1. PICK i \in T : \A k \in T : i <= k
    <3>1. T \in SUBSET Nat
      OBVIOUS
    <3> HIDE DEF T
    <3> QED
      BY <3>1, LeastNatural
  <2>2. i # 0
    <3>1. Covers(<<>>, 0)
      BY DEF Covers
    <3>2. TurnInv(text, NoPieces, 0)
      BY <3>1 DEF TurnInv, NoPieces
    <3> QED
      BY <1>2, <3>2
  <2>3. PICK p \in 0 .. m + 1 : p = i - 1 /\ i = p + 1 /\ p \in Nat
    BY <2>2
  <2>4. TurnInv(text, f[p], p)
    <3> SUFFICES ASSUME ~ TurnInv(text, f[p], p)
                 PROVE  FALSE
      OBVIOUS
    <3>1. p \in T
      OBVIOUS
    <3>2. i <= p
      BY <2>1, <3>1
    <3> QED
      BY <2>3, <3>2
  <2>5. f[p] \in Turns
    OBVIOUS
  <2>6. TurnInv(text, Turned(text, f[p]), p + 1)
    BY <2>3, <2>4, <2>5, TurnKeeps
  <2>7. f[i] = Turned(text, f[p])
    <3>1. i \in 1 .. m + 1
      BY <2>2
    <3> QED
      BY <1>2, <2>3, <3>1
  <2> QED
    BY <2>3, <2>6, <2>7
<1>4. m + 1 \in 0 .. m + 1
  OBVIOUS
<1>5. TurnInv(text, looped, m + 1) /\ looped \in Turns
  BY <1>2, <1>3, <1>4
<1>6. looped.over
  <2> SUFFICES ASSUME ~ looped.over
               PROVE  FALSE
    BY <1>5 DEF Turns
  <2>1. PICK pos \in Nat : pos = looped.pos
    BY <1>5 DEF TurnInv
  <2>2. PICK overlap \in Nat : overlap = ChunkOverlap
    BY ChunkAssumption
  <2>3. pos >= m + 1 /\ (pos = 0 \/ pos + overlap < m)
    BY <1>1, <1>5, <2>1, <2>2 DEF TurnInv
  <2> QED
    BY <2>3
<1>7. Covers(looped.pieces, Len(text))
  BY <1>5, <1>6 DEF TurnInv
<1> QED
  BY <1>5, <1>6, <1>7 DEF looped

LEMMA SentencesFine ==
  ASSUME NEW file, IsList(file.text), Splittable("sentences", file.text)
  PROVE  Fine(HandleSentences(file), {i \in DOMAIN file.text : file.text[i] \notin {"blank"}})
<1> DEFINE text == file.text
           units == {i \in DOMAIN text : text[i] \notin {"blank"}}
           cut == DocumentChunks(text)
<1>1. IsList(text) /\ Splittable("sentences", text)
  OBVIOUS
<1>2. HandleSentences(file) = IF cut.ends THEN Succeeds(cut.chunks) ELSE NeverEnds
  BY DEF HandleSentences, EndsOrNot
<1> HIDE DEF text
<1>3. CASE \A i \in DOMAIN text : text[i] = "blank"
  <2>1. cut = Cut(<<>>)
    BY <1>3 DEF DocumentChunks
  <2>2. units = {}
    BY <1>3
  <2>3. HandleSentences(file) = Succeeds(<<>>)
    BY <1>2, <2>1 DEF Cut
  <2> HIDE DEF units
  <2>4. Fine(HandleSentences(file), units)
    BY <2>2, <2>3, NoneAccount, SucceedsFine
  <2> QED
    BY <2>4 DEF units, text
<1>4. CASE ~ \A i \in DOMAIN text : text[i] = "blank"
  <2> DEFINE looped == Repeated(text, LAMBDA s : DocumentTurn(text, s))
             chunks == [k \in DOMAIN looped.pieces |->
                          NewChunk(<<"", 0 + k - 1>>, 0 + k - 1, "", looped.pieces[k])]
  <2>1. looped \in Turns /\ looped.over /\ Covers(looped.pieces, Len(text))
    BY <1>1, LoopCovers
  <2>2. cut = [ends |-> looped.over, chunks |-> chunks]
    BY <1>4 DEF DocumentChunks, Pieces
  <2> HIDE DEF looped
  <2>3. PICK n \in Nat : n = Len(looped.pieces) /\ DOMAIN looped.pieces = 1 .. n
    BY <2>1 DEF Turns
  <2>4. DOMAIN chunks = 1 .. n
    BY <2>3
  <2>5. ASSUME NEW k \in 1 .. n
        PROVE  /\ chunks[k].id = <<"", k - 1>> /\ chunks[k].index = k - 1
               /\ chunks[k].units = looped.pieces[k]
    <3>1. chunks[k] = NewChunk(<<"", 0 + k - 1>>, 0 + k - 1, "", looped.pieces[k])
      BY <2>3
    <3>2. 0 + k - 1 = k - 1
      OBVIOUS
    <3> DEFINE c == chunks[k]
    <3>3. c = NewChunk(<<"", k - 1>>, k - 1, "", looped.pieces[k])
      BY <3>1, <3>2
    <3> HIDE DEF c
    <3>4. c.id = <<"", k - 1>> /\ c.index = k - 1 /\ c.units = looped.pieces[k]
      BY <3>3 DEF NewChunk
    <3> QED
      BY <3>4 DEF c
  <2> HIDE DEF chunks
  <2>6. Numbered(chunks, n)
    BY <2>5 DEF Numbered
  <2>7. Found(chunks, units)
    <3> SUFFICES ASSUME NEW i \in units
                 PROVE  \E k \in DOMAIN chunks : i \in chunks[k].units
      BY DEF Found
    <3>1. i \in 1 .. Len(text)
      BY <1>1 DEF IsList
    <3>2. PICK k \in DOMAIN looped.pieces : i \in looped.pieces[k]
      BY <2>1, <3>1 DEF Covers
    <3> QED
      BY <2>3, <2>4, <2>5, <3>2
  <2> HIDE DEF units, cut
  <2>8. AccountsFor(chunks, units)
    BY <2>4, <2>6, <2>7, NumberedApart, ApartAccount
  <2>9. HandleSentences(file) = Succeeds(chunks)
    BY <1>2, <2>1, <2>2
  <2>10. Fine(HandleSentences(file), units)
    BY <2>8, <2>9, SucceedsFine
  <2> QED
    BY <2>10 DEF units, text
<1> QED
  BY <1>3, <1>4

\* So what a handler makes of a text accounts for it, unless the handler fails.
LEMMA HandledFine ==
  ASSUME NEW type, NEW file, IsList(file.text), NEW path \in {file.path, ""}, NEW read,
         Splittable(type, file.text),
         type = "code" => IsPython(file.text)
                          \/ \E i \in DOMAIN file.text : file.text[i].kind = "broken"
  PROVE  Fine(HandleAs(type, file, path, read), Matters(type, file))
<1>1. CASE type = "code"
  <2>1. HandleAs(type, file, path, read) = HandleCode(file)
    BY <1>1 DEF HandleAs
  <2>2. Matters(type, file) = (IF OfKinds(file.text, {"broken"}) = {}
                              THEN OfKinds(file.text, {"def", "class", "decorator"})
                              ELSE OfKinds(file.text, {"def", "class"}))
    BY <1>1 DEF Matters, OfKinds
  <2> QED
    BY <1>1, <2>1, <2>2, CodeFine
<1>2. CASE type = "sentences"
  <2>1. HandleAs(type, file, path, read) = HandleSentences(file)
    BY <1>2 DEF HandleAs
  <2>2. Matters(type, file) = {i \in DOMAIN file.text : file.text[i] \notin {"blank"}}
    BY <1>2 DEF Matters
  <2> QED
    BY <1>2, <2>1, <2>2, SentencesFine
<1>3. CASE type \in {"text", "csv", "tsv", "plaintext", "properties"}
  <2>1. HandleAs(type, file, path, read) = HandleText(file)
    BY <1>3 DEF HandleAs
  <2>2. Matters(type, file) = {i \in DOMAIN file.text : file.text[i] \notin {"blank"}}
    BY <1>3 DEF Matters
  <2> QED
    BY <1>3, <2>1, <2>2, TextFine
<1>4. CASE type \in {"rst", "asciidoc", "ini", "html", "xml"}
  <2>1. HandleAs(type, file, path, read) = HandleLenient(type, file)
    BY <1>4 DEF HandleAs
  <2>2. Matters(type, file)
          = {i \in DOMAIN file.text : file.text[i] \notin Markup(type) \cup {"blank"}}
    <3>1. CASE type = "ini"
      BY <3>1 DEF Matters, Markup
    <3>2. CASE type # "ini"
      <4>1. Matters(type, file) = {i \in DOMAIN file.text : file.text[i] \notin Markup(type)}
        BY <1>4, <3>2 DEF Matters
      <4>2. "blank" \in Markup(type)
        BY <1>4, <3>2 DEF Markup
      <4> QED
        BY <4>1, <4>2
    <3> QED
      BY <3>1, <3>2
  <2> DEFINE units == {i \in DOMAIN file.text : file.text[i] \notin Markup(type) \cup {"blank"}}
  <2>3. Fine(HandleLenient(type, file), units)
    BY LenientFine
  <2> HIDE DEF units
  <2>4. Matters(type, file) = units
    BY <2>2 DEF units
  <2> QED
    BY <2>1, <2>3, <2>4
<1>5. CASE type = "document"
  <2>1. HandleAs(type, file, path, read) = HandleDocument(file, path, read)
    BY <1>5 DEF HandleAs
  <2>2. Matters(type, file) = {i \in DOMAIN file.text : file.text[i] \notin {"blank"}}
    BY <1>5 DEF Matters
  <2> DEFINE units == {i \in DOMAIN file.text : file.text[i] \notin {"blank"}}
  <2>3. Fine(HandleDocument(file, path, read), units)
    BY TextFine
  <2> HIDE DEF units
  <2>4. Matters(type, file) = units
    BY <2>2 DEF units
  <2> QED
    BY <2>1, <2>3, <2>4
<1>6. CASE type = "markdown"
  <2>1. HandleAs(type, file, path, read) = HandleMarkdown(file)
    BY <1>6 DEF HandleAs
  <2>2. Matters(type, file) = {i \in DOMAIN file.text : file.text[i] \notin Headings \cup {"blank"}}
    BY <1>6 DEF Matters
  <2> QED
    BY <1>6, <2>1, <2>2, MarkdownFine
<1>7. CASE type = "source_code"
  <2>1. HandleAs(type, file, path, read) = HandleSourceCode(file, path)
    BY <1>7 DEF HandleAs
  <2>2. Matters(type, file) = (IF file.path \in DOMAIN FoundIn
                              THEN OfKinds(file.text, FoundIn[file.path])
                              ELSE DOMAIN file.text)
    BY <1>7 DEF Matters, OfKinds
  <2> QED
    BY <1>7, <2>1, <2>2, SourceCodeFine
<1>8. CASE type \in {"config", "json", "yaml", "toml", "env"}
  <2>1. HandleAs(type, file, path, read) = HandleConfig(file, path)
    BY <1>8 DEF HandleAs
  <2>2. Matters(type, file) = {i \in DOMAIN file.text : file.text[i] \notin {"blank"}}
    BY <1>8 DEF Matters
  <2>3. Matters(type, file) \subseteq DOMAIN file.text
    BY <2>2
  <2> QED
    BY <2>1, <2>3, ConfigFine
<1>9. CASE type \in {"k8s", "helm", "dockerfile", "istio"}
  <2>1. HandleAs(type, file, path, read) = HandleKubernetes(file, path)
    BY <1>9 DEF HandleAs
  <2>2. Matters(type, file)
          = IF IsChart(file.path) THEN {i \in DOMAIN file.text : file.text[i] \in {"chart"}}
            ELSE IF file.path = "dockerfile"
            THEN {i \in DOMAIN file.text : file.text[i] \notin {"blank", "comment", "continued"}}
            ELSE {i \in DOMAIN file.text : file.text[i] \notin {"blank", "---"}}
    BY <1>9 DEF Matters
  <2> QED
    BY <2>1, <2>2, KubernetesFine
<1>10. CASE type = "graphql"
  <2>1. HandleAs(type, file, path, read) = HandleGraphQL(file)
    BY <1>10 DEF HandleAs
  <2>2. Matters(type, file) = {i \in DOMAIN file.text : file.text[i] \in {"type", "operation", "schema"}}
    BY <1>10 DEF Matters
  <2> QED
    BY <1>10, <2>1, <2>2, GraphQLFine
<1>11. CASE type = "grpc_proto"
  <2>1. HandleAs(type, file, path, read) = HandleProto(file)
    BY <1>11 DEF HandleAs
  <2>2. Matters(type, file) = {i \in DOMAIN file.text : file.text[i] \in {"service", "message"}}
    BY <1>11 DEF Matters
  <2> QED
    BY <1>11, <2>1, <2>2, ProtoFine
<1>12. CASE type \in {"diagram", "plantuml", "mermaid", "c4", "drawio"}
  <2>1. HandleAs(type, file, path, read) = HandleDiagram(file)
    BY <1>12 DEF HandleAs
  <2>2. Matters(type, file) = {i \in DOMAIN file.text : file.text[i] \notin {"blank"}}
    BY <1>12 DEF Matters
  <2>3. Matters(type, file) \subseteq DOMAIN file.text
    BY <2>2
  <2> QED
    BY <2>1, <2>3, ConfigFine
<1>13. CASE type = "bpmn"
  <2>1. HandleAs(type, file, path, read) = HandleBPMN(file, path)
    BY <1>13 DEF HandleAs
  <2>2. Matters(type, file) = {}
    BY <1>13 DEF Matters
  <2> QED
    BY <1>13, <2>1, <2>2, AboutFine
<1>14. CASE type = "image"
  <2>1. HandleAs(type, file, path, read) = HandleImage(file)
    BY <1>14 DEF HandleAs
  <2>2. Matters(type, file) = {}
    BY <1>14 DEF Matters
  <2> QED
    BY <1>14, <2>1, <2>2, AboutFine
<1>15. CASE type \in {"sap_mta", "sap_cds", "sap_cap", "sap_xsuaa"}
  <2>1. HandleAs(type, file, path, read) = HandleSAP(file)
    BY <1>15 DEF HandleAs
  <2>2. Matters(type, file) = {}
    BY <1>15 DEF Matters
  <2> QED
    BY <1>15, <2>1, <2>2, AboutFine
<1>16. CASE type \in {"api_spec", "openapi", "swagger", "template"}
  <2>1. HandleAs(type, file, path, read) = Unhandled
    BY <1>16 DEF HandleAs, HandleAPISpec, HandleTemplate
  <2> QED
    BY <2>1, UnhandledFine
<1>17. CASE /\ type \notin {"code", "sentences", "document", "markdown", "source_code"}
             /\ type \notin {"text", "csv", "tsv", "plaintext", "properties"}
             /\ type \notin {"rst", "asciidoc", "ini", "html", "xml"}
             /\ type \notin {"config", "json", "yaml", "toml", "env"}
             /\ type \notin {"k8s", "helm", "dockerfile", "istio"}
             /\ type \notin {"graphql", "grpc_proto", "bpmn", "image"}
             /\ type \notin {"diagram", "plantuml", "mermaid", "c4", "drawio"}
             /\ type \notin {"sap_mta", "sap_cds", "sap_cap", "sap_xsuaa"}
             /\ type \notin {"api_spec", "openapi", "swagger", "template"}
  <2>1. HandleAs(type, file, path, read) = Unhandled
    BY <1>17 DEF HandleAs
  <2> QED
    BY <2>1, UnhandledFine
<1> QED
  BY <1>1, <1>2, <1>3, <1>4, <1>5, <1>6, <1>7, <1>8, <1>9, <1>10, <1>11, <1>12, <1>13,
     <1>14, <1>15, <1>16, <1>17

FileResult(r, file, read) == Fine(ResultOf(r, file, read), Matters(HandledAs(r, file), file))

LEMMA ResultsFine ==
  ASSUME NEW r \in FileRequests, NEW n \in DOMAIN r.files, NEW read,
         Splittable(HandledAs(r, r.files[n]), r.files[n].text)
  PROVE  FileResult(r, r.files[n], read)
<1> DEFINE file == r.files[n]
           type == HandledAs(r, file)
           path == NamedPath(r, file)
<1>1. /\ IsList(file.text)
      /\ type = "code" => IsPython(file.text)
                          \/ \E i \in DOMAIN file.text : file.text[i].kind = "broken"
  BY FilesAssumption
<1>2. path \in {file.path, ""}
  BY DEF NamedPath
<1>3. Splittable(type, file.text)
  OBVIOUS
<1>4. ResultOf(r, file, read) \in {Unhandled, HandleAs(type, file, path, read)}
  BY DEF ResultOf
<1> HIDE DEF type, path, file
<1>5. Fine(HandleAs(type, file, path, read), Matters(type, file))
  BY <1>1, <1>2, <1>3, HandledFine
<1>6. Fine(Unhandled, Matters(type, file))
  BY UnhandledFine
<1>7. Fine(ResultOf(r, file, read), Matters(type, file))
  BY <1>4, <1>5, <1>6
<1> QED
  BY <1>7 DEF FileResult, type, file

\* Every job is the result of a file of the request, and only a file that cannot be split
\* keeps the loop.
FilesInv ==
  /\ request \in FileRequests
  /\ handled \in 0 .. Len(request.files)
  /\ \A id \in DOMAIN jobs :
       \E n \in DOMAIN request.files, read \in BOOLEAN :
         jobs[id] = JobRecord(request.files[n], ResultOf(request, request.files[n], read))
  /\ stuck => /\ handled + 1 \in DOMAIN request.files
              /\ ResultOf(request, NextFile, TRUE).outcome = "stuck"

THEOREM FilesInvariant == FilesInit /\ [][FilesNext]_fileVars => []FilesInv
<1>1. FilesInit => FilesInv
  <2> SUFFICES ASSUME FilesInit
               PROVE  FilesInv
    OBVIOUS
  <2>1. request \in FileRequests /\ NothingHandled
    BY DEF FilesInit
  <2>2. IsList(request.files)
    BY <2>1, FilesAssumption
  <2>3. handled \in 0 .. Len(request.files)
    BY <2>1, <2>2 DEF NothingHandled, IsList
  <2>4. DOMAIN jobs = {} /\ stuck = FALSE
    BY <2>1 DEF NothingHandled
  <2> QED
    BY <2>1, <2>3, <2>4 DEF FilesInv
<1>2. FilesInv /\ [FilesNext]_fileVars => FilesInv'
  <2> SUFFICES ASSUME FilesInv, [FilesNext]_fileVars
               PROVE  FilesInv'
    OBVIOUS
  <2>1. /\ request \in FileRequests /\ IsList(request.files)
        /\ handled \in 0 .. Len(request.files)
    BY FilesAssumption DEF FilesInv
  <2>2. PICK m \in Nat : m = Len(request.files) /\ DOMAIN request.files = 1 .. m
    BY <2>1 DEF IsList
  <2>3. FilesLeft => /\ handled + 1 \in DOMAIN request.files /\ ~stuck
                     /\ handled + 1 \in 0 .. Len(request.files)
    BY <2>1, <2>2 DEF FilesLeft
  <2>4. CASE HandleFile
    <3>1. FilesLeft /\ handled' = handled + 1 /\ UNCHANGED <<request, stuck>>
      BY <2>4 DEF HandleFile
    <3>2. PICK read \in BOOLEAN :
            StoreJob(NextFile, JobId(request.entry, NextFile), ResultOf(request, NextFile, read))
      BY <2>4 DEF HandleFile
    <3> DEFINE stored == JobId(request.entry, NextFile)
               record == JobRecord(NextFile, ResultOf(request, NextFile, read))
    <3>3. jobs' = [i \in DOMAIN jobs \cup {stored} |-> IF i = stored THEN record ELSE jobs[i]]
      BY <3>2 DEF StoreJob
    <3>4. record = JobRecord(request.files[handled + 1],
                             ResultOf(request, request.files[handled + 1], read))
      BY DEF NextFile
    <3> HIDE DEF stored, record
    <3>5. ASSUME NEW id \in DOMAIN jobs'
          PROVE  \E n \in DOMAIN request.files, known \in BOOLEAN :
                   jobs'[id] = JobRecord(request.files[n],
                                         ResultOf(request, request.files[n], known))
      <4>1. CASE id = stored
        <5>1. jobs'[id] = record
          BY <3>3, <4>1
        <5> QED
          BY <2>3, <3>1, <3>4, <5>1
      <4>2. CASE id # stored
        <5>1. id \in DOMAIN jobs /\ jobs'[id] = jobs[id]
          BY <3>3, <4>2
        <5> QED
          BY <5>1 DEF FilesInv
      <4> QED
        BY <4>1, <4>2
    <3>6. ~stuck'
      BY <2>3, <3>1
    <3> QED
      BY <2>1, <2>3, <3>1, <3>5, <3>6 DEF FilesInv
  <2>5. CASE MissFile
    <3>1. FilesLeft /\ handled' = handled + 1 /\ UNCHANGED <<request, jobs, stuck>>
      BY <2>5 DEF MissFile
    <3> QED
      BY <2>1, <2>3, <3>1 DEF FilesInv
  <2>6. CASE BreakArchive
    <3>1. FilesLeft /\ handled' = Len(request.files) /\ UNCHANGED <<request, jobs, stuck>>
      BY <2>6 DEF BreakArchive
    <3>2. handled' \in 0 .. Len(request.files)
      BY <2>2, <3>1
    <3> QED
      BY <2>1, <2>3, <3>1, <3>2 DEF FilesInv
  <2>7. CASE KeepTheLoop
    <3>1. FilesLeft /\ ResultOf(request, NextFile, TRUE).outcome = "stuck"
      BY <2>7 DEF KeepTheLoop
    <3>2. UNCHANGED <<request, handled, jobs>>
      BY <2>7 DEF KeepTheLoop
    <3>3. NextFile' = NextFile
      BY <3>2 DEF NextFile
    <3> QED
      BY <2>3, <3>1, <3>2, <3>3 DEF FilesInv
  <2>8. CASE UNCHANGED fileVars
    <3>1. UNCHANGED <<request, handled, jobs, stuck>>
      BY <2>8 DEF fileVars
    <3>2. NextFile' = NextFile
      BY <3>1 DEF NextFile
    <3> QED
      BY <3>1, <3>2 DEF FilesInv
  <2> QED
    BY <2>4, <2>5, <2>6, <2>7, <2>8 DEF FilesNext
<1> QED
  BY <1>1, <1>2, PTL

LEMMA InvAccounts == FilesInv => ChunksAccountForText
<1> SUFFICES ASSUME FilesInv
             PROVE  ChunksAccountForText
  OBVIOUS
<1>1. request \in FileRequests
  BY DEF FilesInv
<1>2. ASSUME NEW id \in DOMAIN jobs, jobs[id].status = "COMPLETED",
             Splittable(HandledAs(request, jobs[id].file), jobs[id].file.text)
      PROVE  AccountsFor(jobs[id].chunks, Matters(HandledAs(request, jobs[id].file), jobs[id].file))
  <2>1. PICK n \in DOMAIN request.files, read \in BOOLEAN :
          jobs[id] = JobRecord(request.files[n], ResultOf(request, request.files[n], read))
    BY DEF FilesInv
  <2> DEFINE file == request.files[n]
             result == ResultOf(request, file, read)
             job == jobs[id]
  <2>2. job = JobRecord(file, result) /\ job.status = "COMPLETED"
    BY <1>2, <2>1
  <2>3. Splittable(HandledAs(request, job.file), job.file.text)
    BY <1>2
  <2>4. file = request.files[n]
    OBVIOUS
  <2>5. result = ResultOf(request, file, read)
    OBVIOUS
  <2> HIDE DEF file, result, job
  <2>6. job.file = file /\ job.chunks = result.chunks /\ result.outcome = "fine"
    BY <2>2 DEF JobRecord
  <2>7. FileResult(request, file, read)
    BY <1>1, <2>3, <2>4, <2>6, ResultsFine
  <2>8. AccountsFor(job.chunks, Matters(HandledAs(request, job.file), job.file))
    BY <2>5, <2>6, <2>7 DEF FileResult, Fine
  <2> QED
    BY <2>8 DEF job
<1>3. stuck => ~Splittable(HandledAs(request, NextFile), NextFile.text)
  <2> SUFFICES ASSUME stuck, Splittable(HandledAs(request, NextFile), NextFile.text)
               PROVE  FALSE
    OBVIOUS
  <2>1. handled + 1 \in DOMAIN request.files /\ ResultOf(request, NextFile, TRUE).outcome = "stuck"
    BY DEF FilesInv
  <2>2. NextFile = request.files[handled + 1]
    BY DEF NextFile
  <2>3. FileResult(request, NextFile, TRUE)
    BY <1>1, <2>1, <2>2, ResultsFine
  <2> QED
    BY <2>1, <2>3 DEF FileResult, Fine
<1> QED
  BY <1>2, <1>3 DEF ChunksAccountForText

\* The chunks of a completed job have ids and places of their own and leave out nothing
\* that is to be found in its text, for every text; and a chunker goes on for ever only on
\* sentences or sections it cannot split: unified_ingestion/handlers, ingestion/*chunker.py.
THEOREM ChunksAccountForTextHolds ==
  FilesInit /\ [][FilesNext]_fileVars => []ChunksAccountForText
<1> QED
  BY FilesInvariant, InvAccounts, PTL

-----------------------------------------------------------------------------
(***************************************************************************)
(* Ranking                                                                 *)
(*                                                                         *)
(* A search keeps one list of hits for each source, so that a key that its *)
(* source lists once has the share of that one rank for its score, and     *)
(* that one place for its first: the earlier rank comes first, for its     *)
(* score or, where both divide alike, for its place.  What is left to show *)
(* is that counting who is ahead puts the keys in a sequence.              *)
(***************************************************************************)

\* Keys have scores, and places of their own.
AreStandings(standings) ==
  /\ IsFiniteSet(DOMAIN standings)
  /\ \A key \in DOMAIN standings :
       standings[key].score \in Int /\ standings[key].first \in Nat \X Nat
  /\ \A a, b \in DOMAIN standings : standings[a].first = standings[b].first => a = b

LEMMA RanksAreInOrder ==
  ASSUME NEW standings, AreStandings(standings)
  PROVE  LET Better(a, b) == Outranks(standings[a], standings[b])
         IN /\ \A a \in DOMAIN standings : ~Better(a, a)
            /\ \A a, b \in DOMAIN standings : a # b => Better(a, b) \/ Better(b, a)
            /\ \A a, b, c \in DOMAIN standings : Better(a, b) /\ Better(b, c) => Better(a, c)
<1> DEFINE S == DOMAIN standings
           score == [a \in S |-> standings[a].score]
           one == [a \in S |-> standings[a].first[1]]
           two == [a \in S |-> standings[a].first[2]]
           Better(a, b) == Outranks(standings[a], standings[b])
<1>1. score \in [S -> Int] /\ one \in [S -> Nat] /\ two \in [S -> Nat]
  BY DEF AreStandings
<1>2. ASSUME NEW a \in S, NEW b \in S
      PROVE  /\ Better(a, b) <=>
                  score[a] > score[b] \/ (score[a] = score[b]
                    /\ (one[a] < one[b] \/ (one[a] = one[b] /\ two[a] < two[b])))
             /\ one[a] = one[b] /\ two[a] = two[b] => a = b
  <2>1. Better(a, b) <=>
          score[a] > score[b] \/ (score[a] = score[b]
            /\ (one[a] < one[b] \/ (one[a] = one[b] /\ two[a] < two[b])))
    BY DEF Outranks, Sooner
  <2>2. ASSUME one[a] = one[b], two[a] = two[b]
        PROVE  a = b
    <3>1. standings[a].first = <<one[a], two[a]>> /\ standings[b].first = <<one[b], two[b]>>
      BY DEF AreStandings
    <3>2. standings[a].first = standings[b].first
      BY <2>2, <3>1
    <3> QED
      BY <3>2 DEF AreStandings
  <2> QED
    BY <2>1, <2>2
<1> HIDE DEF score, one, two, Better
<1>3. \A a \in S : ~Better(a, a)
  <2> SUFFICES ASSUME NEW a \in S
               PROVE  ~Better(a, a)
    OBVIOUS
  <2>1. score[a] \in Int /\ one[a] \in Nat /\ two[a] \in Nat
    BY <1>1
  <2> QED
    BY <1>2, <2>1
<1>4. \A a, b \in S : a # b => Better(a, b) \/ Better(b, a)
  <2> SUFFICES ASSUME NEW a \in S, NEW b \in S, a # b
               PROVE  Better(a, b) \/ Better(b, a)
    OBVIOUS
  <2>1. /\ score[a] \in Int /\ one[a] \in Nat /\ two[a] \in Nat
        /\ score[b] \in Int /\ one[b] \in Nat /\ two[b] \in Nat
    BY <1>1
  <2> QED
    BY <1>2, <2>1
<1>5. \A a, b, c \in S : Better(a, b) /\ Better(b, c) => Better(a, c)
  <2> SUFFICES ASSUME NEW a \in S, NEW b \in S, NEW c \in S, Better(a, b), Better(b, c)
               PROVE  Better(a, c)
    OBVIOUS
  <2>1. /\ score[a] \in Int /\ one[a] \in Nat /\ two[a] \in Nat
        /\ score[b] \in Int /\ one[b] \in Nat /\ two[b] \in Nat
        /\ score[c] \in Int /\ one[c] \in Nat /\ two[c] \in Nat
    BY <1>1
  <2> QED
    BY <1>2, <2>1
<1> QED
  BY <1>3, <1>4, <1>5 DEF Better

\* Counting what is ahead of them tells the keys apart.
LEMMA AheadGrows ==
  ASSUME NEW standings, AreStandings(standings), NEW a \in DOMAIN standings
  PROVE  /\ Ahead(standings, a) \in 0 .. Cardinality(DOMAIN standings) - 1
         /\ \A b \in DOMAIN standings :
              Outranks(standings[a], standings[b]) => Ahead(standings, a) < Ahead(standings, b)
<1> DEFINE S == DOMAIN standings
           Better(x, y) == Outranks(standings[x], standings[y])
           Over(x) == {k \in S : Better(k, x)}
<1>1. /\ IsFiniteSet(S) /\ a \in S
      /\ \A x \in S : ~Better(x, x)
      /\ \A x, y, z \in S : Better(x, y) /\ Better(y, z) => Better(x, z)
  BY RanksAreInOrder DEF AreStandings
<1>2. \A x : Ahead(standings, x) = Cardinality(Over(x))
  BY DEF Ahead
<1> HIDE DEF Better, S
<1>3. ASSUME NEW T \in SUBSET S
      PROVE  IsFiniteSet(T) /\ Cardinality(T) \in Nat /\ Cardinality(T) <= Cardinality(S)
  BY <1>1, FS_Subset, FS_CardinalityType
<1>4. /\ Cardinality(Over(a)) \in Nat
      /\ Cardinality(Over(a) \cup {a}) = Cardinality(Over(a)) + 1
  <2>1. Over(a) \in SUBSET S /\ a \notin Over(a)
    BY <1>1
  <2> HIDE DEF Over
  <2> QED
    BY <2>1, <1>3, FS_AddElement
<1>5. Cardinality(Over(a)) + 1 <= Cardinality(S) /\ Cardinality(S) \in Nat
  <2>1. Over(a) \cup {a} \in SUBSET S
    BY <1>1
  <2> HIDE DEF Over
  <2> QED
    BY <2>1, <1>1, <1>3, <1>4, FS_CardinalityType
<1>6. ASSUME NEW b \in S, Better(a, b)
      PROVE  Cardinality(Over(a)) < Cardinality(Over(b))
  <2>1. Over(a) \cup {a} \in SUBSET Over(b) /\ Over(b) \in SUBSET S
    BY <1>1, <1>6
  <2> HIDE DEF Over
  <2>2. IsFiniteSet(Over(b)) /\ Cardinality(Over(b)) \in Nat
    BY <2>1, <1>3
  <2>3. Cardinality(Over(a) \cup {a}) <= Cardinality(Over(b))
    BY <2>1, <2>2, FS_Subset
  <2> QED
    BY <1>4, <2>2, <2>3
<1> HIDE DEF Over
<1> QED
  BY <1>2, <1>4, <1>5, <1>6 DEF S, Better

\* InRank has the keys, all of them, each once and the better ones first.
LEMMA InRankFacts ==
  ASSUME NEW standings, AreStandings(standings)
  PROVE  LET ranking == InRank(standings)
             n == Cardinality(DOMAIN standings)
         IN /\ n \in Nat /\ DOMAIN ranking = 1 .. n
            /\ \A k \in 1 .. n : ranking[k] \in DOMAIN standings
            /\ \A a \in DOMAIN standings : \E k \in 1 .. n : ranking[k] = a
            /\ \A j, k \in 1 .. n : ranking[j] = ranking[k] => j = k
            /\ \A j, k \in 1 .. n :
                 Outranks(standings[ranking[j]], standings[ranking[k]]) => j < k
<1> DEFINE S == DOMAIN standings
           n == Cardinality(S)
           ranking == InRank(standings)
           Better(x, y) == Outranks(standings[x], standings[y])
           place == [a \in S |-> Ahead(standings, a) + 1]
<1>1. n \in Nat /\ IsFiniteSet(1 .. n) /\ Cardinality(1 .. n) = n
  BY FS_CardinalityType, FS_Interval DEF AreStandings
<1>2. \A a \in S : Ahead(standings, a) \in 0 .. n - 1
  BY AheadGrows
<1>3. \A a, b \in S : Better(a, b) => Ahead(standings, a) < Ahead(standings, b)
  BY AheadGrows
<1>4. \A a, b \in S : a # b => Better(a, b) \/ Better(b, a)
  BY RanksAreInOrder
<1> HIDE DEF Better
<1>5. \A a, b \in S : Ahead(standings, a) = Ahead(standings, b) => a = b
  <2> SUFFICES ASSUME NEW a \in S, NEW b \in S, Ahead(standings, a) = Ahead(standings, b), a # b
               PROVE  FALSE
    OBVIOUS
  <2>1. Ahead(standings, a) \in Int /\ Ahead(standings, b) \in Int
    BY <1>2
  <2> QED
    BY <1>3, <1>4, <2>1
<1>6. \A k \in 1 .. n : ranking[k] = CHOOSE a \in S : Ahead(standings, a) = k - 1
  BY DEF InRank
<1>7. DOMAIN ranking = 1 .. n
  BY DEF InRank
<1> HIDE DEF n, S, ranking
<1>8. place \in Injection(S, 1 .. n)
  <2>1. place \in [S -> 1 .. n]
    BY <1>1, <1>2
  <2>2. \A a, b \in S : place[a] = place[b] => a = b
    <3> SUFFICES ASSUME NEW a \in S, NEW b \in S, place[a] = place[b]
                 PROVE  a = b
      OBVIOUS
    <3>1. Ahead(standings, a) \in Int /\ Ahead(standings, b) \in Int
      BY <1>2
    <3> QED
      BY <3>1, <1>5
  <2> HIDE DEF place
  <2> QED
    BY <2>1, <2>2 DEF Injection, IsInjective
<1>9. place \in Surjection(S, 1 .. n)
  BY <1>1, <1>8, FS_Injection DEF n
<1>10. ASSUME NEW k \in 1 .. n
       PROVE  ranking[k] \in S /\ Ahead(standings, ranking[k]) = k - 1
  <2>1. PICK a \in S : place[a] = k
    <3> HIDE DEF place
    <3> QED
      BY <1>9 DEF Surjection
  <2>2. Ahead(standings, a) = k - 1
    BY <1>2, <2>1
  <2> QED
    BY <1>6, <2>2
<1>11. ASSUME NEW a \in S
       PROVE  \E k \in 1 .. n : ranking[k] = a
  <2>1. PICK k \in 1 .. n : Ahead(standings, a) = k - 1
    <3>1. Ahead(standings, a) + 1 \in 1 .. n /\ Ahead(standings, a) = (Ahead(standings, a) + 1) - 1
      BY <1>1, <1>2
    <3> QED
      BY <3>1
  <2> QED
    BY <1>5, <1>10, <2>1
<1>12. ASSUME NEW j \in 1 .. n, NEW k \in 1 .. n, ranking[j] = ranking[k]
       PROVE  j = k
  <2>1. j - 1 = k - 1
    BY <1>10, <1>12
  <2> QED
    BY <2>1
<1>13. ASSUME NEW j \in 1 .. n, NEW k \in 1 .. n, Better(ranking[j], ranking[k])
       PROVE  j < k
  <2>1. j - 1 < k - 1
    BY <1>3, <1>10, <1>13
  <2> QED
    BY <2>1
<1> QED
  BY <1>1, <1>7, <1>10, <1>11, <1>12, <1>13 DEF n, S, ranking, Better

\* A sum, as a function of how many terms have been added.
LEMMA SumIsAdded ==
  ASSUME NEW m \in Nat, NEW terms \in [1 .. m -> Nat], Len(terms) = m
  PROVE  \E f \in [0 .. m -> Nat] : /\ f[0] = 0 /\ SumOf(terms) = f[m]
                                    /\ \A i \in 1 .. m : f[i] = f[i - 1] + terms[i]
<1> DEFINE sum == CHOOSE f : f = [n \in 0 .. Len(terms) |-> IF n = 0 THEN 0 ELSE f[n - 1] + terms[n]]
           step == [p \in (1 .. m) \X Nat |-> p[2] + terms[p[1]]]
<1>1. SumOf(terms) = sum[m]
  BY DEF SumOf
<1>2. step \in [(1 .. m) \X Nat -> Nat]
  OBVIOUS
<1>3. \A i \in 1 .. m, s \in Nat : step[<<i, s>>] = s + terms[i]
  OBVIOUS
<1> HIDE DEF step
<1>4. PICK f \in [0 .. m -> Nat] : BuildsFromZero(f, m, 0, step)
  BY <1>2, IterationFromZero
<1>5. f[0] = 0
  BY <1>4 DEF BuildsFromZero
<1>6. ASSUME NEW i \in 1 .. m
      PROVE  f[i] = f[i - 1] + terms[i]
  <2>1. i - 1 \in 0 .. m
    OBVIOUS
  <2>2. f[i - 1] \in Nat
    BY <2>1
  <2>3. f[i] = step[<<i, f[i - 1]>>]
    BY <1>4 DEF BuildsFromZero
  <2> QED
    BY <1>3, <2>2, <2>3
<1>7. f = [n \in 0 .. m |-> IF n = 0 THEN 0 ELSE f[n - 1] + terms[n]]
  <2>1. ASSUME NEW n \in 0 .. m
        PROVE  f[n] = IF n = 0 THEN 0 ELSE f[n - 1] + terms[n]
    <3>1. n = 0 \/ n \in 1 .. m
      OBVIOUS
    <3> QED
      BY <1>5, <1>6, <3>1
  <2> QED
    BY <2>1
<1>8. sum = [n \in 0 .. m |-> IF n = 0 THEN 0 ELSE sum[n - 1] + terms[n]]
  BY <1>7
<1> HIDE DEF sum
<1>9. sum[0] = 0
  BY <1>8
<1>10. ASSUME NEW i \in 1 .. m
       PROVE  sum[i] = sum[i - 1] + terms[i]
  <2>1. i \in 0 .. m /\ i # 0
    OBVIOUS
  <2> QED
    BY <1>8, <2>1
<1> DEFINE T == {i \in 0 .. m : sum[i] # f[i]}
<1>11. T = {}
  <2> SUFFICES ASSUME T # {}
               PROVE  FALSE
    OBVIOUS
  <2>1. PICK i \in T : \A k \in T : i <= k
    <3>1. T \in SUBSET Nat
      OBVIOUS
    <3> HIDE DEF T
    <3> QED
      BY <3>1, LeastNatural
  <2>2. i # 0 /\ i \in 1 .. m
    BY <1>5, <1>9
  <2>3. sum[i - 1] = f[i - 1]
    <3> SUFFICES ASSUME sum[i - 1] # f[i - 1]
                 PROVE  FALSE
      OBVIOUS
    <3>1. i - 1 \in T /\ ~ i <= i - 1
      BY <2>2
    <3> QED
      BY <2>1, <3>1
  <2>4. sum[i] = f[i]
    BY <1>6, <1>10, <2>2, <2>3
  <2> QED
    BY <2>4
<1>12. sum[m] = f[m]
  <2>1. m \in 0 .. m
    OBVIOUS
  <2> QED
    BY <1>11, <2>1
<1> QED
  BY <1>1, <1>5, <1>6, <1>12

\* A sum of naturals is a natural, and of one term but for noughts is that term.
LEMMA SumFacts ==
  ASSUME NEW m \in Nat, NEW terms \in [1 .. m -> Nat], Len(terms) = m
  PROVE  /\ SumOf(terms) \in Nat
         /\ (\A n \in 1 .. m : terms[n] = 0) => SumOf(terms) = 0
         /\ \A j \in 1 .. m :
              (\A n \in 1 .. m : n # j => terms[n] = 0) => SumOf(terms) = terms[j]
<1>1. PICK f \in [0 .. m -> Nat] : /\ f[0] = 0 /\ SumOf(terms) = f[m]
                                   /\ \A i \in 1 .. m : f[i] = f[i - 1] + terms[i]
  BY SumIsAdded
<1>2. m \in 0 .. m
  OBVIOUS
<1>3. ASSUME NEW j \in 1 .. m + 1, NEW t \in Nat, t = IF j = m + 1 THEN 0 ELSE terms[j],
             \A n \in 1 .. m : n # j => terms[n] = 0
      PROVE  f[m] = t
  <2> DEFINE T == {i \in 0 .. m : f[i] # IF i < j THEN 0 ELSE t}
  <2>1. T = {}
    <3> SUFFICES ASSUME T # {}
                 PROVE  FALSE
      OBVIOUS
    <3>1. PICK i \in T : \A k \in T : i <= k
      <4>1. T \in SUBSET Nat
        OBVIOUS
      <4> HIDE DEF T
      <4> QED
        BY <4>1, LeastNatural
    <3>2. i # 0 /\ i \in 1 .. m
      BY <1>1
    <3>3. PICK p \in 0 .. m : p = i - 1
      BY <3>2
    <3>4. f[p] = IF p < j THEN 0 ELSE t
      <4> SUFFICES ASSUME ~ f[p] = IF p < j THEN 0 ELSE t
                   PROVE  FALSE
        OBVIOUS
      <4>1. p \in T /\ ~ i <= p
        BY <3>2, <3>3
      <4> QED
        BY <3>1, <4>1
    <3>5. f[i] = f[p] + terms[i] /\ terms[i] \in Nat
      BY <1>1, <3>2, <3>3
    <3>6. f[i] = IF i < j THEN 0 ELSE t
      <4>1. CASE i = j
        <5>1. terms[i] = t /\ p < j
          BY <1>3, <3>2, <3>3, <4>1
        <5> QED
          BY <3>4, <3>5, <4>1, <5>1
      <4>2. CASE i # j
        <5>1. terms[i] = 0 /\ (p < j <=> i < j)
          BY <1>3, <3>2, <3>3, <4>2
        <5> QED
          BY <3>4, <3>5, <5>1
      <4> QED
        BY <4>1, <4>2
    <3> QED
      BY <3>6
  <2>2. f[m] = IF m < j THEN 0 ELSE t
    BY <1>2, <2>1
  <2>3. m < j => t = 0
    BY <1>3
  <2> QED
    BY <2>2, <2>3
<1>4. f[m] \in Nat
  BY <1>2
<1>5. (\A n \in 1 .. m : terms[n] = 0) => f[m] = 0
  <2>1. m + 1 \in 1 .. m + 1
    OBVIOUS
  <2> QED
    BY <1>3, <2>1
<1>6. ASSUME NEW j \in 1 .. m, \A n \in 1 .. m : n # j => terms[n] = 0
      PROVE  f[m] = terms[j]
  <2>1. j \in 1 .. m + 1 /\ j # m + 1 /\ terms[j] \in Nat
    OBVIOUS
  <2> QED
    BY <1>3, <1>6, <2>1
<1> QED
  BY <1>1, <1>4, <1>5, <1>6

LEMMA TimesGrows ==
  ASSUME NEW a \in Nat, NEW b \in Nat, NEW c \in Nat, a <= b
  PROVE  /\ a * c <= b * c /\ c * a <= c * b
         /\ a * c \in Nat /\ c * a \in Nat
OBVIOUS

\* A lower rank is not worth less.
LEMMA ShareFacts ==
  ASSUME NEW source, NEW r \in Nat
  PROVE  /\ Share(source, r) \in Nat
         /\ \A s \in Nat : r < s => Share(source, r) >= Share(source, s)
<1>1. PICK w \in Nat : w = Weight(source)
  BY DEF Weight
<1>2. PICK z \in Nat : z = Scale
  BY HybridAssumption
<1>3. \A n \in Nat : Share(source, n) = w * (z \div (60 + n)) /\ z \div (60 + n) \in Nat
  <2>1. \A n \in Nat : z \div (60 + n) \in Nat
    OBVIOUS
  <2> QED
    BY <1>1, <1>2, <2>1 DEF Share
<1>4. Share(source, r) \in Nat
  BY <1>3
<1>5. ASSUME NEW s \in Nat, r < s
      PROVE  z \div (60 + s) <= z \div (60 + r)
  <2>1. PICK a \in Nat \ {0}, b \in Nat \ {0} : a = 60 + r /\ b = 60 + s /\ a <= b
    BY <1>5
  <2>2. PICK p \in Nat, q \in Nat : p = z \div a /\ q = z \div b
    OBVIOUS
  <2>3. z = a * p + (z % a) /\ z % a < a /\ z = b * q + (z % b) /\ z % b \in Nat /\ z % a \in Nat
    BY <2>2
  <2>4. q <= p
    <3> SUFFICES ASSUME p + 1 <= q
                 PROVE  FALSE
      OBVIOUS
    <3>1. a * (p + 1) = a * p + a
      OBVIOUS
    <3>2. a * (p + 1) <= a * q /\ a * q <= b * q
      BY <2>1, TimesGrows
    <3>3. PICK u \in Nat, v \in Nat, t \in Nat : u = a * p /\ v = a * q /\ t = b * q
      OBVIOUS
    <3>4. u + a <= v /\ v <= t
      BY <3>1, <3>2, <3>3
    <3>5. z < u + a /\ t <= z
      <4>1. PICK x \in Nat, y \in Nat : x = z % a /\ y = z % b
        BY <2>3
      <4> QED
        BY <2>3, <3>3, <4>1
    <3> QED
      BY <3>4, <3>5
  <2> QED
    BY <2>1, <2>2, <2>4
<1>6. ASSUME NEW s \in Nat, r < s
      PROVE  Share(source, r) >= Share(source, s)
  <2>1. PICK p \in Nat, q \in Nat : p = z \div (60 + r) /\ q = z \div (60 + s) /\ q <= p
    BY <1>3, <1>5, <1>6
  <2>2. w * q <= w * p /\ w * q \in Nat /\ w * p \in Nat
    BY <2>1, TimesGrows
  <2> QED
    BY <1>3, <2>1, <2>2
<1> QED
  BY <1>4, <1>6

\* What a search has found: lists of hits, each of a source of its own.
Tidy(found) ==
  /\ IsSequence(found)
  /\ \A i \in DOMAIN found : IsSequence(found[i].hits)
  /\ \A i, j \in DOMAIN found : found[i].source = found[j].source => i = j

LEMMA TidyFacts ==
  ASSUME NEW found, Tidy(found)
  PROVE  /\ Len(found) \in Nat /\ DOMAIN found = 1 .. Len(found)
         /\ \A i \in DOMAIN found : /\ Len(found[i].hits) \in Nat
                                    /\ DOMAIN found[i].hits = 1 .. Len(found[i].hits)
<1>1. \A s : IsSequence(s) => Len(s) \in Nat /\ DOMAIN s = 1 .. Len(s)
  BY DEF IsSequence
<1> QED
  BY <1>1 DEF Tidy

LEMMA PlacesInFacts ==
  ASSUME NEW found, Tidy(found)
  PROVE  /\ PlacesIn(found) \subseteq Nat \X Nat
         /\ IsFiniteSet(PlacesIn(found))
         /\ \A i \in DOMAIN found : \A r \in DOMAIN found[i].hits : <<i, r>> \in PlacesIn(found)
         /\ \A l \in PlacesIn(found) : /\ l = <<l[1], l[2]>>
                                       /\ l[1] \in DOMAIN found /\ l[2] \in DOMAIN found[l[1]].hits
<1> DEFINE row == [i \in DOMAIN found |-> {i} \X DOMAIN found[i].hits]
           rows == {row[i] : i \in DOMAIN found}
<1>1. PlacesIn(found) = UNION rows
  BY DEF PlacesIn
<1>2. /\ Len(found) \in Nat /\ DOMAIN found = 1 .. Len(found)
      /\ \A i \in DOMAIN found : /\ Len(found[i].hits) \in Nat
                                 /\ DOMAIN found[i].hits = 1 .. Len(found[i].hits)
  BY TidyFacts
<1>3. \A i \in DOMAIN found : IsFiniteSet(row[i])
  <2> SUFFICES ASSUME NEW i \in DOMAIN found
               PROVE  IsFiniteSet(row[i])
    OBVIOUS
  <2>1. PICK m \in Nat : DOMAIN found[i].hits = 1 .. m
    BY <1>2
  <2>2. IsFiniteSet({i})
    BY FS_Singleton
  <2>3. IsFiniteSet(1 .. m)
    BY FS_Interval
  <2>4. IsFiniteSet({i} \X DOMAIN found[i].hits)
    BY <2>1, <2>2, <2>3, FS_Product
  <2> QED
    BY <2>4
<1>4. IsFiniteSet(rows)
  <2>1. IsFiniteSet(DOMAIN found)
    BY <1>2, FS_Interval
  <2>2. row \in Surjection(DOMAIN found, rows)
    <3>1. row \in [DOMAIN found -> rows]
      OBVIOUS
    <3> HIDE DEF row
    <3> QED
      BY <3>1 DEF Surjection
  <2> HIDE DEF row, rows
  <2> QED
    BY <2>1, <2>2, FS_Surjection
<1>5. IsFiniteSet(UNION rows)
  <2>1. \A T \in rows : IsFiniteSet(T)
    BY <1>3
  <2> HIDE DEF rows
  <2> QED
    BY <1>4, <2>1, FS_UNION
<1>6. \A i \in DOMAIN found : i \in Nat /\ \A r \in DOMAIN found[i].hits : r \in Nat
  BY <1>2
<1>7. \A i \in DOMAIN found : \A r \in DOMAIN found[i].hits : <<i, r>> \in UNION rows
  OBVIOUS
<1>8. ASSUME NEW l \in UNION rows
      PROVE  l = <<l[1], l[2]>> /\ l[1] \in DOMAIN found /\ l[2] \in DOMAIN found[l[1]].hits
  <2>1. PICK i \in DOMAIN found : l \in {i} \X DOMAIN found[i].hits
    OBVIOUS
  <2> QED
    BY <2>1
<1>9. UNION rows \subseteq Nat \X Nat
  <2> SUFFICES ASSUME NEW l \in UNION rows
               PROVE  l \in Nat \X Nat
    OBVIOUS
  <2>1. l = <<l[1], l[2]>> /\ l[1] \in Nat /\ l[2] \in Nat
    BY <1>6, <1>8
  <2> QED
    BY <2>1
<1> HIDE DEF rows
<1> QED
  BY <1>1, <1>5, <1>7, <1>8, <1>9

LEMMA FusedKeysFacts ==
  ASSUME NEW found, Tidy(found)
  PROVE  /\ IsFiniteSet(FusedKeys(found))
         /\ \A i \in DOMAIN found : \A r \in DOMAIN found[i].hits :
              KeyOf(found[i].source, found[i].hits[r]) \in FusedKeys(found)
<1> DEFINE P == PlacesIn(found)
           S == FusedKeys(found)
           key == [l \in P |-> KeyAt(found, l)]
<1>1. IsFiniteSet(P)
  BY PlacesInFacts
<1>2. S = {key[l] : l \in P}
  BY DEF FusedKeys
<1>3. IsFiniteSet(S)
  <2>1. key \in [P -> S]
    BY <1>2
  <2> HIDE DEF key, P, S
  <2>2. key \in Surjection(P, S)
    BY <1>2, <2>1 DEF Surjection
  <2> QED
    BY <1>1, <2>2, FS_Surjection
<1>4. ASSUME NEW i \in DOMAIN found, NEW r \in DOMAIN found[i].hits
      PROVE  KeyOf(found[i].source, found[i].hits[r]) \in S
  <2>1. <<i, r>> \in P
    BY PlacesInFacts
  <2>2. KeyAt(found, <<i, r>>) = KeyOf(found[i].source, found[i].hits[r])
    BY DEF KeyAt
  <2> QED
    BY <2>1, <2>2 DEF FusedKeys
<1> QED
  BY <1>3, <1>4

\* What a source adds to a key's score.
LEMMA SharesFacts ==
  ASSUME NEW e, IsSequence(e.hits), NEW key
  PROVE  /\ SumOf(SharesOf(e, key)) \in Nat
         /\ (\A r \in DOMAIN e.hits : KeyOf(e.source, e.hits[r]) # key)
              => SumOf(SharesOf(e, key)) = 0
         /\ \A r \in DOMAIN e.hits :
              (\A m \in DOMAIN e.hits : KeyOf(e.source, e.hits[m]) = key <=> m = r)
                => SumOf(SharesOf(e, key)) = Share(e.source, r)
<1> DEFINE n == Len(e.hits)
           terms == SharesOf(e, key)
<1>1. n \in Nat /\ DOMAIN e.hits = 1 .. n
  BY DEF IsSequence
<1>2. /\ DOMAIN terms = 1 .. n /\ Len(terms) = n
      /\ \A r \in 1 .. n : terms[r] = IF KeyOf(e.source, e.hits[r]) = key THEN Share(e.source, r) ELSE 0
      /\ terms = [r \in 1 .. n |-> terms[r]]
  BY <1>1 DEF SharesOf
<1>3. \A r \in 1 .. n : Share(e.source, r) \in Nat
  <2> SUFFICES ASSUME NEW r \in 1 .. n
               PROVE  Share(e.source, r) \in Nat
    OBVIOUS
  <2>1. r \in Nat
    BY <1>1
  <2> QED
    BY <2>1, ShareFacts
<1> HIDE DEF n, terms
<1>4. terms \in [1 .. n -> Nat]
  <2>1. \A r \in 1 .. n : terms[r] \in Nat
    BY <1>2, <1>3
  <2> QED
    BY <1>2, <2>1
<1>5. /\ SumOf(terms) \in Nat
      /\ (\A r \in 1 .. n : terms[r] = 0) => SumOf(terms) = 0
      /\ \A j \in 1 .. n : (\A r \in 1 .. n : r # j => terms[r] = 0) => SumOf(terms) = terms[j]
  BY <1>1, <1>2, <1>4, SumFacts
<1>6. ASSUME NEW r \in 1 .. n, \A m \in 1 .. n : KeyOf(e.source, e.hits[m]) = key <=> m = r
      PROVE  SumOf(terms) = Share(e.source, r)
  <2>1. terms[r] = Share(e.source, r) /\ \A m \in 1 .. n : m # r => terms[m] = 0
    BY <1>2, <1>6
  <2> QED
    BY <1>5, <2>1
<1>7. ASSUME \A r \in 1 .. n : KeyOf(e.source, e.hits[r]) # key
      PROVE  SumOf(terms) = 0
  <2>1. \A r \in 1 .. n : terms[r] = 0
    BY <1>2, <1>7
  <2> QED
    BY <1>5, <2>1
<1> QED
  BY <1>1, <1>5, <1>6, <1>7 DEF terms

\* The score of a key that its source lists once is the share of its rank.
LEMMA FusedScoreFacts ==
  ASSUME NEW found, Tidy(found), NEW key
  PROVE  /\ FusedScore(found, key) \in Nat
         /\ \A i \in DOMAIN found : \A r \in DOMAIN found[i].hits :
              (\A m \in DOMAIN found[i].hits :
                 KeyOf(found[i].source, found[i].hits[m]) = key <=> m = r)
                => FusedScore(found, key) = Share(found[i].source, r)
<1> DEFINE n == Len(found)
           terms == [i \in DOMAIN found |-> SumOf(SharesOf(found[i], key))]
<1>1. n \in Nat /\ DOMAIN found = 1 .. n
  BY TidyFacts
<1>2. FusedScore(found, key) = SumOf(terms)
  BY DEF FusedScore
<1>3. /\ DOMAIN terms = 1 .. n /\ Len(terms) = n
      /\ \A i \in 1 .. n : terms[i] = SumOf(SharesOf(found[i], key))
      /\ terms = [i \in 1 .. n |-> terms[i]]
  BY <1>1
<1> HIDE DEF n, terms
<1>4. \A i \in 1 .. n : terms[i] \in Nat
  <2> SUFFICES ASSUME NEW i \in 1 .. n
               PROVE  terms[i] \in Nat
    OBVIOUS
  <2>1. IsSequence(found[i].hits)
    BY <1>1 DEF Tidy
  <2> QED
    BY <1>3, <2>1, SharesFacts
<1>5. terms \in [1 .. n -> Nat]
  BY <1>3, <1>4
<1>6. /\ SumOf(terms) \in Nat
      /\ \A j \in 1 .. n : (\A i \in 1 .. n : i # j => terms[i] = 0) => SumOf(terms) = terms[j]
  BY <1>1, <1>3, <1>5, SumFacts
<1>7. ASSUME NEW i \in 1 .. n, NEW r \in DOMAIN found[i].hits,
             \A m \in DOMAIN found[i].hits :
               KeyOf(found[i].source, found[i].hits[m]) = key <=> m = r
      PROVE  SumOf(terms) = Share(found[i].source, r)
  <2>1. terms[i] = Share(found[i].source, r)
    <3>1. IsSequence(found[i].hits)
      BY <1>1 DEF Tidy
    <3> QED
      BY <1>3, <1>7, <3>1, SharesFacts
  <2>2. ASSUME NEW j \in 1 .. n, j # i
        PROVE  terms[j] = 0
    <3>1. IsSequence(found[j].hits) /\ found[j].source # found[i].source
      BY <1>1, <2>2 DEF Tidy
    <3>2. key.source = found[i].source
      BY <1>7 DEF KeyOf
    <3>3. \A m \in DOMAIN found[j].hits : KeyOf(found[j].source, found[j].hits[m]) # key
      BY <3>1, <3>2 DEF KeyOf
    <3> QED
      BY <1>3, <3>1, <3>3, SharesFacts
  <2> QED
    BY <1>6, <2>1, <2>2
<1> QED
  BY <1>1, <1>2, <1>6, <1>7

\* The first place of a key is one that it has.
LEMMA FirstPlaceFacts ==
  ASSUME NEW found, Tidy(found), NEW key \in FusedKeys(found)
  PROVE  /\ FirstPlace(found, key) \in PlacesIn(found)
         /\ KeyAt(found, FirstPlace(found, key)) = key
         /\ \A m \in PlacesIn(found) :
              KeyAt(found, m) = key => m = FirstPlace(found, key) \/ Sooner(FirstPlace(found, key), m)
<1> DEFINE here == {l \in PlacesIn(found) : KeyAt(found, l) = key}
           lists == {l[1] : l \in here}
<1>1. here # {} /\ here \subseteq Nat \X Nat
  BY PlacesInFacts DEF FusedKeys
<1>2. FirstPlace(found, key) = CHOOSE l \in here : \A m \in here : m = l \/ Sooner(l, m)
  BY DEF FirstPlace
<1> HIDE DEF here
<1>3. PICK i \in lists : \A j \in lists : i <= j
  <2>1. lists \in SUBSET Nat /\ lists # {}
    BY <1>1
  <2> HIDE DEF lists
  <2> QED
    BY <2>1, LeastNatural
<1> DEFINE ranks == {l[2] : l \in {l \in here : l[1] = i}}
<1>4. PICK r \in ranks : \A s \in ranks : r <= s
  <2>1. ranks \in SUBSET Nat /\ ranks # {}
    BY <1>1, <1>3
  <2> HIDE DEF ranks
  <2> QED
    BY <2>1, LeastNatural
<1>5. PICK l \in here : l[1] = i /\ l[2] = r
  BY <1>4
<1>6. ASSUME NEW m \in here
      PROVE  m = l \/ Sooner(l, m)
  <2>1. /\ l = <<l[1], l[2]>> /\ m = <<m[1], m[2]>>
        /\ l[1] \in Nat /\ l[2] \in Nat /\ m[1] \in Nat /\ m[2] \in Nat
    BY <1>1
  <2>2. l[1] <= m[1]
    BY <1>3, <1>5
  <2>3. m[1] = i => l[2] <= m[2]
    BY <1>4, <1>5
  <2> QED
    BY <1>5, <2>1, <2>2, <2>3 DEF Sooner
<1> DEFINE f == FirstPlace(found, key)
<1>7. f \in here /\ \A m \in here : m = f \/ Sooner(f, m)
  BY <1>2, <1>6
<1> HIDE DEF f
<1>8. f \in PlacesIn(found) /\ KeyAt(found, f) = key
  BY <1>7 DEF here
<1>9. \A m \in PlacesIn(found) : KeyAt(found, m) = key => m = f \/ Sooner(f, m)
  BY <1>7 DEF here
<1> QED
  BY <1>8, <1>9 DEF f

LEMMA StandingsFacts ==
  ASSUME NEW found, Tidy(found)
  PROVE  AreStandings(Standings(found)) /\ DOMAIN Standings(found) = FusedKeys(found)
<1> DEFINE S == FusedKeys(found)
           st == Standings(found)
<1>1. /\ DOMAIN st = S
      /\ \A k \in S : st[k].score = FusedScore(found, k) /\ st[k].first = FirstPlace(found, k)
  BY DEF Standings
<1>2. IsFiniteSet(S)
  BY FusedKeysFacts
<1>3. \A k \in S : FusedScore(found, k) \in Int
  BY FusedScoreFacts
<1>4. \A k \in S : FirstPlace(found, k) \in Nat \X Nat /\ KeyAt(found, FirstPlace(found, k)) = k
  BY FirstPlaceFacts, PlacesInFacts
<1> HIDE DEF S, st
<1> QED
  BY <1>1, <1>2, <1>3, <1>4 DEF AreStandings, S, st

\* Where a key that its source lists once is found first.
LEMMA OneOfItsSource ==
  ASSUME NEW found, Tidy(found), NEW i \in DOMAIN found, NEW r \in DOMAIN found[i].hits, NEW key,
         \A m \in DOMAIN found[i].hits :
           KeyOf(found[i].source, found[i].hits[m]) = key <=> m = r
  PROVE  /\ key \in FusedKeys(found)
         /\ FusedScore(found, key) = Share(found[i].source, r)
         /\ FirstPlace(found, key) = <<i, r>>
<1>1. key = KeyOf(found[i].source, found[i].hits[r])
  OBVIOUS
<1>2. key \in FusedKeys(found)
  BY <1>1, FusedKeysFacts
<1>3. PICK l \in PlacesIn(found) : l = FirstPlace(found, key) /\ KeyAt(found, l) = key
  BY <1>2, FirstPlaceFacts
<1>4. l = <<l[1], l[2]>> /\ l[1] \in DOMAIN found /\ l[2] \in DOMAIN found[l[1]].hits
  BY PlacesInFacts
<1>5. l[1] = i
  <2>1. found[l[1]].source = found[i].source
    BY <1>1, <1>3 DEF KeyAt, KeyOf
  <2> QED
    BY <1>4, <2>1 DEF Tidy
<1>6. l[2] = r
  BY <1>3, <1>4, <1>5 DEF KeyAt
<1> QED
  BY <1>2, <1>3, <1>4, <1>5, <1>6, FusedScoreFacts

\* What OrderIsKept says of a ranking that no limit cuts.
KeepsOrder(found, ranking) ==
  LET place(k) == CHOOSE i \in DOMAIN ranking : ranking[i] = k
  IN /\ \E n \in Nat : DOMAIN ranking = 1 .. n
     /\ ToSet(ranking) = FusedKeys(found)
     /\ IsInjective(ranking)
     /\ \A e \in ToSet(found) : \A i, j \in DOMAIN e.hits :
          LET key(n) == KeyOf(e.source, e.hits[n])
              ListedOnce(n) == \A m \in DOMAIN e.hits : key(m) = key(n) => m = n
          IN i < j /\ ListedOnce(i) /\ ListedOnce(j) => place(key(i)) < place(key(j))

LEMMA RankedKeepsOrder ==
  ASSUME NEW found, Tidy(found)
  PROVE  KeepsOrder(found, Ranked(found))
<1> DEFINE st == Standings(found)
           S == FusedKeys(found)
           n == Cardinality(S)
           ranking == Ranked(found)
           place(k) == CHOOSE p \in DOMAIN ranking : ranking[p] = k
<1>1. AreStandings(st) /\ DOMAIN st = S
  BY StandingsFacts
<1>2. \A k \in S : st[k].score = FusedScore(found, k) /\ st[k].first = FirstPlace(found, k)
  BY DEF Standings
<1>3. ranking = InRank(st)
  BY DEF Ranked
<1> HIDE DEF st, S, ranking
<1>4. /\ n \in Nat /\ DOMAIN ranking = 1 .. n
      /\ \A p \in 1 .. n : ranking[p] \in S
      /\ \A a \in S : \E p \in 1 .. n : ranking[p] = a
      /\ \A p, q \in 1 .. n : ranking[p] = ranking[q] => p = q
      /\ \A p, q \in 1 .. n : Outranks(st[ranking[p]], st[ranking[q]]) => p < q
  BY <1>1, <1>3, InRankFacts
<1> HIDE DEF n
<1>5. ToSet(ranking) = S
  BY <1>4 DEF ToSet
<1>6. IsInjective(ranking)
  BY <1>4 DEF IsInjective
<1>7. ASSUME NEW a \in S
      PROVE  place(a) \in 1 .. n /\ ranking[place(a)] = a
  BY <1>4
<1> HIDE DEF place
<1>8. ASSUME NEW x \in DOMAIN found, NEW i \in DOMAIN found[x].hits, NEW j \in DOMAIN found[x].hits,
             NEW a, NEW b, i < j,
             \A m \in DOMAIN found[x].hits : KeyOf(found[x].source, found[x].hits[m]) = a <=> m = i,
             \A m \in DOMAIN found[x].hits : KeyOf(found[x].source, found[x].hits[m]) = b <=> m = j
      PROVE  place(a) < place(b)
  <2>1. /\ a \in S /\ FusedScore(found, a) = Share(found[x].source, i)
        /\ FirstPlace(found, a) = <<x, i>>
    BY <1>8, OneOfItsSource DEF S
  <2>2. /\ b \in S /\ FusedScore(found, b) = Share(found[x].source, j)
        /\ FirstPlace(found, b) = <<x, j>>
    BY <1>8, OneOfItsSource DEF S
  <2>3. i \in Nat /\ j \in Nat
    BY TidyFacts
  <2>4. PICK u \in Nat, v \in Nat : u = st[a].score /\ v = st[b].score /\ u >= v
    BY <1>2, <1>8, <2>1, <2>2, <2>3, ShareFacts
  <2>5. Sooner(st[a].first, st[b].first)
    BY <1>2, <1>8, <2>1, <2>2 DEF Sooner
  <2>6. Outranks(st[a], st[b])
    BY <2>4, <2>5 DEF Outranks
  <2> QED
    BY <1>4, <1>7, <2>1, <2>2, <2>6
<1>9. ASSUME NEW e \in ToSet(found), NEW i \in DOMAIN e.hits, NEW j \in DOMAIN e.hits, i < j,
             \A m \in DOMAIN e.hits : KeyOf(e.source, e.hits[m]) = KeyOf(e.source, e.hits[i]) => m = i,
             \A m \in DOMAIN e.hits : KeyOf(e.source, e.hits[m]) = KeyOf(e.source, e.hits[j]) => m = j
      PROVE  place(KeyOf(e.source, e.hits[i])) < place(KeyOf(e.source, e.hits[j]))
  <2>1. PICK x \in DOMAIN found : e = found[x]
    BY DEF ToSet
  <2> QED
    BY <1>8, <1>9, <2>1
<1> QED
  BY <1>4, <1>5, <1>6, <1>9 DEF KeepsOrder, S, ranking, place

\* What one after the other has at its places.
LEMMA JoinPlaces ==
  ASSUME NEW s, NEW t, IsSequence(s), IsSequence(t)
  PROVE  /\ IsSequence(s \o t)
         /\ \A k \in DOMAIN (s \o t) :
              \/ k \in DOMAIN s /\ (s \o t)[k] = s[k]
              \/ \E i \in DOMAIN t : k = Len(s) + i /\ (s \o t)[k] = t[i]
<1> DEFINE R == Range(s) \cup Range(t)
           both == s \o t
<1>1. s \in Seq(R) /\ t \in Seq(R)
  <2>1. s \in Seq(Range(s)) /\ t \in Seq(Range(t)) /\ Range(s) \subseteq R /\ Range(t) \subseteq R
    BY DEF IsSequence
  <2> HIDE DEF R
  <2> QED
    BY <2>1, SeqMonotonic
<1> HIDE DEF R
<1>2. PICK m \in Nat : m = Len(s) /\ DOMAIN s = 1 .. m
  BY <1>1, LenProperties
<1>3. PICK n \in Nat : n = Len(t) /\ DOMAIN t = 1 .. n
  BY <1>1, LenProperties
<1>4. /\ both \in Seq(R) /\ Len(both) = m + n
      /\ \A i \in 1 .. m + n : both[i] = IF i <= m THEN s[i] ELSE t[i - m]
  BY <1>1, <1>2, <1>3, ConcatProperties
<1> HIDE DEF both
<1>5. DOMAIN both = 1 .. m + n
  BY <1>4, LenProperties
<1>6. IsSequence(both)
  BY <1>4, SeqOfRange DEF IsSequence
<1>7. ASSUME NEW k \in 1 .. m + n
      PROVE  \/ k \in DOMAIN s /\ both[k] = s[k]
             \/ \E i \in DOMAIN t : k = m + i /\ both[k] = t[i]
  <2>1. CASE k <= m
    BY <1>2, <1>4, <2>1
  <2>2. CASE ~ k <= m
    <3>1. PICK i \in 1 .. n : i = k - m /\ k = m + i
      BY <2>2
    <3> QED
      BY <1>3, <1>4, <2>2, <3>1
  <2> QED
    BY <2>1, <2>2
<1> QED
  BY <1>2, <1>5, <1>6, <1>7 DEF both

\* Hits of different contents.
AllDiffer(hits) == \A j, k \in DOMAIN hits : hits[j].content = hits[k].content => j = k

LEMMA MergedFacts ==
  ASSUME NEW way, NEW old, NEW new, IsSequence(old), IsSequence(new)
  PROVE  /\ IsSequence(Merged(way, old, new))
         /\ way = "iterative" /\ AllDiffer(old) => AllDiffer(Merged(way, old, new))
<1> DEFINE S == {k \in DOMAIN new : /\ \A m \in DOMAIN old : ~Same(way, old[m], new[k])
                                    /\ \A m \in 1 .. k - 1 : ~Same(way, new[m], new[k])}
           t == Taken(new, S)
           n == Cardinality(S)
<1>1. Merged(way, old, new) = old \o t
  BY DEF Merged
<1>2. DOMAIN new = 1 .. Len(new) /\ Len(new) \in Nat
  BY DEF IsSequence
<1>3. IsFiniteSet(S) /\ S \subseteq Int /\ S \subseteq DOMAIN new
  <2>1. IsFiniteSet(1 .. Len(new))
    BY <1>2, FS_Interval
  <2>2. S \subseteq 1 .. Len(new)
    BY <1>2
  <2>3. S \subseteq Int
    BY <1>2, <2>2
  <2> HIDE DEF S
  <2> QED
    BY <1>2, <2>1, <2>2, <2>3, FS_Subset
<1>4. \A k \in S : /\ \A m \in DOMAIN old : ~Same(way, old[m], new[k])
                   /\ \A m \in 1 .. k - 1 : ~Same(way, new[m], new[k])
  OBVIOUS
<1> HIDE DEF S
<1>5. /\ n \in Nat
      /\ \A k \in 1 .. n : InOrder(S)[k] \in S
      /\ \A j, k \in 1 .. n : j < k => InOrder(S)[j] < InOrder(S)[k]
  BY <1>3, InOrderFacts
<1>6. DOMAIN t = 1 .. n /\ t = [k \in 1 .. n |-> t[k]] /\ \A k \in 1 .. n : t[k] = new[InOrder(S)[k]]
  BY DEF Taken
<1> HIDE DEF t, n
<1>7. IsSequence(t)
  BY <1>5, <1>6, ListIsSequence
<1>8. IsSequence(old \o t)
  BY <1>7, JoinPlaces
<1>9. ASSUME way = "iterative", AllDiffer(old)
      PROVE  AllDiffer(old \o t)
  <2>1. \A a, b : Same(way, a, b) <=> a.content = b.content
    BY <1>9 DEF Same
  <2>2. \A k \in DOMAIN t : \A m \in DOMAIN old : old[m].content # t[k].content
    BY <1>4, <1>5, <1>6, <2>1
  <2>3. ASSUME NEW j \in 1 .. n, NEW k \in 1 .. n, j < k
        PROVE  t[j].content # t[k].content
    <3>1. PICK a \in S, b \in S : a = InOrder(S)[j] /\ b = InOrder(S)[k] /\ a < b
      BY <1>5, <2>3
    <3>2. a \in 1 .. b - 1
      BY <1>2, <1>3, <3>1
    <3>3. new[a].content # new[b].content
      BY <1>4, <2>1, <3>2
    <3> QED
      BY <1>6, <3>1, <3>3
  <2>4. AllDiffer(t)
    <3> SUFFICES ASSUME NEW j \in 1 .. n, NEW k \in 1 .. n, t[j].content = t[k].content
                 PROVE  j = k
      BY <1>6 DEF AllDiffer
    <3>1. ~ j < k /\ ~ k < j
      BY <2>3
    <3> QED
      BY <3>1
  <2> DEFINE both == old \o t
  <2>5. \A k \in DOMAIN both : \/ k \in DOMAIN old /\ both[k] = old[k]
                               \/ \E i \in DOMAIN t : k = Len(old) + i /\ both[k] = t[i]
    BY <1>7, JoinPlaces
  <2> HIDE DEF both
  <2>6. ASSUME NEW j \in DOMAIN both, NEW k \in DOMAIN both, both[j].content = both[k].content
        PROVE  j = k
    <3>1. CASE j \in DOMAIN old /\ both[j] = old[j] /\ k \in DOMAIN old /\ both[k] = old[k]
      BY <1>9, <2>6, <3>1 DEF AllDiffer
    <3>2. CASE j \in DOMAIN old /\ both[j] = old[j] /\ \E i \in DOMAIN t : both[k] = t[i]
      BY <2>2, <2>6, <3>2
    <3>3. CASE k \in DOMAIN old /\ both[k] = old[k] /\ \E i \in DOMAIN t : both[j] = t[i]
      BY <2>2, <2>6, <3>3
    <3>4. ASSUME NEW x \in DOMAIN t, NEW y \in DOMAIN t,
                 j = Len(old) + x, both[j] = t[x], k = Len(old) + y, both[k] = t[y]
          PROVE  j = k
      BY <2>4, <2>6, <3>4 DEF AllDiffer
    <3> QED
      BY <2>5, <3>1, <3>2, <3>3, <3>4
  <2> QED
    BY <2>6 DEF AllDiffer, both
<1> QED
  BY <1>1, <1>8, <1>9

\* What a search has found, and the one list of facts of an iterative search.
FoundIsNeat(way, found) ==
  /\ Tidy(found)
  /\ \A i \in DOMAIN found : found[i] = [source |-> found[i].source, hits |-> found[i].hits]
  /\ way = "iterative" => \A i \in DOMAIN found : found[i].source = "all" /\ AllDiffer(found[i].hits)

LEMMA NothingIsNeat == \A way : FoundIsNeat(way, <<>>)
<1>1. IsSequence(<<>>) /\ DOMAIN <<>> = {}
  BY EmptySeq DEF IsSequence
<1> QED
  BY <1>1 DEF FoundIsNeat, Tidy

LEMMA FiledKeepsNeat ==
  ASSUME NEW way, NEW found, FoundIsNeat(way, found), NEW source, NEW hits, IsSequence(hits),
         way = "iterative" => source = "all"
  PROVE  FoundIsNeat(way, Filed(way, found, source, hits))
<1> DEFINE here == {i \in DOMAIN found : found[i].source = source}
           filed == Filed(way, found, source, hits)
           grown == [i \in DOMAIN found |->
                       IF i \in here THEN [found[i] EXCEPT !.hits = Merged(way, @, hits)] ELSE found[i]]
           e == [source |-> source,
                 hits |-> IF way = "iterative" THEN Merged(way, <<>>, hits) ELSE hits]
<1>1. /\ Len(found) \in Nat /\ DOMAIN found = 1 .. Len(found)
      /\ \A i \in DOMAIN found : IsSequence(found[i].hits)
      /\ \A i, j \in DOMAIN found : found[i].source = found[j].source => i = j
      /\ IsSequence(found)
  BY TidyFacts DEF FoundIsNeat, Tidy
<1>2. CASE hits = <<>>
  <2>1. filed = found
    BY <1>2 DEF Filed
  <2> QED
    BY <2>1
<1>3. CASE hits # <<>> /\ here # {}
  <2>1. filed = grown
    BY <1>3 DEF Filed
  <2>2. ASSUME NEW i \in DOMAIN found
        PROVE  /\ grown[i].source = found[i].source
               /\ grown[i] = [source |-> grown[i].source, hits |-> grown[i].hits]
               /\ IsSequence(grown[i].hits)
               /\ way = "iterative" => AllDiffer(grown[i].hits)
    <3>1. CASE i \in here
      <4>1. PICK x, y : found[i] = [source |-> x, hits |-> y]
        BY DEF FoundIsNeat
      <4>2. grown[i] = [source |-> x, hits |-> Merged(way, y, hits)]
        BY <3>1, <4>1
      <4>3. IsSequence(y) /\ found[i].source = x /\ (way = "iterative" => AllDiffer(y))
        BY <1>1, <4>1 DEF FoundIsNeat
      <4>4. /\ IsSequence(Merged(way, y, hits))
            /\ way = "iterative" => AllDiffer(Merged(way, y, hits))
        BY <4>3, MergedFacts
      <4>5. grown[i].source = x /\ grown[i].hits = Merged(way, y, hits)
        BY <4>2
      <4>6. grown[i] = [source |-> grown[i].source, hits |-> grown[i].hits]
        BY <4>2, <4>5
      <4> QED
        BY <4>3, <4>4, <4>5, <4>6
    <3>2. CASE i \notin here
      <4>1. grown[i] = found[i]
        BY <3>2
      <4> QED
        BY <1>1, <4>1 DEF FoundIsNeat
    <3> QED
      BY <3>1, <3>2
  <2>3. DOMAIN grown = DOMAIN found /\ IsSequence(grown)
    <3>1. DOMAIN grown = 1 .. Len(found) /\ grown = [i \in 1 .. Len(found) |-> grown[i]]
      BY <1>1
    <3> HIDE DEF grown
    <3> QED
      BY <1>1, <3>1, ListIsSequence
  <2> HIDE DEF grown
  <2>4. Tidy(grown)
    BY <1>1, <2>2, <2>3 DEF Tidy
  <2>5. way = "iterative" => \A i \in DOMAIN grown : grown[i].source = "all"
    BY <2>2, <2>3 DEF FoundIsNeat
  <2> HIDE DEF filed
  <2>6. FoundIsNeat(way, grown)
    BY <2>2, <2>3, <2>4, <2>5 DEF FoundIsNeat
  <2>7. FoundIsNeat(way, filed)
    BY <2>1, <2>6
  <2> QED
    BY <2>7 DEF filed
<1>4. CASE hits # <<>> /\ here = {}
  <2>1. filed = Append(found, e)
    BY <1>4 DEF Filed
  <2>2. /\ e = [source |-> e.source, hits |-> e.hits] /\ e.source = source
        /\ e.hits = IF way = "iterative" THEN Merged(way, <<>>, hits) ELSE hits
    OBVIOUS
  <2>3. IsSequence(e.hits) /\ (way = "iterative" => AllDiffer(e.hits))
    <3>1. IsSequence(<<>>) /\ AllDiffer(<<>>)
      BY EmptySeq DEF IsSequence, AllDiffer
    <3>2. /\ IsSequence(Merged(way, <<>>, hits))
          /\ way = "iterative" => AllDiffer(Merged(way, <<>>, hits))
      BY <3>1, MergedFacts
    <3> HIDE DEF e
    <3> QED
      BY <2>2, <3>2
  <2>4. \A i \in DOMAIN found : found[i].source # source
    BY <1>4
  <2> HIDE DEF e, filed, here
  <2>5. PICK m \in Nat : m = Len(found) /\ DOMAIN found = 1 .. m
    BY <1>1
  <2>6. /\ DOMAIN filed = 1 .. m + 1 /\ Len(filed) = m + 1
        /\ filed[m + 1] = e /\ \A i \in 1 .. m : filed[i] = found[i]
        /\ filed = [i \in 1 .. m + 1 |-> filed[i]]
    <3>1. found \in Seq(Range(found) \cup {e}) /\ e \in Range(found) \cup {e}
      <4>1. found \in Seq(Range(found))
        BY <1>1 DEF IsSequence
      <4> QED
        BY <4>1, SeqMonotonic
    <3> DEFINE R == Range(found) \cup {e}
    <3> HIDE DEF R
    <3>2. /\ filed \in Seq(R) /\ Len(filed) = m + 1 /\ filed[m + 1] = e
          /\ \A i \in 1 .. m : filed[i] = found[i]
      BY <2>1, <2>5, <3>1, AppendProperties DEF R
    <3>3. filed \in [1 .. m + 1 -> R]
      BY <3>2, LenProperties
    <3> QED
      BY <3>2, <3>3
  <2>7. IsSequence(filed)
    <3>1. m + 1 \in Nat
      OBVIOUS
    <3> QED
      BY <2>6, <3>1, ListIsSequence
  <2>8. \A i \in 1 .. m + 1 : i \in 1 .. m \/ i = m + 1
    OBVIOUS
  <2>9. \A i \in 1 .. m + 1 : /\ IsSequence(filed[i].hits)
                              /\ filed[i] = [source |-> filed[i].source, hits |-> filed[i].hits]
                              /\ way = "iterative" => filed[i].source = "all" /\ AllDiffer(filed[i].hits)
    BY <1>1, <2>2, <2>3, <2>5, <2>6, <2>8 DEF FoundIsNeat
  <2>10. \A i, j \in 1 .. m + 1 : filed[i].source = filed[j].source => i = j
    <3>1. \A i \in 1 .. m : filed[i].source = found[i].source /\ filed[i].source # source
      BY <2>4, <2>5, <2>6
    <3>2. filed[m + 1].source = source
      BY <2>2, <2>6
    <3>3. \A i, j \in 1 .. m : filed[i].source = filed[j].source => i = j
      BY <1>1, <2>5, <3>1
    <3> HIDE DEF filed
    <3> QED
      BY <2>8, <3>1, <3>2, <3>3
  <2>11. Tidy(filed)
    BY <2>6, <2>7, <2>9, <2>10 DEF Tidy
  <2>12. FoundIsNeat(way, filed)
    BY <2>6, <2>9, <2>11 DEF FoundIsNeat
  <2> QED
    BY <2>12 DEF filed
<1> QED
  BY <1>2, <1>3, <1>4

LEMMA UnrankedKeepsOrder ==
  ASSUME NEW found, FoundIsNeat("iterative", found)
  PROVE  KeepsOrder(found, Unranked(found))
<1> DEFINE ranking == Unranked(found)
           place(k) == CHOOSE i \in DOMAIN ranking : ranking[i] = k
<1>1. /\ Tidy(found) /\ IsSequence(found)
      /\ \A i \in DOMAIN found : found[i].source = "all" /\ AllDiffer(found[i].hits)
      /\ \A i, j \in DOMAIN found : found[i].source = found[j].source => i = j
  BY DEF FoundIsNeat, Tidy
<1>2. CASE found = <<>>
  <2>1. DOMAIN found = {} /\ ranking = <<>> /\ DOMAIN ranking = {}
    BY <1>2 DEF Unranked
  <2>2. PlacesIn(found) = {}
    BY <2>1 DEF PlacesIn
  <2>3. FusedKeys(found) = {} /\ ToSet(ranking) = {} /\ ToSet(found) = {}
    BY <2>1, <2>2 DEF FusedKeys, ToSet
  <2>4. IsInjective(ranking)
    BY <2>1 DEF IsInjective
  <2> HIDE DEF ranking
  <2>5. KeepsOrder(found, ranking)
    <3>1. DOMAIN ranking = 1 .. 0
      BY <2>1
    <3> QED
      BY <2>3, <2>4, <3>1 DEF KeepsOrder
  <2> QED
    BY <2>5 DEF ranking
<1>3. CASE found # <<>>
  <2>1. 1 \in DOMAIN found
    BY <1>1, <1>3 DEF IsSequence
  <2>2. \A i \in DOMAIN found : i = 1
    BY <1>1, <2>1
  <2>3. PICK hits : hits = found[1].hits
    OBVIOUS
  <2> DEFINE key(r) == KeyOf(found[1].source, hits[r])
  <2>4. DOMAIN ranking = DOMAIN hits /\ \A r \in DOMAIN hits : ranking[r] = key(r)
    BY <1>3, <2>3 DEF Unranked
  <2>5. \A r, s \in DOMAIN hits : key(r) = key(s) => r = s
    BY <1>1, <2>1, <2>3 DEF AllDiffer, KeyOf
  <2>6. ToSet(ranking) = FusedKeys(found)
    <3>1. ASSUME NEW r \in DOMAIN hits
          PROVE  ranking[r] \in FusedKeys(found)
      BY <1>1, <2>1, <2>3, <2>4, FusedKeysFacts
    <3>2. ASSUME NEW k \in FusedKeys(found)
          PROVE  \E r \in DOMAIN hits : ranking[r] = k
      <4>1. PICK l \in PlacesIn(found) : k = KeyAt(found, l)
        BY DEF FusedKeys
      <4>2. l[1] = 1 /\ l[2] \in DOMAIN hits
        BY <1>1, <2>2, <2>3, PlacesInFacts
      <4>3. k = key(l[2])
        BY <2>3, <4>1, <4>2 DEF KeyAt
      <4> QED
        BY <2>4, <4>2, <4>3
    <3> HIDE DEF ranking
    <3> QED
      BY <2>4, <3>1, <3>2 DEF ToSet
  <2> HIDE DEF key, ranking
  <2>7. IsInjective(ranking)
    BY <2>4, <2>5 DEF IsInjective
  <2>8. ASSUME NEW r \in DOMAIN hits
        PROVE  place(key(r)) = r
    BY <2>4, <2>5
  <2> HIDE DEF place
  <2>9. ASSUME NEW e \in ToSet(found), NEW i \in DOMAIN e.hits, NEW j \in DOMAIN e.hits, i < j
        PROVE  place(KeyOf(e.source, e.hits[i])) < place(KeyOf(e.source, e.hits[j]))
    <3>1. e = found[1]
      BY <2>2 DEF ToSet
    <3>2. KeyOf(e.source, e.hits[i]) = key(i) /\ KeyOf(e.source, e.hits[j]) = key(j)
      BY <2>3, <3>1 DEF key
    <3>3. i \in DOMAIN hits /\ j \in DOMAIN hits
      BY <2>3, <3>1
    <3>4. place(key(i)) = i /\ place(key(j)) = j
      BY <2>8, <3>3
    <3> QED
      BY <2>9, <3>2, <3>4
  <2>10. KeepsOrder(found, ranking)
    <3>1. Len(hits) \in Nat /\ DOMAIN hits = 1 .. Len(hits)
      BY <1>1, <2>1, <2>3 DEF Tidy, IsSequence
    <3> QED
      BY <2>4, <2>6, <2>7, <2>9, <3>1 DEF KeepsOrder, place
  <2> QED
    BY <2>10 DEF ranking
<1> QED
  BY <1>2, <1>3

LEMMA HitsAreSequences == \A step : \A hits \in HitsOf(step) : IsSequence(hits)
<1>1. \A n \in 0 .. Limit : n \in Nat
  BY HybridAssumption
<1>2. \A hits \in Rows \cup Sketches \cup Documents : IsSequence(hits)
  <2> SUFFICES ASSUME NEW hits \in Rows \cup Sketches \cup Documents
               PROVE  IsSequence(hits)
    OBVIOUS
  <2>1. PICK n \in 0 .. Limit : \/ hits = [k \in 1 .. n |-> Hit(0, "", k)]
                                  \/ hits = [k \in 1 .. n |-> Hit(0, "", 0)]
                                  \/ hits = [k \in 1 .. n |-> Hit(k, "", 0)]
    BY DEF Rows, Sketches, Documents
  <2>2. hits = [k \in 1 .. n |-> hits[k]]
    BY <2>1
  <2> QED
    BY <1>1, <2>2, ListIsSequence
<1>3. \A hits \in Diagrams \cup Passages : IsSequence(hits)
  <2>1. IsSequence(<<>>)
    BY EmptySeq DEF IsSequence
  <2>2. \A x : IsSequence(<<x>>)
    <3> TAKE x
    <3>1. PICK s : s = <<x>>
      OBVIOUS
    <3>2. s = [k \in 1 .. 1 |-> s[k]]
      BY <3>1
    <3>3. IsSequence(s)
      BY <3>2, ListIsSequence
    <3> QED
      BY <3>1, <3>3
  <2> QED
    BY <2>1, <2>2 DEF Diagrams, Passages
<1>4. \A step : HitsOf(step) \subseteq Rows \cup Sketches \cup Documents \cup Diagrams \cup Passages
  BY DEF HitsOf, CodeHits, ToolingHits
<1> QED
  BY <1>2, <1>3, <1>4

\* Every search under way keeps the lists of its sources apart.
Neat(f) == FoundIsNeat(f.way, f.found)
FramesAreNeat == \A i \in 1 .. Len(frames) : Neat(frames[i])

RankInv == HybridInv /\ FramesAreNeat /\ OrderIsKept

LEMMA FramesFacts ==
  ASSUME HybridInv, frames # <<>>, FramesAreNeat
  PROVE  /\ Neat(Inner) /\ IsFrame(Inner)
         /\ frames' = Tail(frames) => FramesAreNeat'
         /\ \A n : frames' = <<n>> \o Tail(frames) /\ Neat(n) => FramesAreNeat'
         /\ \A h, n : Inner.way = "enhanced" /\ frames' = <<h, n>> /\ Neat(h) /\ Neat(n)
                        => FramesAreNeat'
<1>1. ASSUME NEW f, frames = <<f>>
      PROVE  /\ Inner = f /\ Neat(f)
             /\ frames' = Tail(frames) => frames' = <<>>
             /\ \A n : frames' = <<n>> \o Tail(frames) => frames' = <<n>>
  BY <1>1 DEF Inner, FramesAreNeat
<1>2. ASSUME NEW f, NEW g, frames = <<f, g>>
      PROVE  /\ Inner = f /\ Neat(f) /\ Neat(g)
             /\ frames' = Tail(frames) => frames' = <<g>>
             /\ \A n : frames' = <<n>> \o Tail(frames) => frames' = <<n, g>>
  <2>1. Inner = f /\ Neat(f) /\ Neat(g)
    <3>1. Len(frames) = 2 /\ frames[1] = f /\ frames[2] = g
      BY <1>2
    <3> QED
      BY <1>2, <3>1 DEF Inner, FramesAreNeat
  <2>2. Tail(<<f, g>>) = <<g>>
    OBVIOUS
  <2>3. \A n : <<n>> \o <<g>> = <<n, g>>
    BY PairOf
  <2> QED
    BY <1>2, <2>1, <2>2, <2>3
<1>3. /\ frames' = <<>> => FramesAreNeat'
      /\ \A n : frames' = <<n>> /\ Neat(n) => FramesAreNeat'
      /\ \A n, g : frames' = <<n, g>> /\ Neat(n) /\ Neat(g) => FramesAreNeat'
  <2>1. \A n : Neat(n)' <=> Neat(n)
    BY DEF Neat
  <2>2. frames' = <<>> => FramesAreNeat'
    BY DEF FramesAreNeat
  <2>3. ASSUME NEW n, frames' = <<n>>, Neat(n)
        PROVE  FramesAreNeat'
    <3>1. Len(frames') = 1 /\ frames'[1] = n
      BY <2>3
    <3> QED
      BY <2>3, <3>1 DEF FramesAreNeat, Neat
  <2>4. ASSUME NEW n, NEW g, frames' = <<n, g>>, Neat(n), Neat(g)
        PROVE  FramesAreNeat'
    <3>1. Len(frames') = 2 /\ frames'[1] = n /\ frames'[2] = g
      BY <2>4
    <3> QED
      BY <2>4, <3>1 DEF FramesAreNeat, Neat
  <2> QED
    BY <2>2, <2>3, <2>4
<1>4. IsFrame(Inner)
  BY InnerIsFrame
<1>5. (\E f : frames = <<f>>) \/ (\E f, g : frames = <<f, g>>)
  BY DEF HybridInv, Alone, Enclosed
<1>6. CASE \E f : frames = <<f>>
  <2>1. PICK f : frames = <<f>>
    BY <1>6
  <2> QED
    BY <1>1, <1>3, <1>4, <2>1
<1>7. CASE \E f, g : frames = <<f, g>>
  <2>1. PICK f, g : frames = <<f, g>>
    BY <1>7
  <2> QED
    BY <1>2, <1>3, <1>4, <2>1
<1> QED
  BY <1>5, <1>6, <1>7

\* The limit cuts the end of a ranking, and so the end of every source's list.
LEMMA CutKeepsOrder ==
  ASSUME NEW found, Tidy(found), NEW whole, KeepsOrder(found, whole)
  PROVE  LET ranking == WithinLimit(whole)
             place(k) == CHOOSE i \in DOMAIN ranking : ranking[i] = k
         IN /\ IsInjective(ranking) /\ ToSet(ranking) \subseteq FusedKeys(found)
            /\ DOMAIN ranking = 1 .. Limit \/ ToSet(ranking) = FusedKeys(found)
            /\ \A e \in ToSet(found) : \A i, j \in DOMAIN e.hits :
                 LET key(n) == KeyOf(e.source, e.hits[n])
                     ListedOnce(n) == \A m \in DOMAIN e.hits : key(m) = key(n) => m = n
                 IN i < j /\ ListedOnce(i) /\ ListedOnce(j) /\ key(j) \in ToSet(ranking) =>
                      key(i) \in ToSet(ranking) /\ place(key(i)) < place(key(j))
<1> DEFINE ranking == WithinLimit(whole)
           place(k) == CHOOSE i \in DOMAIN ranking : ranking[i] = k
           before(k) == CHOOSE i \in DOMAIN whole : whole[i] = k
<1>1. Limit \in Nat
  BY HybridAssumption
<1>2. PICK n \in Nat : DOMAIN whole = 1 .. n
  BY DEF KeepsOrder
<1>3. DOMAIN ranking = DOMAIN whole \cap 1 .. Limit /\ \A i \in DOMAIN ranking : ranking[i] = whole[i]
  BY DEF WithinLimit
<1>4. /\ ToSet(whole) = FusedKeys(found)
      /\ \A i, j \in DOMAIN whole : whole[i] = whole[j] => i = j
  BY DEF KeepsOrder, IsInjective
<1>5. ASSUME NEW e \in ToSet(found), NEW i \in DOMAIN e.hits, NEW j \in DOMAIN e.hits, i < j,
             \A m \in DOMAIN e.hits : KeyOf(e.source, e.hits[m]) = KeyOf(e.source, e.hits[i]) => m = i,
             \A m \in DOMAIN e.hits : KeyOf(e.source, e.hits[m]) = KeyOf(e.source, e.hits[j]) => m = j
      PROVE  before(KeyOf(e.source, e.hits[i])) < before(KeyOf(e.source, e.hits[j]))
  BY <1>5 DEF KeepsOrder
<1> HIDE DEF ranking
<1>6. IsInjective(ranking) /\ ToSet(ranking) \subseteq FusedKeys(found)
  BY <1>3, <1>4 DEF IsInjective, ToSet
<1>7. DOMAIN ranking = 1 .. Limit \/ ToSet(ranking) = FusedKeys(found)
  <2>1. CASE Limit <= n
    BY <1>1, <1>2, <1>3, <2>1
  <2>2. CASE n < Limit
    <3>1. DOMAIN ranking = DOMAIN whole
      BY <1>1, <1>2, <1>3, <2>2
    <3> QED
      BY <1>3, <1>4, <3>1 DEF ToSet
  <2> QED
    BY <1>1, <2>1, <2>2
<1>8. ASSUME NEW k \in ToSet(whole)
      PROVE  before(k) \in DOMAIN whole /\ whole[before(k)] = k
  BY DEF ToSet
<1>9. ASSUME NEW k \in ToSet(ranking)
      PROVE  place(k) = before(k) /\ place(k) \in DOMAIN ranking
  <2>1. place(k) \in DOMAIN ranking /\ ranking[place(k)] = k
    BY DEF ToSet
  <2> HIDE DEF place
  <2>2. k \in ToSet(whole)
    BY <1>3, <2>1 DEF ToSet
  <2> HIDE DEF before
  <2> QED
    BY <1>3, <1>4, <1>8, <2>1, <2>2
<1> HIDE DEF place, before
<1>10. ASSUME NEW e \in ToSet(found), NEW i \in DOMAIN e.hits, NEW j \in DOMAIN e.hits, i < j,
              \A m \in DOMAIN e.hits : KeyOf(e.source, e.hits[m]) = KeyOf(e.source, e.hits[i]) => m = i,
              \A m \in DOMAIN e.hits : KeyOf(e.source, e.hits[m]) = KeyOf(e.source, e.hits[j]) => m = j,
              KeyOf(e.source, e.hits[j]) \in ToSet(ranking)
       PROVE  /\ KeyOf(e.source, e.hits[i]) \in ToSet(ranking)
              /\ place(KeyOf(e.source, e.hits[i])) < place(KeyOf(e.source, e.hits[j]))
  <2>1. PICK a, b : a = KeyOf(e.source, e.hits[i]) /\ b = KeyOf(e.source, e.hits[j])
    OBVIOUS
  <2>2. before(a) < before(b) /\ b \in ToSet(ranking)
    BY <1>5, <1>10, <2>1
  <2>3. a \in ToSet(whole)
    <3>1. PICK x \in DOMAIN found : e = found[x]
      BY DEF ToSet
    <3> QED
      BY <1>4, <2>1, <3>1, FusedKeysFacts
  <2>4. before(a) \in DOMAIN ranking
    BY <1>1, <1>2, <1>3, <1>8, <1>9, <2>2, <2>3
  <2>5. a \in ToSet(ranking)
    BY <1>3, <1>8, <2>3, <2>4 DEF ToSet
  <2> QED
    BY <1>9, <2>1, <2>2, <2>5
<1> QED
  BY <1>6, <1>7, <1>10 DEF ranking, place

\* What is delivered is in order, if what the search has found is neat.
LEMMA DeliveredInOrder ==
  ASSUME NEW f, Neat(f), delivered' = Delivery(f.way, f.found)
  PROVE  OrderIsKept'
<1>1. Tidy(f.found)
  BY DEF Neat, FoundIsNeat
<1>2. PICK whole : /\ whole = IF f.way = "iterative" THEN Unranked(f.found) ELSE Ranked(f.found)
                   /\ KeepsOrder(f.found, whole)
  <2>1. CASE f.way = "iterative"
    BY <2>1, UnrankedKeepsOrder DEF Neat
  <2>2. CASE f.way # "iterative"
    BY <1>1, <2>2, RankedKeepsOrder
  <2> QED
    BY <2>1, <2>2
<1>3. /\ delivered'.found = f.found /\ delivered'.ranking = WithinLimit(whole)
      /\ DOMAIN delivered'.reply = DOMAIN WithinLimit(whole)
  BY <1>2 DEF Delivery
<1>4. PICK found, ranking : found = f.found /\ ranking = WithinLimit(whole)
  OBVIOUS
<1> QED
  BY <1>1, <1>2, <1>3, <1>4, CutKeepsOrder DEF OrderIsKept

LEMMA NoneIsDelivered ==
  ASSUME OrderIsKept, UNCHANGED delivered \/ delivered'.at # "returned"
  PROVE  OrderIsKept'
BY DEF OrderIsKept

LEMMA GotKeepsNeat ==
  ASSUME HybridInv, frames # <<>>, FramesAreNeat, NEW hits, IsSequence(hits), Got(hits)
  PROVE  FramesAreNeat'
<1>1. PICK f : f = Inner
  OBVIOUS
<1>2. Neat(f) /\ IsFrame(f)
  BY <1>1, FramesFacts
<1>3. PICK found : found = IF Step = "linked" THEN f.found
                           ELSE Filed(f.way, f.found, FiledAs(f.way, Step), hits)
  OBVIOUS
<1>4. FoundIsNeat(f.way, found)
  <2>1. f.way = "iterative" => FiledAs(f.way, Step) = "all"
    BY DEF FiledAs
  <2>2. FoundIsNeat(f.way, Filed(f.way, f.found, FiledAs(f.way, Step), hits))
    BY <1>2, <2>1, FiledKeepsNeat DEF Neat
  <2> QED
    BY <1>2, <1>3, <2>2 DEF Neat
<1>5. PICK left, lately, known, n :
        /\ n = [f EXCEPT !.left = left, !.found = found, !.lately = lately, !.known = known]
        /\ frames' = <<n>> \o Tail(frames)
  BY <1>1, <1>3 DEF Got
<1>6. n.way = f.way /\ n.found = found
  <2>1. PICK w, l, r, fs, la, k, m :
          f = [way |-> w, left |-> l, round |-> r, found |-> fs, lately |-> la, known |-> k,
               nested |-> m]
    BY <1>2 DEF IsFrame
  <2> QED
    BY <1>5, <2>1
<1>7. Neat(n)
  BY <1>4, <1>6 DEF Neat
<1> QED
  BY <1>5, <1>7, FramesFacts

LEMMA RaiseKeepsRank ==
  ASSUME RankInv, frames # <<>>, Raise
  PROVE  FramesAreNeat' /\ OrderIsKept'
<1>1. CASE Len(frames) > 1
  <2>1. frames' = Tail(frames) /\ UNCHANGED delivered
    BY <1>1 DEF Raise
  <2> QED
    BY <2>1, FramesFacts, NoneIsDelivered DEF RankInv
<1>2. CASE ~ Len(frames) > 1
  <2>1. frames' = <<>> /\ delivered'.at = "raised"
    BY <1>2 DEF Raise, NotDelivered
  <2> QED
    BY <2>1, NoneIsDelivered DEF RankInv, FramesAreNeat
<1> QED
  BY <1>1, <1>2

LEMMA NewIsNeat ==
  /\ \A way, steps : Neat(Frame(way, steps))
  /\ \A c : Neat(SearchFrame(c))
BY NothingIsNeat DEF Frame, SearchFrame, Neat

\* Every reply has all hits or as many as the limit allows, and what the limit
\* cuts of a source is the end of its list: ResultFusion.fuse, fused[:limit].
THEOREM OrderIsKeptHolds == HybridSpec => []OrderIsKept
<1>1. HybridInit => RankInv
  <2> SUFFICES ASSUME HybridInit
               PROVE  RankInv
    OBVIOUS
  <2>1. HybridInv
    BY DEF HybridInit, HybridInv, OutagesAreSurvived, NotDelivered
  <2>2. FramesAreNeat /\ OrderIsKept
    BY DEF HybridInit, FramesAreNeat, OrderIsKept, NotDelivered
  <2> QED
    BY <2>1, <2>2 DEF RankInv
<1>2. RankInv /\ HybridInv' /\ [HybridNext]_hybridVars => RankInv'
  <2> SUFFICES ASSUME RankInv, [HybridNext]_hybridVars
               PROVE  FramesAreNeat' /\ OrderIsKept'
    BY DEF RankInv
  <2> USE DEF RankInv
  <2>1. ASSUME NEW c \in HybridCalls, StartSearch(c)
        PROVE  FramesAreNeat' /\ OrderIsKept'
    <3>1. PICK f : frames' = <<f>> /\ Neat(f)
      BY <2>1, NewIsNeat DEF StartSearch
    <3>2. Len(frames') = 1 /\ frames'[1] = f
      BY <3>1
    <3>3. FramesAreNeat'
      BY <3>1, <3>2 DEF FramesAreNeat, Neat
    <3> QED
      BY <2>1, <3>3, NoneIsDelivered DEF StartSearch
  <2>2. CASE SourceAnswers
    <3>1. PICK hits \in HitsOf(Step) : Got(hits)
      BY <2>2 DEF SourceAnswers
    <3>2. frames # <<>> /\ UNCHANGED delivered /\ IsSequence(hits)
      BY <2>2, HitsAreSequences DEF SourceAnswers, Asking
    <3> QED
      BY <3>1, <3>2, GotKeepsNeat, NoneIsDelivered
  <2>3. CASE SourceRaises
    <3>1. frames # <<>> /\ (Raise \/ (Got(<<>>) /\ UNCHANGED delivered))
      BY <2>3 DEF SourceRaises, Asking
    <3>2. IsSequence(<<>>)
      BY EmptySeq DEF IsSequence
    <3> QED
      BY <3>1, <3>2, RaiseKeepsRank, GotKeepsNeat, NoneIsDelivered
  <2>4. CASE NextRound
    <3>1. frames # <<>> /\ UNCHANGED delivered
      BY <2>4 DEF NextRound, Answered
    <3>2. PICK f : f = Inner /\ Neat(f) /\ IsFrame(f)
      BY <3>1, FramesFacts
    <3>3. PICK left, round, lately, n :
            /\ n = [f EXCEPT !.left = left, !.round = round, !.lately = lately]
            /\ frames' = <<n>> \o Tail(frames)
      BY <2>4, <3>2 DEF NextRound
    <3>4. n.way = f.way /\ n.found = f.found
      <4>1. PICK w, l, r, fs, la, k, m :
              f = [way |-> w, left |-> l, round |-> r, found |-> fs, lately |-> la, known |-> k,
                   nested |-> m]
        BY <3>2 DEF IsFrame
      <4> QED
        BY <3>3, <4>1
    <3>5. Neat(n)
      BY <3>2, <3>4 DEF Neat
    <3> QED
      BY <3>1, <3>3, <3>5, FramesFacts, NoneIsDelivered
  <2>5. CASE Nested
    <3>1. frames # <<>> /\ UNCHANGED delivered /\ Inner.way = "enhanced"
      BY <2>5 DEF Nested, Answered
    <3>2. PICK f : f = Inner /\ Neat(f) /\ IsFrame(f)
      BY <3>1, FramesFacts
    <3>3. PICK c, x, n : n = [f EXCEPT !.nested = x] /\ frames' = <<SearchFrame(c), n>>
      BY <2>5, <3>2 DEF Nested
    <3>4. n.way = f.way /\ n.found = f.found
      <4>1. PICK w, l, r, fs, la, k, m :
              f = [way |-> w, left |-> l, round |-> r, found |-> fs, lately |-> la, known |-> k,
                   nested |-> m]
        BY <3>2 DEF IsFrame
      <4> QED
        BY <3>3, <4>1
    <3>5. Neat(n) /\ Neat(SearchFrame(c))
      BY <3>2, <3>4, NewIsNeat DEF Neat
    <3> QED
      BY <3>1, <3>3, <3>5, FramesFacts, NoneIsDelivered
  <2>6. CASE RelationsRaise
    BY <2>6, RaiseKeepsRank DEF RelationsRaise, Answered
  <2>7. CASE Deliver
    <3>1. frames # <<>> /\ frames' = Tail(frames)
      BY <2>7 DEF Deliver
    <3>2. Neat(Inner) /\ FramesAreNeat'
      BY <3>1, FramesFacts
    <3>3. CASE Len(frames) > 1
      BY <2>7, <3>2, <3>3, NoneIsDelivered DEF Deliver
    <3>4. CASE ~ Len(frames) > 1
      BY <2>7, <3>2, <3>4, DeliveredInOrder DEF Deliver
    <3> QED
      BY <3>3, <3>4
  <2>8. CASE UNCHANGED hybridVars
    <3>1. UNCHANGED frames /\ UNCHANGED delivered
      BY <2>8 DEF hybridVars
    <3> QED
      BY <3>1, NoneIsDelivered DEF FramesAreNeat, Neat
  <2> QED
    BY <2>1, <2>2, <2>3, <2>4, <2>5, <2>6, <2>7, <2>8 DEF HybridNext
<1>3. RankInv => OrderIsKept
  BY DEF RankInv
<1> QED
  BY <1>1, <1>2, <1>3, HybridInvariant, PTL DEF HybridSpec
=============================================================================
