---------------------------- MODULE DocumentIndex ----------------------------
(***************************************************************************)
(* The three copies of a document: its row in the table documents, its text *)
(* blob and its entry in the OpenSearch index.  Code: upsert_documents,     *)
(* delete_document, purge_site and reindex_existing_documents of            *)
(* services/api/src/store/search.rs.                                        *)
(*                                                                         *)
(* No transaction spans them: a call is a row of requests, each to one of   *)
(* the three stores and each a step here, and other calls run between them. *)
(* The projector calls upsert_documents for a page that succeeded and       *)
(* delete_document, up to three times, for a page that is gone; operators   *)
(* delete a document, and they and the blacklist purge a site.              *)
(*                                                                         *)
(* A page is both a URL and the id of its document, which is a hash of the  *)
(* URL.  A content stands for a body and its hash.  A host stands for itself *)
(* and its subdomains, the scope of a purge and of a canonical URL.         *)
(***************************************************************************)
EXTENDS Naturals, FiniteSets

CONSTANTS
  Pages,       \* URLs, and the ids of their documents
  HostOf,      \* host of a page
  Canonicals,  \* the canonical URLs a page may name, on its own host
  Contents,    \* page bodies
  Callers,     \* projection tasks and handlers
  NoPage,      \* duplicate_of is null
  NoRow,       \* no row in documents
  NoContent,   \* no blob, no index entry
  MaxCalls,    \* bound: calls ever started
  Hazards      \* which of the hazards below may happen

(* "overlap": a call starts while another one works on the same host.        *)
(* "failure": a call ends half-way, or a deletion of its has no effect.       *)
HazardKinds == {"overlap", "failure"}

ASSUME PagesAssumption ==
  /\ Canonicals \in [Pages -> SUBSET Pages]
  /\ \A p \in Pages : \A q \in Canonicals[p] : HostOf[q] = HostOf[p]
  /\ NoPage \notin Pages /\ NoContent \notin Contents

ASSUME BoundsAssumption ==
  /\ IsFiniteSet(Pages)
  /\ MaxCalls \in Nat
  /\ Hazards \subseteq HazardKinds

Rows == [canonical : Pages, hash : Contents, copy : Pages \cup {NoPage}]

ASSUME RowAssumption == NoRow \notin Rows

VARIABLES
  row,      \* table documents: canonical_url, content_hash, duplicate_of
  blob,     \* documents/<id>.txt in the blob store
  index,    \* the entries behind the OpenSearch aliases
  call,     \* what each caller is doing
  started,  \* calls so far
  torn,     \* pages a call that ended half-way may have left uneven
  raced     \* pages of hosts on which calls have overlapped

vars == <<row, blob, index, call, started, torn, raced>>

Steps == {"idle", "lookup", "blob", "row", "replace", "index",
          "select", "delete", "unindex", "unblob"}

Idle == [at |-> "idle"]

Init ==
  /\ row = [p \in Pages |-> NoRow]
  /\ blob = [p \in Pages |-> NoContent]
  /\ index = [p \in Pages |-> NoContent]
  /\ call = [c \in Callers |-> Idle]
  /\ started = 0
  /\ torn = {}
  /\ raced = {}

-----------------------------------------------------------------------------
(* A call.  rows are those whose blobs it has yet to delete, ids the index    *)
(* entries it will delete, alone says that no call has shared its host.       *)

NewCall(op, at, p, content, canonical, alone) ==
  [op |-> op, at |-> at, page |-> p, content |-> content,
   canonical |-> canonical, copy |-> NoPage, rows |-> {}, ids |-> {},
   alone |-> alone]

At(c, step) == call[c].at = step

PagesOf(p) == {q \in Pages : HostOf[q] = HostOf[p]}

WorkingOn(p) ==
  {c \in Callers : ~At(c, "idle") /\ HostOf[call[c].page] = HostOf[p]}

Begin(c, p, k) ==
  /\ At(c, "idle")
  /\ started < MaxCalls
  /\ WorkingOn(p) = {} \/ "overlap" \in Hazards
  /\ call' = [d \in Callers |->
                IF d = c THEN k
                ELSE IF d \in WorkingOn(p) THEN [call[d] EXCEPT !.alone = FALSE]
                ELSE call[d]]
  /\ raced' = IF WorkingOn(p) = {} THEN raced ELSE raced \cup PagesOf(p)
  /\ started' = started + 1
  /\ UNCHANGED <<row, blob, index, torn>>

BeginUpsert(c) ==
  \E p \in Pages : \E q \in Canonicals[p] : \E content \in Contents :
    Begin(c, p, NewCall("upsert", "lookup", p, content, q, WorkingOn(p) = {}))

BeginRemoval(c) ==
  \E p \in Pages : \E op \in {"delete", "purge"} :
    Begin(c, p, NewCall(op, "select", p, NoContent, p, WorkingOn(p) = {}))

\* An upsert that nothing disturbed has written its page everywhere.
Return(c) ==
  LET settled == IF call[c].op = "upsert" /\ call[c].alone
                 THEN {call[c].page} ELSE {}
  IN /\ call' = [call EXCEPT ![c] = Idle]
     /\ torn' = torn \ settled
     /\ raced' = raced \ settled

Continue(c, k) ==
  /\ call' = [call EXCEPT ![c] = k]
  /\ UNCHANGED <<torn, raced>>

Without(f, ps, none) == [p \in Pages |-> IF p \in ps THEN none ELSE f[p]]

-----------------------------------------------------------------------------
(* upsert_documents for one document                                          *)

\* Mutant of CopiesOf: the document itself is not left out.
CopiesOf_Itself(p, content) ==
  {q \in Pages : row[q] # NoRow /\ row[q].hash = content /\ row[q].copy = NoPage}

\* Other documents with the same content that are not duplicates themselves.
CopiesOf(p, content) ==
  {q \in Pages \ {p} : /\ row[q] # NoRow
                       /\ row[q].hash = content
                       /\ row[q].copy = NoPage}

LookUpCopy(c) ==
  /\ At(c, "lookup")
  /\ LET copies == CopiesOf(call[c].page, call[c].content)
     IN \E q \in IF copies = {} THEN {NoPage} ELSE copies :
          Continue(c, [call[c] EXCEPT !.at = "blob", !.copy = q])
  /\ UNCHANGED <<row, blob, index, started>>

WriteBlob(c) ==
  /\ At(c, "blob")
  /\ blob' = [blob EXCEPT ![call[c].page] = call[c].content]
  /\ Continue(c, [call[c] EXCEPT !.at = "row"])
  /\ UNCHANGED <<row, index, started>>

\* Mutant of PersistRow: a document that became a duplicate stays in the index.
PersistRow_StaysIndexed(c) ==
  LET k == call[c] IN
  /\ At(c, "row")
  /\ row' = [row EXCEPT ![k.page] =
               [canonical |-> k.canonical, hash |-> k.content, copy |-> k.copy]]
  /\ IF k.copy = NoPage THEN Continue(c, [k EXCEPT !.at = "replace"])
                        ELSE Return(c)
  /\ UNCHANGED <<blob, index, started>>

\* A duplicate replaces nothing and is taken out of the index.
PersistRow(c) ==
  LET k == call[c] IN
  /\ At(c, "row")
  /\ row' = [row EXCEPT ![k.page] =
               [canonical |-> k.canonical, hash |-> k.content, copy |-> k.copy]]
  /\ Continue(c, IF k.copy = NoPage
                 THEN [k EXCEPT !.at = "replace"]
                 ELSE [k EXCEPT !.at = "unindex", !.ids = {k.page}])
  /\ UNCHANGED <<blob, index, started>>

\* Mutant of TwinsOf: compares with the page's own URL.
TwinsOf_OwnUrl(p, canonical) ==
  {q \in Pages \ {p} : /\ row[q] # NoRow
                       /\ row[q].canonical = p
                       /\ row[q].copy = NoPage}

\* The other documents of a canonical URL.
TwinsOf(p, canonical) ==
  {q \in Pages \ {p} : /\ row[q] # NoRow
                       /\ row[q].canonical = canonical
                       /\ row[q].copy = NoPage}

ReplaceTwins(c) ==
  LET k == call[c]
      twins == TwinsOf(k.page, k.canonical)
  IN /\ At(c, "replace")
     /\ row' = Without(row, twins, NoRow)
     /\ Continue(c, [k EXCEPT !.at = IF twins = {} THEN "index" ELSE "unblob",
                              !.rows = twins, !.ids = twins])
     /\ UNCHANGED <<blob, index, started>>

IndexDocument(c) ==
  /\ At(c, "index")
  /\ index' = [index EXCEPT ![call[c].page] = call[c].content]
  /\ IF call[c].ids = {} THEN Return(c)
                         ELSE Continue(c, [call[c] EXCEPT !.at = "unindex"])
  /\ UNCHANGED <<row, blob, started>>

-----------------------------------------------------------------------------
(* delete_document and purge_site                                             *)

Targets(k) == IF k.op = "purge" THEN PagesOf(k.page) ELSE {k.page}

Selected(k) == {p \in Targets(k) : row[p] # NoRow}

SelectRows(c) ==
  /\ At(c, "select")
  /\ Continue(c, [call[c] EXCEPT !.at = "delete", !.rows = Selected(call[c])])
  /\ UNCHANGED <<row, blob, index, started>>

\* delete_document goes on if its row was there, purge_site if it selected any.
Deleted(k) == IF k.op = "purge" THEN k.rows ELSE Selected(k)

DeleteRows(c) ==
  LET k == call[c] IN
  /\ At(c, "delete")
  /\ row' = Without(row, Targets(k), NoRow)
  /\ IF Deleted(k) = {} THEN Return(c)
     ELSE Continue(c, [k EXCEPT !.at = "unindex", !.ids = Deleted(k)])
  /\ UNCHANGED <<blob, index, started>>

\* An upsert deletes its blobs before it indexes, a removal after.
RemoveEntries(c) ==
  LET k == call[c] IN
  /\ At(c, "unindex")
  /\ index' = Without(index, k.ids, NoContent)
  /\ IF k.rows = {} THEN Return(c)
     ELSE Continue(c, [k EXCEPT !.at = "unblob"])
  /\ UNCHANGED <<row, blob, started>>

\* Mutant of RemoveBlob: the key is made from the id of the new document.
RemoveBlob_OwnKey(c) ==
  /\ At(c, "unblob")
  /\ \E p \in call[c].rows :
       LET k == [call[c] EXCEPT !.rows = @ \ {p}] IN
       /\ blob' = Without(blob, {k.page}, NoContent)
       /\ IF k.rows # {} THEN Continue(c, k)
          ELSE IF k.op = "upsert" THEN Continue(c, [k EXCEPT !.at = "index"])
          ELSE Return(c)
  /\ UNCHANGED <<row, index, started>>

RemoveBlob(c) ==
  /\ At(c, "unblob")
  /\ \E p \in call[c].rows :
       LET k == [call[c] EXCEPT !.rows = @ \ {p}] IN
       /\ blob' = Without(blob, {p}, NoContent)
       /\ IF k.rows # {} THEN Continue(c, k)
          ELSE IF k.op = "upsert" THEN Continue(c, [k EXCEPT !.at = "index"])
          ELSE Return(c)
  /\ UNCHANGED <<row, index, started>>

-----------------------------------------------------------------------------
(* Failures                                                                   *)

Touched(k) == Targets(k) \cup k.rows \cup k.ids

\* An error is returned, the future is dropped, or the process ends.
Fail(c) ==
  /\ "failure" \in Hazards
  /\ ~At(c, "idle")
  /\ torn' = torn \cup Touched(call[c])
  /\ call' = [call EXCEPT ![c] = Idle]
  /\ UNCHANGED <<row, blob, index, started, raced>>

\* Deletions from the index that fail are logged and passed over.
RemoveEntriesFails(c) ==
  LET k == call[c] IN
  /\ "failure" \in Hazards
  /\ At(c, "unindex")
  /\ \E failed \in SUBSET k.ids \ {{}} :
       /\ index' = Without(index, k.ids \ failed, NoContent)
       /\ torn' = torn \cup failed
  /\ call' = [call EXCEPT ![c] = IF k.rows = {} THEN Idle
                                 ELSE [k EXCEPT !.at = "unblob"]]
  /\ UNCHANGED <<row, blob, started, raced>>

\* So is the deletion of a blob.
RemoveBlobFails(c) ==
  /\ "failure" \in Hazards
  /\ At(c, "unblob")
  /\ \E p \in call[c].rows :
       LET k == [call[c] EXCEPT !.rows = @ \ {p}] IN
       /\ call' = [call EXCEPT ![c] =
                     IF k.rows # {} THEN k
                     ELSE IF k.op = "upsert" THEN [k EXCEPT !.at = "index"]
                     ELSE Idle]
       /\ torn' = torn \cup {p}
  /\ UNCHANGED <<row, blob, index, started, raced>>

-----------------------------------------------------------------------------
(* bootstrap, before any of the services that call the above is up            *)

Searchable == {p \in Pages : row[p] # NoRow /\ row[p].copy = NoPage}

Indexed == {p \in Pages : index[p] # NoContent}

ReindexExisting ==
  /\ \A c \in Callers : At(c, "idle")
  /\ Cardinality(Indexed) < Cardinality(Searchable)
  /\ \A p \in Searchable : blob[p] # NoContent
  /\ index' = [p \in Pages |-> IF p \in Searchable THEN blob[p] ELSE index[p]]
  /\ UNCHANGED <<row, blob, call, started, torn, raced>>

UpsertStep(c) ==
  \/ BeginUpsert(c)
  \/ LookUpCopy(c)
  \/ WriteBlob(c)
  \/ PersistRow(c)
  \/ ReplaceTwins(c)
  \/ IndexDocument(c)

RemovalStep(c) ==
  \/ BeginRemoval(c)
  \/ SelectRows(c)
  \/ DeleteRows(c)
  \/ RemoveEntries(c)
  \/ RemoveBlob(c)

FailureStep(c) == Fail(c) \/ RemoveEntriesFails(c) \/ RemoveBlobFails(c)

Next ==
  \/ \E c \in Callers : UpsertStep(c) \/ RemovalStep(c) \/ FailureStep(c)
  \/ ReindexExisting

Spec == Init /\ [][Next]_vars

-----------------------------------------------------------------------------
(* Properties                                                                 *)

CallTypes ==
  [op : {"upsert", "delete", "purge"}, at : Steps \ {"idle"}, page : Pages,
   content : Contents \cup {NoContent}, canonical : Pages,
   copy : Pages \cup {NoPage}, rows : SUBSET Pages, ids : SUBSET Pages,
   alone : BOOLEAN]

\* Types, and no document is recorded as a duplicate of itself: the lookup of
\* upsert_documents leaves out the document's own id.
TypeOK ==
  /\ row \in [Pages -> Rows \cup {NoRow}]
  /\ \A p \in Pages : row[p] # NoRow => row[p].copy # p
  /\ blob \in [Pages -> Contents \cup {NoContent}]
  /\ index \in [Pages -> Contents \cup {NoContent}]
  /\ call \in [Callers -> CallTypes \cup {Idle}]
  /\ started \in 0 .. MaxCalls
  /\ torn \subseteq Pages
  /\ raced \subseteq Pages

\* Between the calls on its host, a document that no call has left half-way or
\* shared is the same in all three stores: without a row it has neither blob nor
\* index entry, a duplicate has a blob but no entry, and any other document has
\* the content of its row in both.  An upsert that completes alone restores this
\* for its page, whatever happened to the page before.
CopiesAgree ==
  \A p \in Pages \ (torn \cup raced) :
    WorkingOn(p) = {} =>
      IF row[p] = NoRow THEN blob[p] = NoContent /\ index[p] = NoContent
      ELSE /\ blob[p] = row[p].hash
           /\ index[p] = IF row[p].copy = NoPage THEN row[p].hash
                         ELSE NoContent

\* The reindex of bootstrap, which stops at the first document whose blob is
\* missing, never meets one: upsert_documents writes the blob before the row and
\* deletes it after, so a call that ends half-way leaves a blob too many and
\* never one too few.  Only calls that overlap on a host can.
BlobBeforeRow ==
  \A p \in Pages \ raced : row[p] # NoRow => blob[p] # NoContent

\* However the calls overlap, a canonical URL is served by one document: when
\* two rows that are not duplicates name it, the upsert of one of them has yet to
\* delete the other, or ended before it could.
OneRowPerCanonical ==
  \A p, q \in Searchable \ torn :
    p # q /\ row[p].canonical = row[q].canonical =>
      \E c \in Callers : At(c, "replace") /\ call[c].page \in {p, q}

\* "Successful documents are written to PostgreSQL metadata tables, document
\* blobs, and versioned OpenSearch aliases" (docs/architecture.md): between
\* calls, what a stored document says can be found, in its own index entry or in
\* that of the document it duplicates.
ContentSearchable ==
  (\A c \in Callers : At(c, "idle")) =>
    \A p \in Pages : row[p] # NoRow =>
      \E q \in Pages : index[q] = row[p].hash
=============================================================================
