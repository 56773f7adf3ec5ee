-------------------------- MODULE DocumentIndexProofs --------------------------
(***************************************************************************)
(* Proofs about DocumentIndex.                                              *)
(*                                                                         *)
(* A call is either alone on its host or its host is raced (Apart).  What a *)
(* call that is alone has written so far is still there (CallsTraced),      *)
(* because the steps of any other call change pages of another host         *)
(* (StepMoves).  The pages it has not come to, and those of hosts without a *)
(* call, agree in the three stores (AgreeOutside).  That two documents name *)
(* one canonical URL only while one of them has yet to delete the other     *)
(* needs no host to be undisturbed (TwinsReplaced).                         *)
(***************************************************************************)
EXTENDS DocumentIndex, TLAPS

Working(c) == ~At(c, "idle")

AfterReplace == {"unblob", "index", "unindex"}

\* What a call carries at each of its steps.
CallOK(k) ==
  /\ k \in CallTypes
  /\ k.copy # k.page
  /\ HostOf[k.canonical] = HostOf[k.page]
  /\ k.rows \subseteq PagesOf(k.page)
  /\ k.ids \subseteq PagesOf(k.page)
  /\ k.op = "upsert" => k.content \in Contents /\ k.at \notin {"select", "delete"}
  /\ k.at \in {"lookup", "blob", "row", "replace", "index"} => k.op = "upsert"
  /\ k.at \in {"lookup", "blob", "row", "replace", "select"} =>
       k.rows = {} /\ k.ids = {}
  /\ k.at \in {"replace", "index"} => k.copy = NoPage
  /\ k.op = "upsert" /\ k.at = "unblob" => k.copy = NoPage
  /\ k.op = "upsert" /\ k.at \in {"index", "unindex"} => k.rows = {}
  /\ k.op = "upsert" /\ k.at \in AfterReplace =>
       IF k.copy = NoPage THEN k.page \notin k.ids ELSE k.ids = {k.page}

CallsOK == \A c \in Callers : Working(c) => CallOK(call[c])

RowsOK == \A p \in Pages : row[p] # NoRow => HostOf[row[p].canonical] = HostOf[p]

\* Two calls on a host know of each other, and their host is raced.
Apart ==
  \A c \in Callers : Working(c) =>
    /\ call[c].alone => WorkingOn(call[c].page) = {c}
    /\ ~call[c].alone => PagesOf(call[c].page) \subseteq raced

Written(k) == [canonical |-> k.canonical, hash |-> k.content, copy |-> k.copy]

\* What a call that is alone on its host has done so far.
TracedUpsert(k) ==
  /\ k.at \in {"row", "replace"} \cup AfterReplace => blob[k.page] = k.content
  /\ k.at \in {"replace"} \cup AfterReplace => row[k.page] = Written(k)
  /\ k.at \in AfterReplace /\ k.copy = NoPage =>
       /\ k.rows \subseteq k.ids
       /\ TwinsOf(k.page, k.canonical) = {}
       /\ \A q \in k.ids : /\ row[q] = NoRow
                           /\ q \notin k.rows \cup torn => blob[q] = NoContent
  /\ k.at = "unindex" /\ k.copy = NoPage => index[k.page] = k.content

TracedRemoval(k) ==
  /\ k.at = "delete" => k.rows = Selected(k)
  /\ k.at = "unindex" => k.rows = k.ids
  /\ k.at \in {"unindex", "unblob"} =>
       /\ k.rows \subseteq k.ids
       /\ \A q \in k.ids : /\ row[q] = NoRow
                           /\ q \notin k.rows \cup torn => blob[q] = NoContent
  /\ k.at = "unblob" => \A q \in k.ids \ torn : index[q] = NoContent

Traced(k) == IF k.op = "upsert" THEN TracedUpsert(k) ELSE TracedRemoval(k)

CallsTraced ==
  \A c \in Callers : Working(c) /\ call[c].alone => Traced(call[c])

\* The pages on which a call may have left the stores uneven so far.
Disturbed(k) ==
  IF k.at \in {"lookup", "blob", "select", "delete"} THEN {}
  ELSE IF k.op = "upsert" THEN {k.page} \cup k.ids
  ELSE k.ids

Agrees(p) ==
  IF row[p] = NoRow THEN blob[p] = NoContent /\ index[p] = NoContent
  ELSE /\ blob[p] = row[p].hash
       /\ index[p] = IF row[p].copy = NoPage THEN row[p].hash ELSE NoContent

Undisturbed(p) == \A c \in WorkingOn(p) : p \notin Disturbed(call[c])

AgreeOutside ==
  \A p \in Pages \ (torn \cup raced) : Undisturbed(p) => Agrees(p)

Replacing(p, q) ==
  \E c \in Callers : /\ At(c, "replace")
                     /\ call[c].page \in {p, q}
                     /\ call[c].canonical = row[p].canonical

TwinsReplaced ==
  \A p, q \in Searchable \ torn :
    p # q /\ row[p].canonical = row[q].canonical => Replacing(p, q)

TypeInv == TypeOK /\ CallsOK /\ RowsOK

-----------------------------------------------------------------------------
(* Types                                                                      *)

LEMMA WorkingCall ==
  ASSUME TypeInv, NEW c \in Callers, Working(c)
  PROVE  CallOK(call[c]) /\ call[c] \in CallTypes
BY DEF TypeInv, CallsOK, CallOK

\* The updates of a call in the actions.
LEMMA Updates ==
  ASSUME NEW k, CallOK(k)
  PROVE  /\ CallOK([k EXCEPT !.alone = FALSE])
         /\ k.at = "lookup" => \A q \in (Pages \cup {NoPage}) \ {k.page} :
              CallOK([k EXCEPT !.at = "blob", !.copy = q])
         /\ k.at = "blob" => CallOK([k EXCEPT !.at = "row"])
         /\ k.at = "row" /\ k.copy = NoPage => CallOK([k EXCEPT !.at = "replace"])
         /\ k.at = "row" /\ k.copy # NoPage =>
              CallOK([k EXCEPT !.at = "unindex", !.ids = {k.page}])
         /\ k.at = "replace" =>
              /\ \A qs \in SUBSET (PagesOf(k.page) \ {k.page}) :
                   CallOK([k EXCEPT !.at = "unblob", !.rows = qs, !.ids = qs])
              /\ CallOK([k EXCEPT !.at = "index", !.rows = {}, !.ids = {}])
         /\ k.at = "index" => CallOK([k EXCEPT !.at = "unindex"])
         /\ k.at = "select" => \A qs \in SUBSET PagesOf(k.page) :
              CallOK([k EXCEPT !.at = "delete", !.rows = qs])
         /\ k.at = "delete" => \A qs \in SUBSET PagesOf(k.page) :
              CallOK([k EXCEPT !.at = "unindex", !.ids = qs])
         /\ k.at = "unindex" /\ k.rows # {} => CallOK([k EXCEPT !.at = "unblob"])
         /\ k.at = "unblob" => \A q :
              /\ CallOK([k EXCEPT !.rows = @ \ {q}])
              /\ k.op = "upsert" /\ k.rows \ {q} = {} =>
                   CallOK([[k EXCEPT !.rows = @ \ {q}] EXCEPT !.at = "index"])
<1> USE DEF CallOK, CallTypes, Steps, AfterReplace, PagesOf
<1>1. CallOK([k EXCEPT !.alone = FALSE])
  OBVIOUS
<1>2. ASSUME k.at = "lookup", NEW q \in (Pages \cup {NoPage}) \ {k.page}
      PROVE  CallOK([k EXCEPT !.at = "blob", !.copy = q])
  BY <1>2
<1>3. ASSUME k.at = "blob" PROVE CallOK([k EXCEPT !.at = "row"])
  BY <1>3
<1>4. ASSUME k.at = "row", k.copy = NoPage
      PROVE  CallOK([k EXCEPT !.at = "replace"])
  BY <1>4
<1>5. ASSUME k.at = "row", k.copy # NoPage
      PROVE  CallOK([k EXCEPT !.at = "unindex", !.ids = {k.page}])
  BY <1>5
<1>6. ASSUME k.at = "replace", NEW qs \in SUBSET (PagesOf(k.page) \ {k.page})
      PROVE  CallOK([k EXCEPT !.at = "unblob", !.rows = qs, !.ids = qs])
  BY <1>6
<1>7. ASSUME k.at = "replace"
      PROVE  CallOK([k EXCEPT !.at = "index", !.rows = {}, !.ids = {}])
  BY <1>7
<1>8. ASSUME k.at = "index" PROVE CallOK([k EXCEPT !.at = "unindex"])
  BY <1>8
<1>9. ASSUME k.at = "select", NEW qs \in SUBSET PagesOf(k.page)
      PROVE  CallOK([k EXCEPT !.at = "delete", !.rows = qs])
  BY <1>9
<1>10. ASSUME k.at = "delete", NEW qs \in SUBSET PagesOf(k.page)
       PROVE  CallOK([k EXCEPT !.at = "unindex", !.ids = qs])
  BY <1>10
<1>11. ASSUME k.at = "unindex", k.rows # {}
       PROVE  CallOK([k EXCEPT !.at = "unblob"])
  BY <1>11
<1>12. ASSUME k.at = "unblob", NEW q
       PROVE  /\ CallOK([k EXCEPT !.rows = @ \ {q}])
              /\ k.op = "upsert" /\ k.rows \ {q} = {} =>
                   CallOK([[k EXCEPT !.rows = @ \ {q}] EXCEPT !.at = "index"])
  BY <1>12
<1> HIDE DEF CallOK, CallTypes, Steps, AfterReplace, PagesOf
<1> QED
  BY <1>1, <1>2, <1>3, <1>4, <1>5, <1>6, <1>7, <1>8, <1>9, <1>10, <1>11, <1>12

LEMMA CallUpdated ==
  ASSUME TypeInv, NEW c \in Callers, NEW x, x = Idle \/ CallOK(x),
         call' = [call EXCEPT ![c] = x]
  PROVE  call' \in [Callers -> CallTypes \cup {Idle}] /\ CallsOK'
<1>1. call \in [Callers -> CallTypes \cup {Idle}]
  BY DEF TypeInv, TypeOK
<1>2. x \in CallTypes \cup {Idle}
  BY DEF CallOK
<1>3. ASSUME NEW d \in Callers, Working(d)' PROVE CallOK(call'[d])
  <2>1. CASE d = c
    <3>1. call'[d] = x
      BY <2>1, <1>1
    <3>2. x # Idle
      BY <3>1, <1>3 DEF Working, At, Idle
    <3> QED BY <3>1, <3>2
  <2>2. CASE d # c
    BY <2>2, <1>1, <1>3 DEF TypeInv, CallsOK, Working, At
  <2> QED BY <2>1, <2>2
<1> QED BY <1>1, <1>2, <1>3 DEF CallsOK, Working, At

LEMMA Continues ==
  ASSUME TypeInv, NEW c \in Callers, NEW x, CallOK(x), Continue(c, x)
  PROVE  /\ call' \in [Callers -> CallTypes \cup {Idle}] /\ CallsOK'
         /\ torn' \subseteq Pages /\ raced' \subseteq Pages
BY CallUpdated DEF Continue, TypeInv, TypeOK

LEMMA Returns ==
  ASSUME TypeInv, NEW c \in Callers, Return(c)
  PROVE  /\ call' \in [Callers -> CallTypes \cup {Idle}] /\ CallsOK'
         /\ torn' \subseteq Pages /\ raced' \subseteq Pages
BY CallUpdated DEF Return, TypeInv, TypeOK

LEMMA Begins ==
  ASSUME TypeInv, NEW c \in Callers, NEW p \in Pages, NEW k, CallOK(k), Begin(c, p, k)
  PROVE  TypeInv'
<1>1. call \in [Callers -> CallTypes \cup {Idle}]
  BY DEF TypeInv, TypeOK
<1>2. ASSUME NEW d \in Callers
      PROVE  call'[d] = Idle \/ CallOK(call'[d])
  <2>1. CASE d = c
    BY <2>1 DEF Begin
  <2>2. CASE d # c /\ d \in WorkingOn(p)
    <3>1. CallOK(call[d])
      BY <2>2, WorkingCall DEF WorkingOn, Working
    <3>2. call'[d] = [call[d] EXCEPT !.alone = FALSE]
      BY <2>2 DEF Begin
    <3>3. CallOK([call[d] EXCEPT !.alone = FALSE])
      BY <3>1, Updates
    <3> QED BY <3>2, <3>3
  <2>3. CASE d # c /\ d \notin WorkingOn(p)
    <3>1. call'[d] = call[d]
      BY <2>3 DEF Begin
    <3>2. CASE Working(d)
      BY <3>1, <3>2, WorkingCall
    <3>3. CASE ~Working(d)
      <4>1. call[d] \in CallTypes \cup {Idle} /\ call[d].at = "idle"
        BY <3>3, <1>1 DEF Working, At
      <4>2. call[d] \notin CallTypes
        BY <4>1 DEF CallTypes
      <4>3. call[d] = Idle
        BY <4>1, <4>2
      <4> QED BY <3>1, <4>3
    <3> QED BY <3>2, <3>3
  <2> QED BY <2>1, <2>2, <2>3
<1>3. call' \in [Callers -> CallTypes \cup {Idle}] /\ CallsOK'
  <2>1. DOMAIN call' = Callers /\ call' = [d \in Callers |-> call'[d]]
    BY DEF Begin
  <2> QED BY <1>2, <2>1 DEF CallsOK, CallOK, Working, At, Idle
<1>4. started' \in 0 .. MaxCalls
  BY BoundsAssumption DEF Begin, TypeInv, TypeOK
<1> QED BY <1>3, <1>4 DEF Begin, TypeInv, TypeOK, RowsOK, PagesOf

LEMMA InitTyped == Init => TypeInv
BY BoundsAssumption
   DEF Init, TypeInv, TypeOK, CallsOK, RowsOK, Working, At, Idle, CallTypes, Steps

LEMMA BeginTyped ==
  ASSUME TypeInv, NEW c \in Callers, BeginUpsert(c) \/ BeginRemoval(c)
  PROVE  TypeInv'
<1>1. ASSUME NEW p \in Pages, NEW q \in Canonicals[p], NEW content \in Contents,
             Begin(c, p, NewCall("upsert", "lookup", p, content, q, WorkingOn(p) = {}))
      PROVE  TypeInv'
  <2>1. CallOK(NewCall("upsert", "lookup", p, content, q, WorkingOn(p) = {}))
    BY PagesAssumption DEF CallOK, CallTypes, Steps, NewCall, AfterReplace
  <2> QED BY <1>1, <2>1, Begins
<1>2. ASSUME NEW p \in Pages, NEW op \in {"delete", "purge"},
             Begin(c, p, NewCall(op, "select", p, NoContent, p, WorkingOn(p) = {}))
      PROVE  TypeInv'
  <2>1. CallOK(NewCall(op, "select", p, NoContent, p, WorkingOn(p) = {}))
    BY PagesAssumption DEF CallOK, CallTypes, Steps, NewCall, AfterReplace
  <2> QED BY <1>2, <2>1, Begins
<1> QED BY <1>1, <1>2 DEF BeginUpsert, BeginRemoval

LEMMA LookUpTyped ==
  ASSUME TypeInv, NEW c \in Callers, LookUpCopy(c)
  PROVE  TypeInv'
<1>1. CallOK(call[c])
  BY WorkingCall DEF LookUpCopy, Working, At
<1>2. PICK q \in (Pages \cup {NoPage}) \ {call[c].page} :
        Continue(c, [call[c] EXCEPT !.at = "blob", !.copy = q])
  BY <1>1, PagesAssumption
     DEF LookUpCopy, CopiesOf, CallOK, CallTypes
<1>3. CallOK([call[c] EXCEPT !.at = "blob", !.copy = q])
  BY <1>1, Updates DEF LookUpCopy, At
<1> QED BY <1>2, <1>3, Continues DEF LookUpCopy, TypeInv, TypeOK, RowsOK

LEMMA WriteBlobTyped ==
  ASSUME TypeInv, NEW c \in Callers, WriteBlob(c)
  PROVE  TypeInv'
<1>1. CallOK(call[c])
  BY WorkingCall DEF WriteBlob, Working, At
<1>2. CallOK([call[c] EXCEPT !.at = "row"])
  BY <1>1, Updates DEF WriteBlob, At
<1>3. call[c].content \in Contents
  BY <1>1 DEF WriteBlob, At, CallOK
<1> QED BY <1>2, <1>3, Continues DEF WriteBlob, TypeInv, TypeOK, RowsOK

LEMMA PersistRowTyped ==
  ASSUME TypeInv, NEW c \in Callers, PersistRow(c)
  PROVE  TypeInv'
<1> DEFINE k == call[c]
           r == [canonical |-> k.canonical, hash |-> k.content, copy |-> k.copy]
<1>1. CallOK(k)
  BY WorkingCall DEF PersistRow, Working, At
<1>2. r \in Rows /\ r.copy # k.page /\ HostOf[r.canonical] = HostOf[k.page]
      /\ k.page \in Pages
  BY <1>1 DEF PersistRow, At, CallOK, CallTypes, Rows
<1>3. row' = [row EXCEPT ![k.page] = r]
  BY DEF PersistRow
<1>4. PICK x : CallOK(x) /\ Continue(c, x)
  <2>1. CASE k.copy = NoPage
    BY <1>1, <2>1, Updates DEF PersistRow, At
  <2>2. CASE k.copy # NoPage
    BY <1>1, <2>2, Updates DEF PersistRow, At
  <2> QED BY <2>1, <2>2
<1>5. /\ row' \in [Pages -> Rows \cup {NoRow}]
      /\ \A p \in Pages : row'[p] # NoRow => row'[p].copy # p
      /\ \A p \in Pages : row'[p] # NoRow => HostOf[row'[p].canonical] = HostOf[p]
  BY <1>2, <1>3 DEF TypeInv, TypeOK, RowsOK
<1> QED BY <1>4, <1>5, Continues DEF PersistRow, TypeInv, TypeOK, RowsOK

LEMMA WithoutRows ==
  ASSUME TypeInv, NEW qs, row' = Without(row, qs, NoRow)
  PROVE  /\ row' \in [Pages -> Rows \cup {NoRow}]
         /\ \A p \in Pages : row'[p] # NoRow => row'[p].copy # p
         /\ RowsOK'
BY DEF Without, TypeInv, TypeOK, RowsOK

LEMMA WithoutContents ==
  ASSUME NEW f \in [Pages -> Contents \cup {NoContent}], NEW qs
  PROVE  Without(f, qs, NoContent) \in [Pages -> Contents \cup {NoContent}]
BY DEF Without

LEMMA TwinsOnHost ==
  ASSUME TypeInv, NEW k, CallOK(k)
  PROVE  TwinsOf(k.page, k.canonical) \in SUBSET (PagesOf(k.page) \ {k.page})
BY DEF TwinsOf, PagesOf, TypeInv, RowsOK, CallOK

LEMMA ReplaceTwinsTyped ==
  ASSUME TypeInv, NEW c \in Callers, ReplaceTwins(c)
  PROVE  TypeInv'
<1> DEFINE k == call[c]
           twins == TwinsOf(k.page, k.canonical)
<1>1. CallOK(k) /\ k.at = "replace"
  BY WorkingCall DEF ReplaceTwins, Working, At
<1>2. twins \in SUBSET (PagesOf(k.page) \ {k.page})
  BY <1>1, TwinsOnHost
<1>3. PICK x : CallOK(x) /\ Continue(c, x)
  <2> HIDE DEF k
  <2>1. Continue(c, [k EXCEPT !.at = IF twins = {} THEN "index" ELSE "unblob",
                              !.rows = twins, !.ids = twins])
    BY DEF ReplaceTwins, k
  <2>2. CASE twins = {}
    BY <1>1, <2>1, <2>2, Updates
  <2>3. CASE twins # {}
    BY <1>1, <1>2, <2>1, <2>3, Updates
  <2> QED BY <2>2, <2>3
<1>4. row' = Without(row, twins, NoRow)
  BY DEF ReplaceTwins
<1> QED
  BY <1>3, <1>4, Continues, WithoutRows DEF ReplaceTwins, TypeInv, TypeOK

LEMMA IndexDocumentTyped ==
  ASSUME TypeInv, NEW c \in Callers, IndexDocument(c)
  PROVE  TypeInv'
<1>1. CallOK(call[c])
  BY WorkingCall DEF IndexDocument, Working, At
<1>2. CallOK([call[c] EXCEPT !.at = "unindex"])
  BY <1>1, Updates DEF IndexDocument, At
<1>3. call[c].content \in Contents
  BY <1>1 DEF IndexDocument, At, CallOK
<1>4. /\ call' \in [Callers -> CallTypes \cup {Idle}] /\ CallsOK'
      /\ torn' \subseteq Pages /\ raced' \subseteq Pages
  BY <1>2, Continues, Returns DEF IndexDocument
<1> QED BY <1>3, <1>4 DEF IndexDocument, TypeInv, TypeOK, RowsOK

LEMMA SelectRowsTyped ==
  ASSUME TypeInv, NEW c \in Callers, SelectRows(c)
  PROVE  TypeInv'
<1>1. CallOK(call[c])
  BY WorkingCall DEF SelectRows, Working, At
<1>2. Selected(call[c]) \in SUBSET PagesOf(call[c].page)
  BY <1>1 DEF Selected, Targets, PagesOf, CallOK, CallTypes
<1>3. CallOK([call[c] EXCEPT !.at = "delete", !.rows = Selected(call[c])])
  BY <1>1, <1>2, Updates DEF SelectRows, At
<1> QED BY <1>3, Continues DEF SelectRows, TypeInv, TypeOK, RowsOK

LEMMA DeleteRowsTyped ==
  ASSUME TypeInv, NEW c \in Callers, DeleteRows(c)
  PROVE  TypeInv'
<1> DEFINE k == call[c]
<1>1. CallOK(k)
  BY WorkingCall DEF DeleteRows, Working, At
<1>2. Deleted(k) \in SUBSET PagesOf(k.page)
  BY <1>1 DEF Deleted, Selected, Targets, PagesOf, CallOK, CallTypes
<1>3. CallOK([k EXCEPT !.at = "unindex", !.ids = Deleted(k)])
  BY <1>1, <1>2, Updates DEF DeleteRows, At
<1>4. /\ call' \in [Callers -> CallTypes \cup {Idle}] /\ CallsOK'
      /\ torn' \subseteq Pages /\ raced' \subseteq Pages
  BY <1>3, Continues, Returns DEF DeleteRows
<1>5. row' = Without(row, Targets(k), NoRow)
  BY DEF DeleteRows
<1> QED BY <1>4, <1>5, WithoutRows DEF DeleteRows, TypeInv, TypeOK

LEMMA RemoveEntriesTyped ==
  ASSUME TypeInv, NEW c \in Callers, RemoveEntries(c)
  PROVE  TypeInv'
<1>1. CallOK(call[c])
  BY WorkingCall DEF RemoveEntries, Working, At
<1>2. call[c].rows # {} => CallOK([call[c] EXCEPT !.at = "unblob"])
  BY <1>1, Updates DEF RemoveEntries, At
<1>3. /\ call' \in [Callers -> CallTypes \cup {Idle}] /\ CallsOK'
      /\ torn' \subseteq Pages /\ raced' \subseteq Pages
  BY <1>2, Continues, Returns DEF RemoveEntries
<1>4. index' \in [Pages -> Contents \cup {NoContent}]
  BY WithoutContents DEF RemoveEntries, TypeInv, TypeOK
<1> QED BY <1>3, <1>4 DEF RemoveEntries, TypeInv, TypeOK, RowsOK

LEMMA RemoveBlobTyped ==
  ASSUME TypeInv, NEW c \in Callers, RemoveBlob(c)
  PROVE  TypeInv'
<1>1. CallOK(call[c])
  BY WorkingCall DEF RemoveBlob, Working, At
<1>2. PICK p \in call[c].rows :
        LET k == [call[c] EXCEPT !.rows = @ \ {p}] IN
        /\ blob' = Without(blob, {p}, NoContent)
        /\ IF k.rows # {} THEN Continue(c, k)
           ELSE IF k.op = "upsert" THEN Continue(c, [k EXCEPT !.at = "index"])
           ELSE Return(c)
  BY DEF RemoveBlob
<1> DEFINE k == [call[c] EXCEPT !.rows = @ \ {p}]
<1>3. CallOK(k) /\ (k.op = "upsert" /\ k.rows = {} => CallOK([k EXCEPT !.at = "index"]))
  <2>1. k.op = call[c].op /\ k.rows = call[c].rows \ {p}
    BY <1>1 DEF CallOK, CallTypes
  <2> QED BY <1>1, <2>1, Updates DEF RemoveBlob, At
<1> HIDE DEF k
<1>4. /\ call' \in [Callers -> CallTypes \cup {Idle}] /\ CallsOK'
      /\ torn' \subseteq Pages /\ raced' \subseteq Pages
  BY <1>2, <1>3, Continues, Returns DEF k
<1>5. blob' \in [Pages -> Contents \cup {NoContent}]
  BY <1>2, WithoutContents DEF TypeInv, TypeOK
<1> QED BY <1>4, <1>5 DEF RemoveBlob, TypeInv, TypeOK, RowsOK

LEMMA FailureTyped ==
  ASSUME TypeInv, NEW c \in Callers,
         Fail(c) \/ RemoveEntriesFails(c) \/ RemoveBlobFails(c)
  PROVE  TypeInv'
<1> DEFINE k == call[c]
<1>1. CallOK(k)
  BY WorkingCall DEF Fail, RemoveEntriesFails, RemoveBlobFails, Working, At
<1>2. k.rows \subseteq Pages /\ k.ids \subseteq Pages /\ Touched(k) \subseteq Pages
  BY <1>1 DEF Touched, Targets, PagesOf, CallOK, CallTypes
<1>3. CASE Fail(c)
  <2>1. call' \in [Callers -> CallTypes \cup {Idle}] /\ CallsOK'
    BY <1>3, CallUpdated DEF Fail
  <2> QED BY <1>2, <1>3, <2>1 DEF Fail, TypeInv, TypeOK, RowsOK
<1>4. CASE RemoveEntriesFails(c)
  <2>1. k.rows # {} => CallOK([k EXCEPT !.at = "unblob"])
    BY <1>1, <1>4, Updates DEF RemoveEntriesFails, At
  <2>2. call' \in [Callers -> CallTypes \cup {Idle}] /\ CallsOK'
    BY <1>4, <2>1, CallUpdated DEF RemoveEntriesFails
  <2>3. index' \in [Pages -> Contents \cup {NoContent}]
    BY <1>4, WithoutContents DEF RemoveEntriesFails, TypeInv, TypeOK
  <2>4. torn' \subseteq Pages
    BY <1>2, <1>4 DEF RemoveEntriesFails, TypeInv, TypeOK
  <2> QED BY <1>4, <2>2, <2>3, <2>4 DEF RemoveEntriesFails, TypeInv, TypeOK, RowsOK
<1>5. CASE RemoveBlobFails(c)
  <2>1. PICK p \in k.rows :
          LET x == [k EXCEPT !.rows = @ \ {p}] IN
          /\ call' = [call EXCEPT ![c] =
                        IF x.rows # {} THEN x
                        ELSE IF x.op = "upsert" THEN [x EXCEPT !.at = "index"]
                        ELSE Idle]
          /\ torn' = torn \cup {p}
    BY <1>5 DEF RemoveBlobFails
  <2> DEFINE x == [k EXCEPT !.rows = @ \ {p}]
  <2>2. CallOK(x) /\ (x.op = "upsert" /\ x.rows = {} => CallOK([x EXCEPT !.at = "index"]))
    <3>1. x.op = k.op /\ x.rows = k.rows \ {p}
      BY <1>1 DEF CallOK, CallTypes
    <3> QED BY <1>1, <1>5, <3>1, Updates DEF RemoveBlobFails, At
  <2> HIDE DEF x
  <2>3. call' \in [Callers -> CallTypes \cup {Idle}] /\ CallsOK'
    BY <2>1, <2>2, CallUpdated DEF x
  <2>4. torn' \subseteq Pages
    BY <1>2, <2>1 DEF TypeInv, TypeOK
  <2> QED BY <1>5, <2>3, <2>4 DEF RemoveBlobFails, TypeInv, TypeOK, RowsOK
<1> QED BY <1>3, <1>4, <1>5

LEMMA ReindexTyped ==
  ASSUME TypeInv, ReindexExisting
  PROVE  TypeInv'
<1>1. index' \in [Pages -> Contents \cup {NoContent}]
  BY DEF ReindexExisting, TypeInv, TypeOK
<1> QED
  BY <1>1 DEF ReindexExisting, TypeInv, TypeOK, CallsOK, RowsOK, Working, At

LEMMA Typed == TypeInv /\ [Next]_vars => TypeInv'
<1> SUFFICES ASSUME TypeInv, [Next]_vars PROVE TypeInv'
  OBVIOUS
<1>1. CASE UNCHANGED vars
  BY <1>1 DEF vars, TypeInv, TypeOK, CallsOK, RowsOK, Working, At
<1>2. ASSUME NEW c \in Callers, UpsertStep(c) PROVE TypeInv'
  BY <1>2, BeginTyped, LookUpTyped, WriteBlobTyped, PersistRowTyped,
     ReplaceTwinsTyped, IndexDocumentTyped DEF UpsertStep
<1>3. ASSUME NEW c \in Callers, RemovalStep(c) PROVE TypeInv'
  BY <1>3, BeginTyped, SelectRowsTyped, DeleteRowsTyped, RemoveEntriesTyped,
     RemoveBlobTyped DEF RemovalStep
<1>4. ASSUME NEW c \in Callers, FailureStep(c) PROVE TypeInv'
  BY <1>4, FailureTyped DEF FailureStep
<1> QED BY <1>1, <1>2, <1>3, <1>4, ReindexTyped DEF Next

\* Every reachable state has its type, and no document is recorded as a
\* duplicate of itself (duplicate_of of upsert_documents).
THEOREM TypeCorrect == Spec => []TypeOK
<1>1. TypeInv => TypeOK
  BY DEF TypeInv
<1> QED BY InitTyped, Typed, <1>1, PTL DEF Spec

-----------------------------------------------------------------------------
(* A step changes the pages of one host                                       *)

WorkStep(c) ==
  \/ LookUpCopy(c) \/ WriteBlob(c) \/ PersistRow(c) \/ ReplaceTwins(c)
  \/ IndexDocument(c) \/ SelectRows(c) \/ DeleteRows(c) \/ RemoveEntries(c)
  \/ RemoveBlob(c) \/ Fail(c) \/ RemoveEntriesFails(c) \/ RemoveBlobFails(c)

\* The call goes on as the same call, or ends.
Moves(c, x) ==
  /\ call' = [call EXCEPT ![c] = x]
  /\ \/ /\ x.at # "idle"
        /\ x.page = call[c].page /\ x.alone = call[c].alone
        /\ x.op = call[c].op /\ x.content = call[c].content
        /\ x.canonical = call[c].canonical
        /\ raced' = raced
     \/ /\ x = Idle
        /\ \/ raced' = raced
           \/ call[c].alone /\ raced' = raced \ {call[c].page}

SameElsewhere(h) ==
  \A p \in Pages \ PagesOf(h) :
    /\ row'[p] = row[p] /\ blob'[p] = blob[p] /\ index'[p] = index[p]
    /\ p \in torn' <=> p \in torn

LEMMA ContinueMoves ==
  ASSUME NEW c \in Callers, NEW x, Continue(c, x), x.at # "idle",
         x.page = call[c].page, x.alone = call[c].alone, x.op = call[c].op,
         x.content = call[c].content, x.canonical = call[c].canonical
  PROVE  Moves(c, x) /\ torn' = torn
BY DEF Continue, Moves

LEMMA ReturnMoves ==
  ASSUME NEW c \in Callers, Return(c), CallOK(call[c])
  PROVE  /\ Moves(c, Idle)
         /\ \A p \in Pages \ PagesOf(call[c].page) : p \in torn' <=> p \in torn
BY DEF Return, Moves, PagesOf, CallOK, CallTypes

LEMMA StoresAreFunctions ==
  ASSUME TypeInv
  PROVE  /\ row = [p \in Pages |-> row[p]]
         /\ blob = [p \in Pages |-> blob[p]]
         /\ index = [p \in Pages |-> index[p]]
BY DEF TypeInv, TypeOK

LEMMA StepMoves ==
  ASSUME TypeInv, NEW c \in Callers, WorkStep(c)
  PROVE  /\ Working(c)
         /\ SameElsewhere(call[c].page)
         /\ \E x : Moves(c, x)
<1> DEFINE k == call[c]
<1>0. Working(c)
  BY DEF WorkStep, LookUpCopy, WriteBlob, PersistRow, ReplaceTwins, IndexDocument,
         SelectRows, DeleteRows, RemoveEntries, RemoveBlob, Fail,
         RemoveEntriesFails, RemoveBlobFails, Working, At
<1>1. CallOK(k) /\ k \in CallTypes /\ k.page \in PagesOf(k.page)
      /\ k.rows \subseteq PagesOf(k.page) /\ k.ids \subseteq PagesOf(k.page)
  BY <1>0, WorkingCall DEF PagesOf, CallOK, CallTypes
<1>2. CASE LookUpCopy(c)
  <2>1. PICK q : Continue(c, [k EXCEPT !.at = "blob", !.copy = q])
    BY <1>2 DEF LookUpCopy
  <2>2. Moves(c, [k EXCEPT !.at = "blob", !.copy = q]) /\ torn' = torn
    BY <1>1, <2>1, ContinueMoves DEF CallTypes
  <2> QED BY <1>0, <1>2, <2>2 DEF LookUpCopy, SameElsewhere
<1>3. CASE WriteBlob(c)
  <2>1. Moves(c, [k EXCEPT !.at = "row"]) /\ torn' = torn
    BY <1>1, <1>3, ContinueMoves DEF WriteBlob, CallTypes
  <2> QED BY <1>0, <1>1, <1>3, <2>1, StoresAreFunctions
          DEF WriteBlob, SameElsewhere
<1>4. CASE PersistRow(c)
  <2>1. \E x : Moves(c, x) /\ torn' = torn
    <3>1. CASE k.copy = NoPage
      BY <1>1, <1>4, <3>1, ContinueMoves DEF PersistRow, CallTypes
    <3>2. CASE k.copy # NoPage
      BY <1>1, <1>4, <3>2, ContinueMoves DEF PersistRow, CallTypes
    <3> QED BY <3>1, <3>2
  <2> QED BY <1>0, <1>1, <1>4, <2>1, StoresAreFunctions
          DEF PersistRow, SameElsewhere
<1>5. CASE ReplaceTwins(c)
  <2> DEFINE twins == TwinsOf(k.page, k.canonical)
             x == [k EXCEPT !.at = IF twins = {} THEN "index" ELSE "unblob",
                            !.rows = twins, !.ids = twins]
  <2>1. Continue(c, x) /\ row' = Without(row, twins, NoRow)
    BY <1>5 DEF ReplaceTwins
  <2>2. Moves(c, x) /\ torn' = torn
    <3>1. /\ x.at # "idle" /\ x.page = k.page /\ x.alone = k.alone
          /\ x.op = k.op /\ x.content = k.content /\ x.canonical = k.canonical
      BY <1>1 DEF CallTypes
    <3> HIDE DEF x
    <3> QED BY <2>1, <3>1, ContinueMoves
  <2>3. twins \subseteq PagesOf(k.page)
    BY <1>1, TwinsOnHost
  <2>4. \A p \in Pages \ PagesOf(k.page) : row'[p] = row[p]
    BY <2>1, <2>3 DEF Without
  <2> QED BY <1>0, <1>5, <2>2, <2>4 DEF ReplaceTwins, SameElsewhere
<1>6. CASE IndexDocument(c)
  <2>1. /\ \E x : Moves(c, x)
        /\ \A p \in Pages \ PagesOf(k.page) : p \in torn' <=> p \in torn
    <3>1. CASE k.ids = {}
      BY <1>1, <1>6, <3>1, ReturnMoves DEF IndexDocument
    <3>2. CASE k.ids # {}
      BY <1>1, <1>6, <3>2, ContinueMoves DEF IndexDocument, CallTypes
    <3> QED BY <3>1, <3>2
  <2> QED BY <1>0, <1>1, <1>6, <2>1, StoresAreFunctions
          DEF IndexDocument, SameElsewhere
<1>7. CASE SelectRows(c)
  <2>1. \E x : Moves(c, x) /\ torn' = torn
    BY <1>1, <1>7, ContinueMoves DEF SelectRows, CallTypes
  <2> QED BY <1>0, <1>7, <2>1 DEF SelectRows, SameElsewhere
<1>8. CASE DeleteRows(c)
  <2>1. /\ \E x : Moves(c, x)
        /\ \A p \in Pages \ PagesOf(k.page) : p \in torn' <=> p \in torn
    <3>1. CASE Deleted(k) = {}
      BY <1>1, <1>8, <3>1, ReturnMoves DEF DeleteRows
    <3>2. CASE Deleted(k) # {}
      BY <1>1, <1>8, <3>2, ContinueMoves DEF DeleteRows, CallTypes
    <3> QED BY <3>1, <3>2
  <2>2. Targets(k) \subseteq PagesOf(k.page)
    BY <1>1 DEF Targets
  <2>3. \A p \in Pages \ PagesOf(k.page) : row'[p] = row[p]
    BY <1>8, <2>2 DEF DeleteRows, Without
  <2> QED BY <1>0, <1>8, <2>1, <2>3 DEF DeleteRows, SameElsewhere
<1>9. CASE RemoveEntries(c)
  <2>1. /\ \E x : Moves(c, x)
        /\ \A p \in Pages \ PagesOf(k.page) : p \in torn' <=> p \in torn
    <3>1. CASE k.rows = {}
      BY <1>1, <1>9, <3>1, ReturnMoves DEF RemoveEntries
    <3>2. CASE k.rows # {}
      BY <1>1, <1>9, <3>2, ContinueMoves DEF RemoveEntries, CallTypes
    <3> QED BY <3>1, <3>2
  <2>2. \A p \in Pages \ PagesOf(k.page) : index'[p] = index[p]
    BY <1>1, <1>9 DEF RemoveEntries, Without
  <2> QED BY <1>0, <1>9, <2>1, <2>2 DEF RemoveEntries, SameElsewhere
<1>10. CASE RemoveBlob(c)
  <2>1. PICK q \in k.rows :
          LET x == [k EXCEPT !.rows = @ \ {q}] IN
          /\ blob' = Without(blob, {q}, NoContent)
          /\ IF x.rows # {} THEN Continue(c, x)
             ELSE IF x.op = "upsert" THEN Continue(c, [x EXCEPT !.at = "index"])
             ELSE Return(c)
    BY <1>10 DEF RemoveBlob
  <2> DEFINE x == [k EXCEPT !.rows = @ \ {q}]
  <2>2. /\ \E y : Moves(c, y)
        /\ \A p \in Pages \ PagesOf(k.page) : p \in torn' <=> p \in torn
    <3>1. CASE x.rows # {}
      BY <1>1, <2>1, <3>1, ContinueMoves DEF CallTypes
    <3>2. CASE x.rows = {} /\ x.op = "upsert"
      BY <1>1, <2>1, <3>2, ContinueMoves DEF CallTypes
    <3>3. CASE x.rows = {} /\ x.op # "upsert"
      BY <1>1, <2>1, <3>3, ReturnMoves
    <3> QED BY <3>1, <3>2, <3>3
  <2>3. \A p \in Pages \ PagesOf(k.page) : blob'[p] = blob[p]
    BY <1>1, <2>1 DEF Without
  <2> QED BY <1>0, <1>10, <2>2, <2>3 DEF RemoveBlob, SameElsewhere
<1>11. CASE Fail(c)
  <2>1. Moves(c, Idle)
    BY <1>11 DEF Fail, Moves
  <2>2. Touched(k) \subseteq PagesOf(k.page)
    BY <1>1 DEF Touched, Targets
  <2> QED BY <1>0, <1>11, <2>1, <2>2 DEF Fail, SameElsewhere
<1>12. CASE RemoveEntriesFails(c)
  <2>1. \E x : Moves(c, x)
    <3>1. CASE k.rows = {}
      BY <1>12, <3>1 DEF RemoveEntriesFails, Moves
    <3>2. CASE k.rows # {}
      <4> DEFINE x == [k EXCEPT !.at = "unblob"]
      <4>1. /\ x.at # "idle" /\ x.page = k.page /\ x.alone = k.alone
            /\ x.op = k.op /\ x.content = k.content /\ x.canonical = k.canonical
        BY <1>1 DEF CallTypes
      <4>2. call' = [call EXCEPT ![c] = x] /\ raced' = raced
        BY <1>12, <3>2 DEF RemoveEntriesFails
      <4> HIDE DEF x
      <4> QED BY <4>1, <4>2 DEF Moves
    <3> QED BY <3>1, <3>2
  <2>2. /\ row' = row /\ blob' = blob
        /\ \A p \in Pages \ PagesOf(k.page) : p \in torn' <=> p \in torn
        /\ \A p \in Pages \ PagesOf(k.page) : index'[p] = index[p]
    BY <1>1, <1>12 DEF RemoveEntriesFails, Without
  <2> QED BY <1>0, <2>1, <2>2 DEF SameElsewhere
<1>13. CASE RemoveBlobFails(c)
  <2>1. PICK q \in k.rows :
          LET x == [k EXCEPT !.rows = @ \ {q}] IN
          /\ call' = [call EXCEPT ![c] =
                        IF x.rows # {} THEN x
                        ELSE IF x.op = "upsert" THEN [x EXCEPT !.at = "index"]
                        ELSE Idle]
          /\ torn' = torn \cup {q}
    BY <1>13 DEF RemoveBlobFails
  <2> DEFINE x == [k EXCEPT !.rows = @ \ {q}]
             y == [x EXCEPT !.at = "index"]
  <2>2. /\ x.at # "idle" /\ x.page = k.page /\ x.alone = k.alone
        /\ x.op = k.op /\ x.content = k.content /\ x.canonical = k.canonical
        /\ y.at # "idle" /\ y.page = k.page /\ y.alone = k.alone
        /\ y.op = k.op /\ y.content = k.content /\ y.canonical = k.canonical
    BY <1>1 DEF CallTypes
  <2>3. /\ call' = [call EXCEPT ![c] = IF x.rows # {} THEN x
                                       ELSE IF x.op = "upsert" THEN y ELSE Idle]
        /\ raced' = raced
    BY <1>13, <2>1 DEF RemoveBlobFails
  <2> HIDE DEF x, y
  <2>4. \E z : Moves(c, z)
    <3>1. CASE x.rows # {}
      BY <2>2, <2>3, <3>1 DEF Moves
    <3>2. CASE x.rows = {} /\ x.op = "upsert"
      BY <2>2, <2>3, <3>2 DEF Moves
    <3>3. CASE x.rows = {} /\ x.op # "upsert"
      BY <2>2, <2>3, <3>3 DEF Moves
    <3> QED BY <3>1, <3>2, <3>3
  <2> QED BY <1>0, <1>1, <1>13, <2>1, <2>4 DEF RemoveBlobFails, SameElsewhere
<1> QED
  BY <1>2, <1>3, <1>4, <1>5, <1>6, <1>7, <1>8, <1>9, <1>10, <1>11, <1>12, <1>13
     DEF WorkStep

LEMMA StepApart ==
  ASSUME TypeInv, Apart, NEW c \in Callers, WorkStep(c)
  PROVE  Apart'
<1>1. Working(c) /\ call[c] \in CallTypes
  BY StepMoves, WorkingCall
<1>2. PICK x : Moves(c, x)
  BY StepMoves
<1>3. call \in [Callers -> CallTypes \cup {Idle}]
  BY DEF TypeInv, TypeOK
<1>4. \A p \in Pages : WorkingOn(p)' \subseteq WorkingOn(p)
  BY <1>1, <1>2, <1>3 DEF Moves, WorkingOn, Working, At, Idle
<1>5. ASSUME NEW d \in Callers, Working(d)', call'[d].alone
      PROVE  WorkingOn(call[d].page)' = {d} /\ call'[d].page = call[d].page
  BY <1>1, <1>2, <1>3, <1>4, <1>5
     DEF Apart, Moves, WorkingOn, Working, At, Idle, CallTypes
<1>6. ASSUME NEW d \in Callers, Working(d)', ~call'[d].alone
      PROVE  PagesOf(call'[d].page) \subseteq raced'
  <2>1. Working(d) /\ ~call[d].alone /\ call'[d].page = call[d].page
    BY <1>1, <1>2, <1>3, <1>6 DEF Moves, Working, At, Idle
  <2>2. PagesOf(call[d].page) \subseteq raced
    BY <2>1 DEF Apart
  <2>3. call[c].alone => call[c].page \notin PagesOf(call[d].page)
    BY <1>1, <2>1 DEF Apart, WorkingOn, Working, PagesOf
  <2> QED BY <1>2, <2>1, <2>2, <2>3 DEF Moves
<1> QED BY <1>5, <1>6 DEF Apart, WorkingOn, PagesOf, At, Working

LEMMA BeginApart ==
  ASSUME TypeInv, Apart, NEW c \in Callers, NEW p \in Pages, NEW k,
         k.page = p, k.alone <=> WorkingOn(p) = {}, k.at # "idle",
         Begin(c, p, k)
  PROVE  Apart'
<1>1. call \in [Callers -> CallTypes \cup {Idle}]
  BY DEF TypeInv, TypeOK
<1>2. c \notin WorkingOn(p)
  BY DEF Begin, WorkingOn
<1>3. ASSUME NEW d \in Callers, d # c
      PROVE  /\ call'[d].at = call[d].at
             /\ Working(d) => call'[d].page = call[d].page
             /\ d \notin WorkingOn(p) => call'[d] = call[d]
             /\ d \in WorkingOn(p) => ~call'[d].alone
  BY <1>1, <1>3 DEF Begin, WorkingOn, Working, At, CallTypes
<1>4. call'[c] = k
  BY DEF Begin
<1>5. WorkingOn(p)' = WorkingOn(p) \cup {c}
  BY <1>3, <1>4 DEF WorkingOn, Working, At
<1>6. \A h \in Pages : HostOf[h] # HostOf[p] => WorkingOn(h)' = WorkingOn(h)
  BY <1>2, <1>3, <1>4 DEF Begin, WorkingOn, Working, At
<1>7. ASSUME NEW d \in Callers, Working(d)', call'[d].alone
      PROVE  WorkingOn(call[d].page)' = {d}
  <2>1. CASE d = c
    BY <1>4, <1>5, <1>7, <2>1
  <2>2. CASE d # c
    <3>1. d \notin WorkingOn(p) /\ call'[d] = call[d] /\ Working(d)
      BY <1>3, <1>7, <2>2 DEF Working, At
    <3>2. HostOf[call[d].page] # HostOf[p] /\ call[d].page \in Pages
      BY <3>1, WorkingCall DEF WorkingOn, Working, CallTypes
    <3> QED BY <1>6, <1>7, <3>1, <3>2 DEF Apart
  <2> QED BY <2>1, <2>2
<1>8. ASSUME NEW d \in Callers, Working(d)', ~call'[d].alone
      PROVE  PagesOf(call'[d].page) \subseteq raced'
  <2>1. CASE d = c
    BY <1>4, <1>8, <2>1 DEF Begin
  <2>2. CASE d # c /\ d \in WorkingOn(p)
    <3>1. Working(d) /\ HostOf[call[d].page] = HostOf[p] /\ WorkingOn(p) # {}
      BY <2>2 DEF WorkingOn, Working
    <3>2. call'[d].page = call[d].page
      BY <1>3, <2>2, <3>1
    <3>3. PagesOf(call[d].page) = PagesOf(p)
      BY <3>1 DEF PagesOf
    <3>4. raced' = raced \cup PagesOf(p)
      BY <3>1 DEF Begin
    <3> QED BY <3>2, <3>3, <3>4
  <2>3. CASE d # c /\ d \notin WorkingOn(p)
    BY <1>3, <1>8, <2>3 DEF Apart, Begin, Working, At
  <2> QED BY <2>1, <2>2, <2>3
<1> QED BY <1>7, <1>8 DEF Apart, WorkingOn, PagesOf, At, Working

-----------------------------------------------------------------------------
(* What a call has done so far is still there                                 *)

LEMMA CallMoved ==
  ASSUME TypeInv, NEW c \in Callers, NEW x, call' = [call EXCEPT ![c] = x]
  PROVE  call'[c] = x /\ \A d \in Callers \ {c} : call'[d] = call[d]
BY DEF TypeInv, TypeOK

LEMMA UpsertTraced ==
  ASSUME TypeInv, NEW c \in Callers, Traced(call[c]), Working(c)',
         \/ LookUpCopy(c) \/ WriteBlob(c) \/ PersistRow(c)
         \/ ReplaceTwins(c) \/ IndexDocument(c)
  PROVE  Traced(call[c])'
<1> DEFINE k == call[c]
<1>0. Working(c)
  BY DEF LookUpCopy, WriteBlob, PersistRow, ReplaceTwins, IndexDocument, Working, At
<1>1. CallOK(k) /\ k \in CallTypes
  BY <1>0, WorkingCall
<1>2. TracedUpsert(k) /\ k.op = "upsert"
  BY <1>1 DEF CallOK, LookUpCopy, WriteBlob, PersistRow, ReplaceTwins,
              IndexDocument, At, Traced
<1>3. CASE LookUpCopy(c)
  <2>1. PICK q : call' = [call EXCEPT ![c] = [k EXCEPT !.at = "blob", !.copy = q]]
    BY <1>3 DEF LookUpCopy, Continue
  <2>2. call'[c] = [k EXCEPT !.at = "blob", !.copy = q]
    BY <2>1, CallMoved
  <2>3. call'[c].at = "blob" /\ call'[c].op = "upsert"
    BY <1>1, <1>2, <2>2 DEF CallTypes
  <2> QED BY <2>3 DEF Traced, TracedUpsert, AfterReplace
<1>4. CASE WriteBlob(c)
  <2>1. call'[c] = [k EXCEPT !.at = "row"]
    BY <1>4, CallMoved DEF WriteBlob, Continue
  <2>2. /\ call'[c].at = "row" /\ call'[c].op = "upsert"
        /\ blob'[call'[c].page] = call'[c].content
    BY <1>1, <1>2, <1>4, <2>1 DEF CallTypes, WriteBlob, TypeInv, TypeOK
  <2> QED BY <2>2 DEF Traced, TracedUpsert, AfterReplace
<1>5. CASE PersistRow(c)
  <2>1. call'[c] = IF k.copy = NoPage
                   THEN [k EXCEPT !.at = "replace"]
                   ELSE [k EXCEPT !.at = "unindex", !.ids = {k.page}]
    BY <1>5, CallMoved DEF PersistRow, Continue
  <2>2. /\ call'[c].at = IF k.copy = NoPage THEN "replace" ELSE "unindex"
        /\ call'[c].op = "upsert" /\ call'[c].copy = k.copy
        /\ call'[c].page = k.page /\ call'[c].content = k.content
        /\ call'[c].canonical = k.canonical
    BY <1>1, <1>2, <2>1 DEF CallTypes
  <2>3. row'[k.page] = Written(k) /\ blob'[k.page] = k.content
    BY <1>1, <1>2, <1>5
       DEF PersistRow, At, TracedUpsert, Written, TypeInv, TypeOK, CallTypes
  <2> QED BY <2>2, <2>3 DEF Traced, TracedUpsert, Written, AfterReplace
<1>6. CASE ReplaceTwins(c)
  <2> DEFINE twins == TwinsOf(k.page, k.canonical)
  <2>1. call'[c] = [k EXCEPT !.at = IF twins = {} THEN "index" ELSE "unblob",
                             !.rows = twins, !.ids = twins]
    BY <1>6, CallMoved DEF ReplaceTwins, Continue
  <2>2. /\ call'[c].at = IF twins = {} THEN "index" ELSE "unblob"
        /\ call'[c].op = "upsert" /\ call'[c].copy = k.copy
        /\ call'[c].page = k.page /\ call'[c].content = k.content
        /\ call'[c].canonical = k.canonical
        /\ call'[c].rows = twins /\ call'[c].ids = twins
    BY <1>1, <1>2, <2>1 DEF CallTypes
  <2>3. row' = Without(row, twins, NoRow) /\ blob' = blob /\ index' = index
    BY <1>6 DEF ReplaceTwins
  <2>4. row[k.page] = Written(k) /\ blob[k.page] = k.content
    BY <1>2, <1>6 DEF ReplaceTwins, At, TracedUpsert
  <2>5. \A q \in Pages : row'[q] = IF q \in twins THEN NoRow ELSE row[q]
    BY <2>3 DEF Without
  <2>6. k.page \in Pages /\ twins \subseteq Pages \ {k.page}
    BY <1>1 DEF TwinsOf, CallTypes
  <2>7. TwinsOf(k.page, k.canonical)' = {}
    <3>1. ASSUME NEW q \in Pages, q # call'[c].page, row'[q] # NoRow,
                 row'[q].canonical = call'[c].canonical, row'[q].copy = NoPage
          PROVE  FALSE
      BY <2>2, <2>5, <3>1 DEF TwinsOf
    <3> QED BY <3>1 DEF TwinsOf
  <2>8. row'[k.page] = Written(k)
    BY <2>4, <2>5, <2>6
  <2>9. \A q \in call'[c].ids : /\ row'[q] = NoRow
                                /\ q \notin call'[c].rows \cup torn' => blob'[q] = NoContent
    BY <2>2, <2>5, <2>6
  <2> HIDE DEF twins
  <2>10. /\ call'[c].at \in {"index", "unblob"} /\ call'[c].rows \subseteq call'[c].ids
         /\ blob'[call'[c].page] = call'[c].content
         /\ row'[call'[c].page] = Written(call'[c])
    BY <2>2, <2>3, <2>4, <2>8 DEF Written
  <2> QED BY <2>2, <2>7, <2>9, <2>10 DEF Traced, TracedUpsert, Written, AfterReplace
<1>7. CASE IndexDocument(c)
  <2>1. call'[c] = [k EXCEPT !.at = "unindex"]
    BY <1>7, CallMoved DEF IndexDocument, Return, Continue, Working, At, Idle
  <2>2. /\ call'[c].at = "unindex"
        /\ call'[c].op = "upsert" /\ call'[c].copy = k.copy
        /\ call'[c].page = k.page /\ call'[c].content = k.content
        /\ call'[c].canonical = k.canonical
        /\ call'[c].rows = k.rows /\ call'[c].ids = k.ids
    BY <1>1, <1>2, <2>1 DEF CallTypes
  <2>3. row' = row /\ blob' = blob /\ index'[k.page] = k.content
    BY <1>1, <1>7 DEF IndexDocument, TypeInv, TypeOK, CallTypes
  <2>5. torn' = torn
    <3>1. call' # [call EXCEPT ![c] = Idle]
      BY <2>2, CallMoved DEF Idle
    <3> QED BY <1>7, <3>1 DEF IndexDocument, Return, Continue
  <2>4. k.at = "index"
    BY <1>7 DEF IndexDocument, At
  <2> QED BY <1>2, <2>2, <2>3, <2>4, <2>5
          DEF Traced, TracedUpsert, Written, AfterReplace, TwinsOf
<1> QED BY <1>3, <1>4, <1>5, <1>6, <1>7

LEMMA RemovalTraced ==
  ASSUME TypeInv, NEW c \in Callers, Traced(call[c]), Working(c)',
         SelectRows(c) \/ DeleteRows(c)
  PROVE  Traced(call[c])'
<1> DEFINE k == call[c]
<1>0. Working(c)
  BY DEF SelectRows, DeleteRows, Working, At
<1>1. CallOK(k) /\ k \in CallTypes
  BY <1>0, WorkingCall
<1>2. TracedRemoval(k) /\ k.op # "upsert"
  BY <1>1 DEF CallOK, SelectRows, DeleteRows, At, Traced
<1>3. CASE SelectRows(c)
  <2>1. call'[c] = [k EXCEPT !.at = "delete", !.rows = Selected(k)]
    BY <1>3, CallMoved DEF SelectRows, Continue
  <2>2. /\ call'[c].at = "delete" /\ call'[c].op = k.op
        /\ call'[c].page = k.page /\ call'[c].rows = Selected(k)
    BY <1>1, <2>1 DEF CallTypes
  <2>3. Selected(k) = Selected(call[c])'
    BY <1>3, <2>2 DEF SelectRows, Selected, Targets
  <2> QED BY <1>2, <2>2, <2>3 DEF Traced, TracedRemoval
<1>4. CASE DeleteRows(c)
  <2>1. Deleted(k) = k.rows
    BY <1>2, <1>4 DEF DeleteRows, At, TracedRemoval, Deleted
  <2>2. call'[c] = [k EXCEPT !.at = "unindex", !.ids = k.rows]
    BY <1>4, <2>1, CallMoved DEF DeleteRows, Return, Continue, Working, At, Idle
  <2>3. /\ call'[c].at = "unindex" /\ call'[c].op = k.op
        /\ call'[c].rows = k.rows /\ call'[c].ids = k.rows
    BY <1>1, <2>2 DEF CallTypes
  <2>4. k.rows \subseteq Targets(k) /\ k.rows \subseteq Pages
    BY <1>1, <1>2, <1>4 DEF DeleteRows, At, TracedRemoval, Selected, CallTypes
  <2>5. \A q \in k.rows : row'[q] = NoRow
    BY <1>4, <2>4 DEF DeleteRows, Without
  <2> QED BY <1>2, <2>3, <2>5 DEF Traced, TracedRemoval
<1> QED BY <1>3, <1>4

\* What the requests of the cleanup do, whether they succeed or not.
RemovesEntries(c) ==
  LET k == call[c] IN
  /\ k.at = "unindex" /\ row' = row /\ blob' = blob
  /\ \A q \in Pages : q \notin torn' =>
       index'[q] = IF q \in k.ids THEN NoContent ELSE index[q]
  /\ IF k.rows = {} THEN call'[c] = Idle
     ELSE call'[c] = [k EXCEPT !.at = "unblob"] /\ call'[c].at = "unblob"

RemovesBlob(c, p) ==
  LET k == call[c] IN
  /\ p \in k.rows /\ k.at = "unblob" /\ row' = row /\ index' = index
  /\ \A q \in Pages : q \notin torn' =>
       blob'[q] = IF q = p THEN NoContent ELSE blob[q]
  /\ \A q \in Pages : q # p => blob'[q] = blob[q] /\ (q \in torn' <=> q \in torn)
  /\ torn \subseteq torn' /\ raced' = raced
  /\ \/ /\ call'[c].op = k.op /\ call'[c].page = k.page
        /\ call'[c].content = k.content /\ call'[c].canonical = k.canonical
        /\ call'[c].copy = k.copy /\ call'[c].ids = k.ids
        /\ call'[c].rows = k.rows \ {p}
        /\ \/ call'[c].at = "unblob"
           \/ k.op = "upsert" /\ call'[c].at = "index"
     \/ k.op # "upsert" /\ k.rows = {p} /\ call'[c] = Idle

LEMMA UnblobOrIdle ==
  ASSUME TypeInv, NEW c \in Callers, call[c].at = "unindex",
         IF call[c].rows = {} THEN call' = [call EXCEPT ![c] = Idle]
         ELSE call' = [call EXCEPT ![c] = [call[c] EXCEPT !.at = "unblob"]]
  PROVE  IF call[c].rows = {} THEN call'[c] = Idle
         ELSE call'[c] = [call[c] EXCEPT !.at = "unblob"] /\ call'[c].at = "unblob"
<1>1. call[c] \in CallTypes
  BY WorkingCall DEF Working, At
<1>2. CASE call[c].rows = {}
  <2>1. call' = [call EXCEPT ![c] = Idle]
    BY <1>2
  <2>2. call'[c] = Idle
    BY <2>1, CallMoved
  <2> QED BY <1>2, <2>2
<1>3. CASE call[c].rows # {}
  <2>1. call'[c] = [call[c] EXCEPT !.at = "unblob"]
    BY <1>3, CallMoved
  <2>2. call'[c].at = "unblob"
    BY <1>1, <2>1 DEF CallTypes
  <2> QED BY <1>3, <2>1, <2>2
<1> QED BY <1>2, <1>3

LEMMA EntriesRemoved ==
  ASSUME TypeInv, NEW c \in Callers, RemoveEntries(c) \/ RemoveEntriesFails(c)
  PROVE  RemovesEntries(c)
<1> DEFINE k == call[c]
<1>1. CASE RemoveEntries(c)
  <2>1. /\ k.at = "unindex" /\ row' = row /\ blob' = blob
        /\ \A q \in Pages : index'[q] = IF q \in k.ids THEN NoContent ELSE index[q]
    BY <1>1 DEF RemoveEntries, Without, At
  <2>2. IF k.rows = {} THEN call' = [call EXCEPT ![c] = Idle]
        ELSE call' = [call EXCEPT ![c] = [k EXCEPT !.at = "unblob"]]
    BY <1>1 DEF RemoveEntries, Return, Continue
  <2> QED BY <2>1, <2>2, UnblobOrIdle DEF RemovesEntries
<1>2. CASE RemoveEntriesFails(c)
  <2>1. k.at = "unindex" /\ row' = row /\ blob' = blob
    BY <1>2 DEF RemoveEntriesFails, At
  <2>2. PICK failed \in SUBSET k.ids :
          index' = Without(index, k.ids \ failed, NoContent) /\ torn' = torn \cup failed
    BY <1>2 DEF RemoveEntriesFails
  <2>3. \A q \in Pages : q \notin torn' =>
          index'[q] = IF q \in k.ids THEN NoContent ELSE index[q]
    BY <2>2 DEF Without
  <2>4. call' = [call EXCEPT ![c] = IF k.rows = {} THEN Idle
                                    ELSE [k EXCEPT !.at = "unblob"]]
    BY <1>2 DEF RemoveEntriesFails
  <2>5. IF k.rows = {} THEN call' = [call EXCEPT ![c] = Idle]
        ELSE call' = [call EXCEPT ![c] = [k EXCEPT !.at = "unblob"]]
    BY <2>4
  <2> QED BY <2>1, <2>3, <2>5, UnblobOrIdle DEF RemovesEntries
<1> QED BY <1>1, <1>2

LEMMA BlobRemoved ==
  ASSUME TypeInv, NEW c \in Callers, RemoveBlob(c) \/ RemoveBlobFails(c)
  PROVE  \E p \in call[c].rows : RemovesBlob(c, p)
<1> DEFINE k == call[c]
<1>1. k \in CallTypes
  BY WorkingCall DEF RemoveBlob, RemoveBlobFails, Working, At
<1>2. PICK p \in k.rows :
        LET x == [k EXCEPT !.rows = @ \ {p}] IN
        /\ \A q \in Pages : q \notin torn' =>
             blob'[q] = IF q = p THEN NoContent ELSE blob[q]
        /\ \A q \in Pages :
             q # p => blob'[q] = blob[q] /\ (q \in torn' <=> q \in torn)
        /\ torn \subseteq torn' /\ raced' = raced
        /\ IF x.rows # {} THEN call' = [call EXCEPT ![c] = x]
           ELSE IF x.op = "upsert"
                THEN call' = [call EXCEPT ![c] = [x EXCEPT !.at = "index"]]
                ELSE call' = [call EXCEPT ![c] = Idle]
  <2>1. CASE RemoveBlob(c)
    <3>1. PICK p \in k.rows :
            LET x == [k EXCEPT !.rows = @ \ {p}] IN
            /\ blob' = Without(blob, {p}, NoContent)
            /\ IF x.rows # {} THEN Continue(c, x)
               ELSE IF x.op = "upsert" THEN Continue(c, [x EXCEPT !.at = "index"])
               ELSE Return(c)
      BY <2>1 DEF RemoveBlob
    <3> DEFINE x == [k EXCEPT !.rows = @ \ {p}]
    <3>2. x.op = k.op
      BY <1>1 DEF CallTypes
    <3> HIDE DEF x
    <3>3. torn' = torn /\ raced' = raced
      BY <3>1, <3>2 DEF Continue, Return, x
    <3>4. \A q \in Pages : blob'[q] = IF q = p THEN NoContent ELSE blob[q]
      BY <3>1 DEF Without
    <3>5. IF x.rows # {} THEN call' = [call EXCEPT ![c] = x]
          ELSE IF x.op = "upsert"
               THEN call' = [call EXCEPT ![c] = [x EXCEPT !.at = "index"]]
               ELSE call' = [call EXCEPT ![c] = Idle]
      BY <3>1 DEF Continue, Return, x
    <3> QED BY <3>3, <3>4, <3>5 DEF x
  <2>2. CASE RemoveBlobFails(c)
    <3>1. PICK p \in k.rows :
            LET x == [k EXCEPT !.rows = @ \ {p}] IN
            /\ call' = [call EXCEPT ![c] =
                          IF x.rows # {} THEN x
                          ELSE IF x.op = "upsert" THEN [x EXCEPT !.at = "index"]
                          ELSE Idle]
            /\ torn' = torn \cup {p}
      BY <2>2 DEF RemoveBlobFails
    <3> DEFINE x == [k EXCEPT !.rows = @ \ {p}]
    <3>2. blob' = blob /\ raced' = raced
      BY <2>2 DEF RemoveBlobFails
    <3> HIDE DEF x
    <3>3. torn' = torn \cup {p}
      BY <3>1
    <3>4. IF x.rows # {} THEN call' = [call EXCEPT ![c] = x]
          ELSE IF x.op = "upsert"
               THEN call' = [call EXCEPT ![c] = [x EXCEPT !.at = "index"]]
               ELSE call' = [call EXCEPT ![c] = Idle]
      BY <3>1 DEF x
    <3> QED BY <3>1, <3>2, <3>3, <3>4 DEF x
  <2> QED BY <2>1, <2>2
<1>3. k.at = "unblob" /\ row' = row /\ index' = index
  BY DEF RemoveBlob, RemoveBlobFails, At
<1> DEFINE x == [k EXCEPT !.rows = @ \ {p}]
<1>4. /\ x.op = k.op /\ x.at = k.at /\ x.page = k.page /\ x.content = k.content
      /\ x.canonical = k.canonical /\ x.copy = k.copy /\ x.ids = k.ids
      /\ x.rows = k.rows \ {p} /\ x \in CallTypes
  BY <1>1 DEF CallTypes
<1> HIDE DEF x
<1>5. CASE x.rows # {}
  <2>1. call'[c] = x
    BY <1>2, <1>5, CallMoved DEF x
  <2> QED BY <1>2, <1>3, <1>4, <2>1 DEF RemovesBlob
<1>6. CASE x.rows = {} /\ x.op = "upsert"
  <2>1. call'[c] = [x EXCEPT !.at = "index"]
    BY <1>2, <1>6, CallMoved DEF x
  <2>2. /\ call'[c].op = x.op /\ call'[c].at = "index" /\ call'[c].page = x.page
        /\ call'[c].content = x.content /\ call'[c].canonical = x.canonical
        /\ call'[c].copy = x.copy /\ call'[c].ids = x.ids /\ call'[c].rows = x.rows
    BY <1>4, <2>1 DEF CallTypes
  <2> QED BY <1>2, <1>3, <1>4, <1>6, <2>2 DEF RemovesBlob
<1>7. CASE x.rows = {} /\ x.op # "upsert"
  <2>1. call' = [call EXCEPT ![c] = Idle]
    BY <1>2, <1>7 DEF x
  <2>2. call'[c] = Idle /\ k.rows = {p}
    BY <1>4, <1>7, <2>1, CallMoved
  <2> QED BY <1>2, <1>3, <1>4, <1>7, <2>2 DEF RemovesBlob
<1> QED BY <1>5, <1>6, <1>7

LEMMA CleanupTraced ==
  ASSUME TypeInv, NEW c \in Callers, Traced(call[c]), Working(c)',
         \/ RemoveEntries(c) \/ RemoveEntriesFails(c)
         \/ RemoveBlob(c) \/ RemoveBlobFails(c)
  PROVE  Traced(call[c])'
<1> DEFINE k == call[c]
<1>0. Working(c) /\ call'[c] # Idle
  <2>1. Working(c)
    BY DEF RemoveEntries, RemoveBlob, RemoveEntriesFails, RemoveBlobFails, Working, At
  <2>2. call'[c].at # Idle.at
    BY DEF Working, At, Idle
  <2> QED BY <2>1, <2>2
<1>1. CallOK(k) /\ k \in CallTypes
  BY <1>0, WorkingCall
<1>2. CASE RemoveEntries(c) \/ RemoveEntriesFails(c)
  <2>1. RemovesEntries(c)
    BY <1>2, EntriesRemoved
  <2>2. k.at = "unindex" /\ k.rows # {} /\ call'[c] = [k EXCEPT !.at = "unblob"]
    BY <1>0, <2>1 DEF RemovesEntries
  <2>3. k.op # "upsert" /\ TracedRemoval(k)
    BY <1>1, <2>2 DEF CallOK, Traced
  <2>4. /\ call'[c].at = "unblob" /\ call'[c].op = k.op
        /\ call'[c].rows = k.rows /\ call'[c].ids = k.ids
    BY <1>1, <2>2 DEF CallTypes
  <2>5. \A q \in k.ids \ torn' : index'[q] = NoContent
    BY <1>1, <2>1 DEF RemovesEntries, CallTypes
  <2>6. k.rows = k.ids /\ \A q \in k.ids : row'[q] = NoRow
    BY <2>1, <2>2, <2>3 DEF RemovesEntries, TracedRemoval
  <2> QED BY <2>3, <2>4, <2>5, <2>6 DEF Traced, TracedRemoval
<1>3. CASE RemoveBlob(c) \/ RemoveBlobFails(c)
  <2>1. PICK p \in k.rows : RemovesBlob(c, p)
    BY <1>3, BlobRemoved
  <2>2. /\ call'[c].op = k.op /\ call'[c].page = k.page
        /\ call'[c].content = k.content /\ call'[c].canonical = k.canonical
        /\ call'[c].copy = k.copy /\ call'[c].ids = k.ids
        /\ call'[c].rows = k.rows \ {p}
        /\ \/ call'[c].at = "unblob"
           \/ k.op = "upsert" /\ call'[c].at = "index"
    BY <1>0, <2>1 DEF RemovesBlob
  <2>3. /\ k.rows \subseteq k.ids /\ k.ids \subseteq Pages
        /\ \A q \in k.ids : /\ row[q] = NoRow
                            /\ q \notin k.rows \cup torn => blob[q] = NoContent
    BY <1>1, <2>1 DEF RemovesBlob, Traced, TracedUpsert, TracedRemoval, AfterReplace,
                      CallOK, CallTypes
  <2>4. \A q \in k.ids : /\ row'[q] = NoRow
                         /\ q \notin (k.rows \ {p}) \cup torn' => blob'[q] = NoContent
    BY <2>1, <2>3 DEF RemovesBlob
  <2>5. CASE k.op = "upsert"
    <3>1. TracedUpsert(k) /\ k.copy = NoPage /\ k.page \notin k.ids /\ k.page \in Pages
      BY <1>1, <2>1, <2>5 DEF RemovesBlob, Traced, CallOK, AfterReplace, CallTypes
    <3>2. blob'[k.page] = blob[k.page] /\ row' = row
      BY <2>1, <2>3, <3>1 DEF RemovesBlob
    <3>3. /\ blob[k.page] = k.content /\ row[k.page] = Written(k)
          /\ TwinsOf(k.page, k.canonical) = {}
      BY <2>1, <3>1 DEF RemovesBlob, TracedUpsert, AfterReplace
    <3> QED BY <2>2, <2>3, <2>4, <2>5, <3>1, <3>2, <3>3
            DEF Traced, TracedUpsert, AfterReplace, Written, TwinsOf
  <2>6. CASE k.op # "upsert"
    <3>1. TracedRemoval(k)
      BY <2>6 DEF Traced
    <3>2. \A q \in k.ids \ torn' : index'[q] = NoContent
      BY <2>1, <3>1 DEF RemovesBlob, TracedRemoval
    <3>3. k.rows \ {p} \subseteq k.ids
      BY <2>3
    <3> QED BY <2>2, <2>4, <2>6, <3>2, <3>3 DEF Traced, TracedRemoval
  <2> QED BY <2>5, <2>6
<1> QED BY <1>2, <1>3

\* What a call on another host has done is not touched.
LEMMA TracedElsewhere ==
  ASSUME TypeInv, TypeInv', NEW h \in Pages, SameElsewhere(h),
         NEW d \in Callers, Working(d), call'[d] = call[d],
         HostOf[call[d].page] # HostOf[h], Traced(call[d])
  PROVE  Traced(call[d])'
<1> DEFINE k == call[d]
<1>1. CallOK(k) /\ k \in CallTypes
  BY WorkingCall
<1>2. /\ PagesOf(k.page) \subseteq Pages \ PagesOf(h) /\ k.page \in PagesOf(k.page)
      /\ k.rows \subseteq PagesOf(k.page) /\ k.ids \subseteq PagesOf(k.page)
  BY <1>1 DEF PagesOf, CallOK, CallTypes
<1>3. \A p \in PagesOf(k.page) :
        /\ row'[p] = row[p] /\ blob'[p] = blob[p] /\ index'[p] = index[p]
        /\ p \in torn' <=> p \in torn
  BY <1>2 DEF SameElsewhere
<1>4. CASE k.op = "upsert"
  <2>1. TracedUpsert(k)
    BY <1>4 DEF Traced
  <2>2. TwinsOf(k.page, k.canonical) = {} => TwinsOf(k.page, k.canonical)' = {}
    <3>1. HostOf[k.canonical] = HostOf[k.page]
      BY <1>1 DEF CallOK
    <3>2. ASSUME NEW q \in Pages, q # k.page, row'[q] # NoRow,
                 row'[q].canonical = k.canonical, row'[q].copy = NoPage
          PROVE  q \in TwinsOf(k.page, k.canonical)
      <4>1. q \in PagesOf(k.page)
        BY <3>1, <3>2 DEF TypeInv, RowsOK, PagesOf
      <4> QED BY <1>3, <3>2, <4>1 DEF TwinsOf
    <3> QED BY <3>2 DEF TwinsOf
  <2>3. /\ blob'[k.page] = blob[k.page] /\ row'[k.page] = row[k.page]
        /\ index'[k.page] = index[k.page]
        /\ \A q \in k.ids : /\ row'[q] = row[q] /\ blob'[q] = blob[q]
                            /\ q \in torn' <=> q \in torn
    BY <1>2, <1>3
  <2>4. TracedUpsert(call[d])'
    BY <2>1, <2>2, <2>3 DEF TracedUpsert, Written
  <2> QED BY <1>4, <2>4 DEF Traced
<1>5. CASE k.op # "upsert"
  <2>1. TracedRemoval(k)
    BY <1>5 DEF Traced
  <2>2. Targets(k) \subseteq PagesOf(k.page)
    BY <1>2 DEF Targets
  <2>3. Selected(call[d])' = Selected(k)
    BY <1>3, <2>2 DEF Selected, Targets
  <2>4. \A q \in k.ids : /\ row'[q] = row[q] /\ blob'[q] = blob[q]
                         /\ index'[q] = index[q] /\ (q \in torn' <=> q \in torn)
    BY <1>2, <1>3
  <2>5. TracedRemoval(call[d])'
    BY <2>1, <2>3, <2>4 DEF TracedRemoval
  <2> QED BY <1>5, <2>5 DEF Traced
<1> QED BY <1>4, <1>5

LEMMA StepCallsTraced ==
  ASSUME TypeInv, TypeInv', Apart, CallsTraced, NEW c \in Callers, WorkStep(c)
  PROVE  CallsTraced'
<1>1. Working(c) /\ SameElsewhere(call[c].page)
  BY StepMoves
<1>2. PICK x : Moves(c, x)
  BY StepMoves
<1>3. call'[c] = x /\ \A d \in Callers \ {c} : call'[d] = call[d]
  BY <1>2, CallMoved DEF Moves
<1>4. call[c].page \in Pages
  BY <1>1, WorkingCall DEF CallTypes
<1>5. ASSUME NEW d \in Callers, Working(d)', call'[d].alone
      PROVE  Traced(call[d])'
  <2>1. CASE d = c
    <3>1. call[c].alone
      BY <1>2, <1>3, <1>5, <2>1 DEF Moves, Working, At, Idle
    <3>2. Traced(call[c]) /\ Working(c)'
      BY <1>1, <1>5, <2>1, <3>1 DEF CallsTraced
    <3>3. ~Fail(c)
      <4>1. ASSUME Fail(c) PROVE FALSE
        <5>1. call' = [call EXCEPT ![c] = Idle]
          BY <4>1 DEF Fail
        <5>2. call'[c] = Idle
          BY <5>1, CallMoved
        <5> QED BY <3>2, <5>2 DEF Working, At, Idle
      <4> QED BY <4>1
    <3> QED BY <2>1, <3>2, <3>3, UpsertTraced, RemovalTraced, CleanupTraced
            DEF WorkStep
  <2>2. CASE d # c
    <3>1. call'[d] = call[d] /\ Working(d) /\ call[d].alone
      BY <1>3, <1>5, <2>2 DEF Working, At
    <3>2. HostOf[call[d].page] # HostOf[call[c].page]
      BY <1>1, <2>2, <3>1 DEF Apart, WorkingOn, Working
    <3>3. Traced(call[d])
      BY <3>1 DEF CallsTraced
    <3> QED BY <1>1, <1>4, <3>1, <3>2, <3>3, TracedElsewhere
  <2> QED BY <2>1, <2>2
<1> QED BY <1>5 DEF CallsTraced, Working, At

-----------------------------------------------------------------------------
(* The pages a call has not come to agree                                     *)

\* A call that ends half-way keeps its page uneven; any other end settles it.
LEMMA Settles ==
  ASSUME TypeInv, NEW c \in Callers, WorkStep(c), NEW p \in Pages,
         p \notin torn' \cup raced', p \in torn \cup raced
  PROVE  Return(c) /\ call[c].op = "upsert" /\ p = call[c].page
<1>1. ~Return(c) => torn \subseteq torn' /\ raced' = raced
  BY DEF WorkStep, LookUpCopy, WriteBlob, PersistRow, ReplaceTwins, IndexDocument,
         SelectRows, DeleteRows, RemoveEntries, RemoveBlob, Fail,
         RemoveEntriesFails, RemoveBlobFails, Continue
<1> QED BY <1>1 DEF Return

LEMMA UpsertAgrees ==
  ASSUME TypeInv, NEW c \in Callers, Traced(call[c]),
         NEW p \in Pages, p \notin torn' \cup raced',
         p \notin torn \cup raced \cup Disturbed(call[c]) => Agrees(p),
         Working(c)' => p \notin Disturbed(call'[c]),
         \/ LookUpCopy(c) \/ WriteBlob(c) \/ PersistRow(c)
         \/ ReplaceTwins(c) \/ IndexDocument(c)
  PROVE  Agrees(p)'
<1> DEFINE k == call[c]
<1>0. Working(c) /\ WorkStep(c)
  BY DEF LookUpCopy, WriteBlob, PersistRow, ReplaceTwins, IndexDocument, Working, At,
         WorkStep
<1>1. CallOK(k) /\ k \in CallTypes
  BY <1>0, WorkingCall
<1>2. TracedUpsert(k) /\ k.op = "upsert"
  BY <1>1 DEF CallOK, LookUpCopy, WriteBlob, PersistRow, ReplaceTwins,
              IndexDocument, At, Traced
<1>3. ASSUME p \notin torn \cup raced, p \notin Disturbed(k),
             row'[p] = row[p], blob'[p] = blob[p], index'[p] = index[p]
      PROVE  Agrees(p)'
  BY <1>3 DEF Agrees
<1>4. p \in torn \cup raced => Return(c) /\ p = k.page
  BY <1>0, Settles
<1>5. CASE LookUpCopy(c)
  <2>1. Disturbed(k) = {}
    BY <1>5 DEF LookUpCopy, At, Disturbed
  <2>2. PICK q : Continue(c, [k EXCEPT !.at = "blob", !.copy = q])
    BY <1>5 DEF LookUpCopy
  <2>3. torn' = torn /\ raced' = raced
    BY <2>2 DEF Continue
  <2> QED BY <1>3, <1>5, <2>1, <2>3 DEF LookUpCopy
<1>6. CASE WriteBlob(c)
  <2>1. Disturbed(k) = {} /\ torn' = torn /\ raced' = raced
    BY <1>6 DEF WriteBlob, Continue, At, Disturbed
  <2>2. call'[c] = [k EXCEPT !.at = "row"]
    BY <1>6, CallMoved DEF WriteBlob, Continue
  <2>3. call'[c].at = "row" /\ call'[c].op = "upsert" /\ call'[c].page = k.page
    BY <1>1, <1>2, <2>2 DEF CallTypes
  <2>4. p # k.page
    BY <2>3 DEF Disturbed, Working, At
  <2>5. row' = row /\ index' = index /\ blob'[p] = blob[p]
    BY <1>6, <2>4 DEF WriteBlob, TypeInv, TypeOK
  <2> QED BY <1>3, <2>1, <2>5
<1>7. CASE PersistRow(c)
  <2>1. k.at = "row" /\ k.ids = {} /\ torn' = torn /\ raced' = raced
    BY <1>1, <1>7 DEF PersistRow, Continue, At, CallOK
  <2>2. call'[c] = IF k.copy = NoPage
                   THEN [k EXCEPT !.at = "replace"]
                   ELSE [k EXCEPT !.at = "unindex", !.ids = {k.page}]
    BY <1>7, CallMoved DEF PersistRow, Continue
  <2>3. /\ call'[c].at \in {"replace", "unindex"} /\ call'[c].op = "upsert"
        /\ call'[c].page = k.page
    BY <1>1, <1>2, <2>2 DEF CallTypes
  <2>4. p # k.page
    BY <2>3 DEF Disturbed, Working, At
  <2>5. blob' = blob /\ index' = index /\ row'[p] = row[p]
    BY <1>7, <2>4 DEF PersistRow, TypeInv, TypeOK
  <2>6. p \notin Disturbed(k)
    BY <1>2, <2>1, <2>4 DEF Disturbed
  <2> QED BY <1>3, <2>1, <2>5, <2>6
<1>8. CASE ReplaceTwins(c)
  <2> DEFINE twins == TwinsOf(k.page, k.canonical)
  <2>1. k.at = "replace" /\ k.ids = {} /\ torn' = torn /\ raced' = raced
    BY <1>1, <1>8 DEF ReplaceTwins, Continue, At, CallOK
  <2>2. call'[c] = [k EXCEPT !.at = IF twins = {} THEN "index" ELSE "unblob",
                             !.rows = twins, !.ids = twins]
    BY <1>8, CallMoved DEF ReplaceTwins, Continue
  <2>3. /\ call'[c].at \in {"index", "unblob"} /\ call'[c].op = "upsert"
        /\ call'[c].page = k.page /\ call'[c].ids = twins
    BY <1>1, <1>2, <2>2 DEF CallTypes
  <2>4. p # k.page /\ p \notin twins
    BY <2>3 DEF Disturbed, Working, At
  <2>5. blob' = blob /\ index' = index /\ row'[p] = row[p]
    BY <1>8, <2>4 DEF ReplaceTwins, Without
  <2>6. p \notin Disturbed(k)
    BY <1>2, <2>1, <2>4 DEF Disturbed
  <2> QED BY <1>3, <2>1, <2>5, <2>6
<1>9. CASE IndexDocument(c)
  <2>1. k.at = "index" /\ k.copy = NoPage /\ row' = row /\ blob' = blob
    BY <1>1, <1>9 DEF IndexDocument, At, CallOK
  <2>2. \A q \in Pages : index'[q] = IF q = k.page THEN k.content ELSE index[q]
    BY <1>9 DEF IndexDocument, TypeInv, TypeOK
  <2>3. CASE p = k.page
    <3>1. row[p] = Written(k) /\ blob[p] = k.content /\ Written(k) \in Rows
      BY <1>1, <1>2, <2>1, <2>3 DEF TracedUpsert, AfterReplace, Written, Rows, CallOK,
         CallTypes
    <3> QED BY <2>1, <2>2, <2>3, <3>1, RowAssumption DEF Agrees, Written
  <2>4. CASE p # k.page /\ k.ids = {}
    <3>1. p \notin Disturbed(k)
      BY <1>2, <2>1, <2>4 DEF Disturbed
    <3> QED BY <1>3, <1>4, <2>1, <2>2, <2>4, <3>1
  <2>5. CASE p # k.page /\ k.ids # {}
    <3>1. call'[c] = [k EXCEPT !.at = "unindex"]
      BY <1>9, <2>5, CallMoved DEF IndexDocument, Continue
    <3>2. /\ call'[c].at = "unindex" /\ call'[c].op = "upsert"
          /\ call'[c].page = k.page /\ call'[c].ids = k.ids
      BY <1>1, <1>2, <3>1 DEF CallTypes
    <3>3. p \notin k.ids
      BY <3>2 DEF Disturbed, Working, At
    <3>4. p \notin Disturbed(k)
      BY <1>2, <2>1, <2>5, <3>3 DEF Disturbed
    <3> QED BY <1>3, <1>4, <2>1, <2>2, <2>5, <3>4
  <2> QED BY <2>3, <2>4, <2>5
<1> QED BY <1>5, <1>6, <1>7, <1>8, <1>9

LEMMA RemovalAgrees ==
  ASSUME TypeInv, NEW c \in Callers, Traced(call[c]),
         NEW p \in Pages, p \notin torn' \cup raced',
         p \notin torn \cup raced \cup Disturbed(call[c]) => Agrees(p),
         Working(c)' => p \notin Disturbed(call'[c]),
         SelectRows(c) \/ DeleteRows(c) \/ Fail(c)
  PROVE  Agrees(p)'
<1> DEFINE k == call[c]
<1>0. Working(c) /\ WorkStep(c)
  BY DEF SelectRows, DeleteRows, Fail, Working, At, WorkStep
<1>1. CallOK(k) /\ k \in CallTypes
  BY <1>0, WorkingCall
<1>2. ASSUME p \notin torn \cup raced, p \notin Disturbed(k),
             row'[p] = row[p], blob'[p] = blob[p], index'[p] = index[p]
      PROVE  Agrees(p)'
  BY <1>2 DEF Agrees
<1>3. CASE SelectRows(c)
  <2>1. Disturbed(k) = {} /\ torn' = torn /\ raced' = raced
    BY <1>3 DEF SelectRows, Continue, At, Disturbed
  <2> QED BY <1>2, <1>3, <2>1 DEF SelectRows
<1>4. CASE DeleteRows(c)
  <2>1. k.at = "delete" /\ k.op # "upsert" /\ Disturbed(k) = {}
    BY <1>1, <1>4 DEF DeleteRows, At, Disturbed, CallOK
  <2>2. Deleted(k) = k.rows /\ k.rows = Selected(k)
    BY <2>1 DEF Traced, TracedRemoval, Deleted
  <2>3. p \notin torn \cup raced
    BY <1>0, <2>1, Settles
  <2>4. p \notin k.rows
    <3>1. CASE k.rows # {}
      <4>1. call'[c] = [k EXCEPT !.at = "unindex", !.ids = k.rows]
        BY <1>4, <2>2, <3>1, CallMoved DEF DeleteRows, Continue
      <4>2. call'[c].at = "unindex" /\ call'[c].op = k.op /\ call'[c].ids = k.rows
        BY <1>1, <4>1 DEF CallTypes
      <4> QED BY <2>1, <4>2 DEF Disturbed, Working, At
    <3> QED BY <3>1
  <2>5. row'[p] = row[p] /\ blob' = blob /\ index' = index
    BY <1>4, <2>2, <2>4 DEF DeleteRows, Without, Selected
  <2> QED BY <1>2, <2>1, <2>3, <2>5
<1>5. CASE Fail(c)
  <2>1. Disturbed(k) \subseteq Touched(k)
    BY <1>1 DEF Disturbed, Touched, Targets, CallOK
  <2>2. /\ row' = row /\ blob' = blob /\ index' = index
        /\ p \notin torn \cup raced /\ p \notin Touched(k)
    BY <1>5 DEF Fail
  <2> QED BY <1>2, <2>1, <2>2
<1> QED BY <1>3, <1>4, <1>5

LEMMA CleanupAgrees ==
  ASSUME TypeInv, NEW c \in Callers, Traced(call[c]),
         NEW p \in Pages, p \notin torn' \cup raced',
         p \notin torn \cup raced \cup Disturbed(call[c]) => Agrees(p),
         Working(c)' => p \notin Disturbed(call'[c]),
         \/ RemoveEntries(c) \/ RemoveEntriesFails(c)
         \/ RemoveBlob(c) \/ RemoveBlobFails(c)
  PROVE  Agrees(p)'
<1> DEFINE k == call[c]
<1>0. Working(c) /\ WorkStep(c)
  BY DEF RemoveEntries, RemoveEntriesFails, RemoveBlob, RemoveBlobFails, Working, At,
         WorkStep
<1>1. CallOK(k) /\ k \in CallTypes
  BY <1>0, WorkingCall
<1>2. ASSUME p \notin torn \cup raced, p \notin Disturbed(k),
             row'[p] = row[p], blob'[p] = blob[p], index'[p] = index[p]
      PROVE  Agrees(p)'
  BY <1>2 DEF Agrees
<1>3. p \in torn \cup raced => k.op = "upsert" /\ p = k.page
  BY <1>0, Settles
\* The page of an upsert, once its entry is as its row says.
<1>4. ASSUME k.at = "unindex", k.op = "upsert", p = k.page, row' = row, blob' = blob,
             index'[p] = IF k.copy = NoPage THEN k.content ELSE NoContent
      PROVE  Agrees(p)'
  <2>1. row[p] = Written(k) /\ blob[p] = k.content /\ Written(k) \in Rows
    BY <1>1, <1>4 DEF Traced, TracedUpsert, AfterReplace, Written, Rows, CallOK, CallTypes
  <2> QED BY <1>4, <2>1, RowAssumption DEF Agrees, Written
<1>5. ASSUME k.at = "unindex", k.op = "upsert"
      PROVE  /\ k.rows = {}
             /\ k.copy = NoPage =>
                  /\ k.page \notin k.ids /\ index[k.page] = k.content
                  /\ \A q \in k.ids \ torn : row[q] = NoRow /\ blob[q] = NoContent
             /\ k.copy # NoPage => k.ids = {k.page}
             /\ Disturbed(k) = {k.page} \cup k.ids
  BY <1>1, <1>5 DEF CallOK, Traced, TracedUpsert, AfterReplace, Disturbed
<1>6. ASSUME k.at = "unindex", k.op # "upsert"
      PROVE  Disturbed(k) = k.ids /\ k.rows = k.ids
  BY <1>6 DEF Disturbed, Traced, TracedRemoval
<1>7. ASSUME call'[c] = [k EXCEPT !.at = "unblob"], k.op # "upsert" PROVE p \notin k.ids
  <2>1. call'[c].at = "unblob" /\ call'[c].op = k.op /\ call'[c].ids = k.ids
    BY <1>1, <1>7 DEF CallTypes
  <2> QED BY <1>7, <2>1 DEF Disturbed, Working, At
<1>8. CASE RemoveEntries(c) \/ RemoveEntriesFails(c)
  <2>1. RemovesEntries(c)
    BY <1>8, EntriesRemoved
  <2>2. /\ k.at = "unindex" /\ row' = row /\ blob' = blob
        /\ index'[p] = IF p \in k.ids THEN NoContent ELSE index[p]
    BY <2>1 DEF RemovesEntries
  <2>3. CASE k.op = "upsert" /\ p = k.page
    BY <1>4, <1>5, <2>2, <2>3
  <2>4. CASE k.op = "upsert" /\ p # k.page /\ p \in k.ids
    <3>1. row[p] = NoRow /\ blob[p] = NoContent
      BY <1>3, <1>5, <2>2, <2>4
    <3> QED BY <2>2, <2>4, <3>1 DEF Agrees
  <2>5. CASE k.op = "upsert" /\ p # k.page /\ p \notin k.ids
    BY <1>2, <1>3, <1>5, <2>2, <2>5
  <2>6. CASE k.op # "upsert"
    <3>1. k.ids # {} => call'[c] = [k EXCEPT !.at = "unblob"]
      BY <1>6, <2>1, <2>2, <2>6 DEF RemovesEntries
    <3>2. p \notin k.ids
      BY <1>7, <2>6, <3>1
    <3> QED BY <1>2, <1>3, <1>6, <2>2, <2>6, <3>2
  <2> QED BY <2>3, <2>4, <2>5, <2>6
<1>9. CASE RemoveBlob(c) \/ RemoveBlobFails(c)
  <2>1. PICK q \in k.rows : RemovesBlob(c, q)
    BY <1>9, BlobRemoved
  <2>2. k.rows \subseteq k.ids
    BY <1>1, <2>1 DEF RemovesBlob, Traced, TracedUpsert, TracedRemoval, AfterReplace, CallOK
  <2>3. Disturbed(k) = IF k.op = "upsert" THEN {k.page} \cup k.ids ELSE k.ids
    BY <2>1 DEF RemovesBlob, Disturbed
  <2>4. CASE p \notin Disturbed(k)
    <3>1. blob'[p] = blob[p] /\ row' = row /\ index' = index
      BY <2>1, <2>2, <2>3, <2>4 DEF RemovesBlob
    <3>2. p \notin torn \cup raced
      BY <1>3, <2>3, <2>4
    <3> QED BY <1>2, <2>4, <3>1, <3>2
  <2>5. CASE p \in Disturbed(k)
    <3>1. k.op # "upsert" /\ k.rows = {q}
      BY <2>1, <2>3, <2>5 DEF RemovesBlob, Disturbed, Working, At, Idle
    <3>2. p \in k.ids /\ p \notin torn
      BY <1>3, <2>3, <2>5, <3>1
    <3>3. row[p] = NoRow /\ index[p] = NoContent /\ (p # q => blob[p] = NoContent)
      BY <2>1, <3>1, <3>2 DEF RemovesBlob, Traced, TracedRemoval
    <3> QED BY <2>1, <3>3 DEF RemovesBlob, Agrees
  <2> QED BY <2>4, <2>5
<1> QED BY <1>8, <1>9

LEMMA StepAgreeOutside ==
  ASSUME TypeInv, Apart, CallsTraced, AgreeOutside, NEW c \in Callers, WorkStep(c)
  PROVE  AgreeOutside'
<1>1. Working(c) /\ SameElsewhere(call[c].page)
  BY StepMoves
<1>2. PICK x : Moves(c, x)
  BY StepMoves
<1>3. call'[c] = x /\ \A d \in Callers \ {c} : call'[d] = call[d]
  BY <1>2, CallMoved DEF Moves
<1>4. call[c] \in CallTypes
  BY <1>1, WorkingCall
<1>5. ASSUME NEW p \in Pages, p \notin torn' \cup raced', Undisturbed(p)'
      PROVE  Agrees(p)'
  <2>1. CASE HostOf[p] # HostOf[call[c].page]
    <3>1. p \in Pages \ PagesOf(call[c].page)
      BY <2>1 DEF PagesOf
    <3>2. /\ row'[p] = row[p] /\ blob'[p] = blob[p] /\ index'[p] = index[p]
          /\ p \notin torn /\ p \notin raced
      BY <1>1, <1>2, <1>4, <1>5, <3>1 DEF SameElsewhere, Moves, PagesOf, CallTypes
    <3>3. Undisturbed(p)
      <4>1. ASSUME NEW d \in WorkingOn(p) PROVE p \notin Disturbed(call[d])
        <5>1. d # c /\ d \in Callers
          BY <2>1 DEF WorkingOn
        <5>2. call'[d] = call[d] /\ d \in WorkingOn(p)'
          BY <1>3, <5>1 DEF WorkingOn, At
        <5> QED BY <1>5, <5>2 DEF Undisturbed
      <4> QED BY <4>1 DEF Undisturbed
    <3> QED BY <3>2, <3>3 DEF AgreeOutside, Agrees
  <2>2. CASE HostOf[p] = HostOf[call[c].page] /\ ~call[c].alone
    <3>1. p \in raced
      BY <1>1, <2>2 DEF Apart, PagesOf
    <3> QED BY <1>2, <1>5, <2>2, <3>1 DEF Moves
  <2>3. CASE HostOf[p] = HostOf[call[c].page] /\ call[c].alone
    <3>1. WorkingOn(p) = {c} /\ Traced(call[c])
      BY <1>1, <2>3 DEF Apart, CallsTraced, WorkingOn
    <3>2. p \notin torn \cup raced \cup Disturbed(call[c]) => Agrees(p)
      BY <3>1 DEF AgreeOutside, Undisturbed
    <3>3. Working(c)' => p \notin Disturbed(call'[c])
      <4>1. Working(c)' => c \in WorkingOn(p)'
        <5>1. Working(c)' => call'[c].page = call[c].page
          BY <1>2, <1>3 DEF Moves, Working, At, Idle
        <5> QED BY <2>3, <5>1 DEF WorkingOn, Working, At
      <4> QED BY <1>5, <4>1 DEF Undisturbed
    <3> QED BY <1>5, <3>1, <3>2, <3>3, UpsertAgrees, RemovalAgrees, CleanupAgrees
            DEF WorkStep
  <2> QED BY <2>1, <2>2, <2>3
<1> QED BY <1>5 DEF AgreeOutside, Agrees, Undisturbed, WorkingOn, At

-----------------------------------------------------------------------------
(* A row is never without its blob                                            *)

\* What a step of a call that is alone does to a page of its host.
LEMMA StepBlob ==
  ASSUME TypeInv, NEW c \in Callers, WorkStep(c), Traced(call[c]),
         NEW p \in Pages, p \notin raced', row'[p] # NoRow,
         p \notin raced /\ row[p] # NoRow => blob[p] # NoContent
  PROVE  blob'[p] # NoContent
<1> DEFINE k == call[c]
<1>0. Working(c)
  BY StepMoves
<1>1. CallOK(k) /\ k \in CallTypes
  BY <1>0, WorkingCall
<1>2. p \in raced => Return(c) /\ k.op = "upsert" /\ p = k.page
  <2>1. ~Return(c) => raced' = raced
    BY DEF WorkStep, LookUpCopy, WriteBlob, PersistRow, ReplaceTwins, IndexDocument,
           SelectRows, DeleteRows, RemoveEntries, RemoveBlob, Fail,
           RemoveEntriesFails, RemoveBlobFails, Continue
  <2> QED BY <2>1 DEF Return
\* An upsert that has come so far has written the blob of its page.
<1>3. k.op = "upsert" /\ k.at \in {"row", "replace"} \cup AfterReplace =>
        blob[k.page] = k.content /\ k.content # NoContent
  BY <1>1, PagesAssumption DEF Traced, TracedUpsert, CallOK
<1>4. CASE LookUpCopy(c) \/ SelectRows(c)
  <2>1. row' = row /\ blob' = blob /\ raced' = raced
    BY <1>4 DEF LookUpCopy, SelectRows, Continue
  <2> QED BY <2>1
<1>5. CASE WriteBlob(c)
  <2>1. row' = row /\ raced' = raced
        /\ \A q \in Pages : blob'[q] = IF q = k.page THEN k.content ELSE blob[q]
    BY <1>5 DEF WriteBlob, Continue, TypeInv, TypeOK
  <2>2. k.content # NoContent
    BY <1>1, <1>5, PagesAssumption DEF WriteBlob, At, CallOK
  <2> QED BY <2>1, <2>2
<1>6. CASE PersistRow(c)
  <2>1. /\ blob' = blob /\ raced' = raced /\ k.at = "row" /\ k.op = "upsert"
        /\ \A q \in Pages : q # k.page => row'[q] = row[q]
    BY <1>1, <1>6 DEF PersistRow, Continue, At, CallOK, TypeInv, TypeOK
  <2> QED BY <1>3, <2>1
<1>7. CASE ReplaceTwins(c)
  <2>1. blob' = blob /\ raced' = raced /\ row[p] # NoRow
    BY <1>7 DEF ReplaceTwins, Continue, Without
  <2> QED BY <2>1
<1>8. CASE DeleteRows(c)
  <2>1. blob' = blob /\ row[p] # NoRow /\ k.op # "upsert"
    BY <1>1, <1>8 DEF DeleteRows, Without, At, CallOK
  <2> QED BY <1>2, <2>1
<1>9. CASE IndexDocument(c) \/ RemoveEntries(c)
  <2>1. row' = row /\ blob' = blob /\ k.at \in {"index", "unindex"}
    BY <1>9 DEF IndexDocument, RemoveEntries, At
  <2> QED BY <1>2, <1>3, <2>1 DEF AfterReplace
<1>10. CASE RemoveBlob(c) \/ RemoveBlobFails(c)
  <2>1. PICK q \in k.rows : RemovesBlob(c, q)
    BY <1>10, BlobRemoved
  <2>2. k.rows \subseteq k.ids /\ row[q] = NoRow
    BY <1>1, <2>1 DEF RemovesBlob, Traced, TracedUpsert, TracedRemoval, AfterReplace, CallOK
  <2>3. p # q /\ p \notin raced
    BY <1>2, <2>1, <2>2 DEF RemovesBlob
  <2> QED BY <2>1, <2>3 DEF RemovesBlob
<1>11. CASE Fail(c) \/ RemoveEntriesFails(c)
  <2>1. row' = row /\ blob' = blob /\ raced' = raced
    BY <1>11 DEF Fail, RemoveEntriesFails
  <2> QED BY <2>1
<1> QED BY <1>4, <1>5, <1>6, <1>7, <1>8, <1>9, <1>10, <1>11 DEF WorkStep

LEMMA StepBlobBeforeRow ==
  ASSUME TypeInv, Apart, CallsTraced, BlobBeforeRow, NEW c \in Callers, WorkStep(c)
  PROVE  BlobBeforeRow'
<1>1. Working(c) /\ SameElsewhere(call[c].page)
  BY StepMoves
<1>2. PICK x : Moves(c, x)
  BY StepMoves
<1>3. call[c] \in CallTypes
  BY <1>1, WorkingCall
<1>4. ASSUME NEW p \in Pages, p \notin raced', row'[p] # NoRow
      PROVE  blob'[p] # NoContent
  <2>1. CASE HostOf[p] # HostOf[call[c].page]
    <3>1. row'[p] = row[p] /\ blob'[p] = blob[p] /\ p \notin raced
      BY <1>1, <1>2, <1>3, <1>4, <2>1 DEF SameElsewhere, Moves, PagesOf, CallTypes
    <3> QED BY <1>4, <3>1 DEF BlobBeforeRow
  <2>2. CASE HostOf[p] = HostOf[call[c].page] /\ ~call[c].alone
    <3>1. p \in raced
      BY <1>1, <2>2 DEF Apart, PagesOf
    <3> QED BY <1>2, <1>4, <2>2, <3>1 DEF Moves
  <2>3. CASE HostOf[p] = HostOf[call[c].page] /\ call[c].alone
    <3>1. Traced(call[c])
      BY <1>1, <2>3 DEF CallsTraced
    <3>2. p \notin raced /\ row[p] # NoRow => blob[p] # NoContent
      BY DEF BlobBeforeRow
    <3> QED BY <1>4, <3>1, <3>2, StepBlob
  <2> QED BY <2>1, <2>2, <2>3
<1> QED BY <1>4 DEF BlobBeforeRow

-----------------------------------------------------------------------------
(* A canonical URL is served by one document                                  *)

\* Pairs of rows a step of c leaves alone: if c was to replace one of them and
\* still is, or if another call is.
LEMMA PairKept ==
  ASSUME TypeInv, TwinsReplaced, NEW c \in Callers, NEW x, call' = [call EXCEPT ![c] = x],
         NEW p \in Searchable, NEW q \in Searchable, p # q, p \notin torn, q \notin torn,
         row'[p] = row[p], row[p].canonical = row[q].canonical,
         ~(At(c, "replace") /\ call[c].page \in {p, q} /\ call[c].canonical = row[p].canonical)
  PROVE  Replacing(p, q)'
<1>1. PICK d \in Callers : /\ At(d, "replace") /\ call[d].page \in {p, q}
                           /\ call[d].canonical = row[p].canonical
  BY DEF TwinsReplaced, Replacing
<1>2. call'[d] = call[d]
  BY <1>1, CallMoved
<1> QED BY <1>1, <1>2 DEF Replacing, At

\* Only the last step of an upsert makes good what an earlier call left.
LEMMA SettledLast ==
  ASSUME TypeInv, NEW c \in Callers, WorkStep(c),
         NEW p \in Pages, p \in torn, p \notin torn'
  PROVE  /\ call[c].op = "upsert" /\ call[c].alone /\ p = call[c].page
         /\ call[c].at \in {"index", "unindex"}
<1> DEFINE k == call[c]
<1>1. Return(c) => k.op = "upsert" /\ k.alone /\ p = k.page
  BY DEF Return
<1>2. CASE IndexDocument(c) \/ RemoveEntries(c)
  BY <1>1, <1>2 DEF IndexDocument, RemoveEntries, Continue, At
<1>3. CASE DeleteRows(c)
  <2>1. k.op # "upsert"
    BY <1>3, WorkingCall DEF DeleteRows, Working, At, CallOK
  <2> QED BY <1>1, <1>3, <2>1 DEF DeleteRows, Continue
<1>4. CASE RemoveBlob(c)
  <2>1. torn \subseteq torn'
    BY <1>4, BlobRemoved DEF RemovesBlob
  <2> QED BY <2>1
<1>5. CASE ~(\/ IndexDocument(c) \/ RemoveEntries(c) \/ DeleteRows(c)
             \/ RemoveBlob(c))
  BY <1>5 DEF WorkStep, LookUpCopy, WriteBlob, PersistRow, ReplaceTwins, SelectRows,
              Fail, RemoveEntriesFails, RemoveBlobFails, Continue
<1> QED BY <1>2, <1>3, <1>4, <1>5

LEMMA StepTwinsReplaced ==
  ASSUME TypeInv, TypeInv', CallsTraced, TwinsReplaced, NEW c \in Callers, WorkStep(c)
  PROVE  TwinsReplaced'
<1> DEFINE k == call[c]
<1>1. Working(c)
  BY StepMoves
<1>2. PICK x : call' = [call EXCEPT ![c] = x]
  BY StepMoves DEF Moves
<1>3. CallOK(k) /\ k \in CallTypes
  BY <1>1, WorkingCall
<1>4. ASSUME NEW p \in Pages, NEW q \in Pages, p # q, p \notin torn', q \notin torn',
             row'[p] # NoRow, row'[q] # NoRow, row'[p].copy = NoPage, row'[q].copy = NoPage,
             row'[p].canonical = row'[q].canonical
      PROVE  Replacing(p, q)'
  <2>1. CASE PersistRow(c) /\ k.page \in {p, q}
    <3>1. row'[k.page] = Written(k) /\ k.at = "row"
      BY <1>3, <2>1 DEF PersistRow, At, Written, TypeInv, TypeOK, CallTypes
    <3>2. k.copy = NoPage /\ row'[p].canonical = k.canonical
      BY <1>4, <2>1, <3>1 DEF Written
    <3>3. call'[c] = [k EXCEPT !.at = "replace"]
      BY <2>1, <3>2, CallMoved DEF PersistRow, Continue
    <3>4. /\ call'[c].at = "replace" /\ call'[c].page = k.page
          /\ call'[c].canonical = k.canonical
      BY <1>3, <3>3 DEF CallTypes
    <3> QED BY <2>1, <3>2, <3>4 DEF Replacing, At
  <2>2. CASE ~(PersistRow(c) /\ k.page \in {p, q})
    <3>1. row'[p] = row[p] /\ row'[q] = row[q]
      <4>1. CASE PersistRow(c)
        BY <2>2, <4>1 DEF PersistRow, TypeInv, TypeOK
      <4>2. CASE ReplaceTwins(c)
        BY <1>4, <4>2 DEF ReplaceTwins, Without
      <4>3. CASE DeleteRows(c)
        BY <1>4, <4>3 DEF DeleteRows, Without
      <4>4. CASE ~(PersistRow(c) \/ ReplaceTwins(c) \/ DeleteRows(c))
        BY <4>4 DEF WorkStep, LookUpCopy, WriteBlob, IndexDocument, SelectRows,
                    RemoveEntries, RemoveBlob, Fail, RemoveEntriesFails,
                    RemoveBlobFails
      <4> QED BY <4>1, <4>2, <4>3, <4>4
    <3>2. p \in Searchable /\ q \in Searchable
      BY <1>4, <3>1 DEF Searchable
    <3>3. p \notin torn /\ q \notin torn
      <4>1. ASSUME p \in torn \/ q \in torn PROVE FALSE
        <5>1. /\ k.op = "upsert" /\ k.alone /\ k.page \in {p, q}
              /\ k.at \in {"index", "unindex"}
          BY <1>4, <4>1, SettledLast
        <5>2. TracedUpsert(k)
          BY <1>1, <5>1 DEF CallsTraced, Traced
        <5>3. row[k.page] = Written(k) /\ k.copy = NoPage
          BY <1>4, <3>1, <5>1, <5>2 DEF TracedUpsert, AfterReplace, Written
        <5>4. TwinsOf(k.page, k.canonical) = {}
          BY <5>1, <5>2, <5>3 DEF TracedUpsert, AfterReplace
        <5> QED BY <1>4, <3>1, <3>2, <5>1, <5>3, <5>4 DEF TwinsOf, Written, Searchable
      <4> QED BY <4>1
    <3>4. ~(k.at = "replace" /\ k.page \in {p, q} /\ k.canonical = row[p].canonical)
      <4>1. ASSUME k.at = "replace", k.page \in {p, q}, k.canonical = row[p].canonical
            PROVE  FALSE
        <5>1. ReplaceTwins(c) \/ Fail(c)
          BY <4>1 DEF WorkStep, LookUpCopy, WriteBlob, PersistRow, IndexDocument,
                      SelectRows, DeleteRows, RemoveEntries, RemoveBlob,
                      RemoveEntriesFails, RemoveBlobFails, At
        <5>2. CASE ReplaceTwins(c)
          <6>1. \A r \in TwinsOf(k.page, k.canonical) : row'[r] = NoRow
            BY <5>2 DEF ReplaceTwins, Without, TwinsOf
          <6>2. row[q].canonical = k.canonical
            BY <1>4, <3>1, <4>1
          <6> QED BY <1>4, <3>2, <4>1, <6>1, <6>2 DEF TwinsOf, Searchable
        <5>3. CASE Fail(c)
          <6>1. k.page \in torn'
            BY <1>3, <5>3 DEF Fail, Touched, Targets, PagesOf, CallTypes
          <6> QED BY <1>4, <4>1, <6>1
        <5> QED BY <5>1, <5>2, <5>3
      <4> QED BY <4>1
    <3>5. row[p].canonical = row[q].canonical
      BY <1>4, <3>1
    <3> QED BY <1>2, <1>4, <3>1, <3>2, <3>3, <3>4, <3>5, PairKept DEF At
  <2> QED BY <2>1, <2>2
<1> QED BY <1>4 DEF TwinsReplaced, Searchable, Replacing, At

-----------------------------------------------------------------------------
(* Together                                                                   *)

Inv ==
  /\ TypeInv
  /\ Apart
  /\ CallsTraced
  /\ AgreeOutside
  /\ BlobBeforeRow
  /\ TwinsReplaced

LEMMA InitInv == Init => Inv
<1> SUFFICES ASSUME Init PROVE Inv
  OBVIOUS
<1>1. \A c \in Callers : ~Working(c)
  BY DEF Init, Working, At, Idle
<1>2. \A p \in Pages : row[p] = NoRow /\ blob[p] = NoContent /\ index[p] = NoContent
  BY DEF Init
<1>3. AgreeOutside /\ BlobBeforeRow /\ TwinsReplaced
  BY <1>2 DEF AgreeOutside, Agrees, BlobBeforeRow, TwinsReplaced, Searchable
<1> QED BY <1>1, <1>3, InitTyped DEF Inv, Apart, CallsTraced

LEMMA StepInv ==
  ASSUME Inv, TypeInv', NEW c \in Callers, WorkStep(c)
  PROVE  Inv'
BY StepApart, StepCallsTraced, StepAgreeOutside, StepBlobBeforeRow, StepTwinsReplaced
   DEF Inv

LEMMA NewCallInv ==
  ASSUME Inv, TypeInv', NEW c \in Callers, NEW p \in Pages, NEW k, Begin(c, p, k),
         CallOK(k), k.page = p, k.alone <=> WorkingOn(p) = {}, k.rows = {}, k.ids = {},
         \/ k.at = "lookup"
         \/ k.at = "select" /\ k.op # "upsert"
  PROVE  Inv'
<1> USE DEF Inv
<1>1. call \in [Callers -> CallTypes \cup {Idle}] /\ call'[c] = k /\ ~Working(c)
  BY DEF TypeInv, TypeOK, Begin, Working
<1>2. row' = row /\ blob' = blob /\ index' = index /\ torn' = torn /\ raced \subseteq raced'
  BY DEF Begin
<1>3. ASSUME NEW d \in Callers, Working(d)
      PROVE  /\ call'[d].at = call[d].at /\ call'[d].op = call[d].op
             /\ call'[d].page = call[d].page /\ call'[d].ids = call[d].ids
             /\ call'[d].canonical = call[d].canonical
             /\ call'[d].alone => call'[d] = call[d]
  <2>1. d # c /\ call[d] \in CallTypes
    BY <1>1, <1>3, WorkingCall
  <2>2. CASE d \in WorkingOn(p)
    <3>1. call'[d] = [call[d] EXCEPT !.alone = FALSE]
      BY <2>1, <2>2 DEF Begin
    <3> QED BY <2>1, <3>1 DEF CallTypes
  <2>3. CASE d \notin WorkingOn(p)
    BY <2>1, <2>3 DEF Begin
  <2> QED BY <2>2, <2>3
<1>4. ASSUME NEW d \in Callers, d # c, ~Working(d)
      PROVE  ~Working(d)'
  BY <1>4 DEF Begin, WorkingOn, Working, At
<1>5. Apart'
  BY BeginApart DEF CallOK, CallTypes
<1>6. CallsTraced'
  <2>1. ASSUME NEW d \in Callers, Working(d)', call'[d].alone
        PROVE  Traced(call[d])'
    <3>1. CASE d = c
      BY <1>1, <3>1 DEF Traced, TracedUpsert, TracedRemoval, AfterReplace, CallOK
    <3>2. CASE d # c
      <4>1. Working(d)
        BY <1>4, <2>1, <3>2
      <4>2. call'[d] = call[d] /\ Traced(call[d])
        BY <1>3, <2>1, <4>1 DEF CallsTraced
      <4> QED BY <1>2, <4>2
              DEF Traced, TracedUpsert, TracedRemoval, TwinsOf, Selected
    <3> QED BY <3>1, <3>2
  <2> QED BY <2>1 DEF CallsTraced, Working, At
<1>7. AgreeOutside'
  <2>1. ASSUME NEW q \in Pages, q \notin torn' \cup raced', Undisturbed(q)'
        PROVE  Agrees(q)'
    <3>1. ASSUME NEW d \in WorkingOn(q) PROVE q \notin Disturbed(call[d])
      <4>1. Working(d) /\ d \in Callers
        BY DEF WorkingOn, Working
      <4>2. d \in WorkingOn(q)'
        BY <1>3, <4>1 DEF WorkingOn, At
      <4>3. Disturbed(call'[d]) = Disturbed(call[d])
        BY <1>3, <4>1 DEF Disturbed
      <4> QED BY <2>1, <4>2, <4>3 DEF Undisturbed
    <3>2. Agrees(q)
      BY <1>2, <2>1, <3>1 DEF AgreeOutside, Undisturbed
    <3> QED BY <1>2, <3>2 DEF Agrees
  <2> QED BY <2>1 DEF AgreeOutside, Agrees, Undisturbed, WorkingOn, At
<1>8. BlobBeforeRow'
  BY <1>2 DEF BlobBeforeRow
<1>9. TwinsReplaced'
  <2>1. ASSUME NEW q \in Searchable \ torn, NEW r \in Searchable \ torn, q # r,
               row[q].canonical = row[r].canonical
        PROVE  Replacing(q, r)'
    <3>1. PICK d \in Callers : /\ At(d, "replace") /\ call[d].page \in {q, r}
                               /\ call[d].canonical = row[q].canonical
      BY <2>1 DEF TwinsReplaced, Replacing
    <3>2. Working(d)
      BY <3>1 DEF Working, At
    <3> QED BY <1>2, <1>3, <3>1, <3>2 DEF Replacing, At
  <2> QED BY <1>2, <2>1 DEF TwinsReplaced, Searchable, Replacing, At
<1> QED BY <1>5, <1>6, <1>7, <1>8, <1>9

LEMMA BeginInv ==
  ASSUME Inv, TypeInv', NEW c \in Callers, BeginUpsert(c) \/ BeginRemoval(c)
  PROVE  Inv'
<1>1. ASSUME NEW p \in Pages, NEW q \in Canonicals[p], NEW content \in Contents,
             Begin(c, p, NewCall("upsert", "lookup", p, content, q, WorkingOn(p) = {}))
      PROVE  Inv'
  <2> DEFINE k == NewCall("upsert", "lookup", p, content, q, WorkingOn(p) = {})
  <2>1. CallOK(k)
    BY PagesAssumption DEF CallOK, CallTypes, Steps, NewCall, AfterReplace
  <2>2. /\ k.page = p /\ (k.alone <=> WorkingOn(p) = {})
        /\ k.rows = {} /\ k.ids = {} /\ k.at = "lookup"
    BY DEF NewCall
  <2> HIDE DEF k
  <2>3. Begin(c, p, k)
    BY <1>1 DEF k
  <2> QED BY <2>1, <2>2, <2>3, NewCallInv
<1>2. ASSUME NEW p \in Pages, NEW op \in {"delete", "purge"},
             Begin(c, p, NewCall(op, "select", p, NoContent, p, WorkingOn(p) = {}))
      PROVE  Inv'
  <2> DEFINE k == NewCall(op, "select", p, NoContent, p, WorkingOn(p) = {})
  <2>1. CallOK(k)
    BY PagesAssumption DEF CallOK, CallTypes, Steps, NewCall, AfterReplace
  <2>2. /\ k.page = p /\ (k.alone <=> WorkingOn(p) = {})
        /\ k.rows = {} /\ k.ids = {} /\ k.at = "select" /\ k.op # "upsert"
    BY DEF NewCall
  <2> HIDE DEF k
  <2>3. Begin(c, p, k)
    BY <1>2 DEF k
  <2> QED BY <2>1, <2>2, <2>3, NewCallInv
<1> QED BY <1>1, <1>2 DEF BeginUpsert, BeginRemoval

LEMMA ReindexInv ==
  ASSUME Inv, TypeInv', ReindexExisting
  PROVE  Inv'
<1> USE DEF Inv
<1>1. /\ row' = row /\ blob' = blob /\ call' = call /\ torn' = torn /\ raced' = raced
      /\ \A c \in Callers : At(c, "idle")
      /\ \A p \in Pages : index'[p] = IF p \in Searchable THEN blob[p] ELSE index[p]
  BY DEF ReindexExisting
<1>2. Apart' /\ CallsTraced'
  BY <1>1 DEF Apart, CallsTraced, Working, At
<1>3. AgreeOutside'
  <2>1. \A p \in Pages \ (torn \cup raced) : Agrees(p)
    BY <1>1 DEF AgreeOutside, Undisturbed, WorkingOn
  <2> QED BY <1>1, <2>1 DEF AgreeOutside, Agrees, Searchable
<1>4. BlobBeforeRow'
  BY <1>1 DEF BlobBeforeRow
<1>5. TwinsReplaced'
  BY <1>1 DEF TwinsReplaced, Searchable, Replacing, At
<1> QED BY <1>2, <1>3, <1>4, <1>5

LEMMA StutterInv ==
  ASSUME Inv, TypeInv', UNCHANGED vars
  PROVE  Inv'
<1> USE DEF Inv, vars
<1>1. Apart'
  BY DEF Apart, WorkingOn, Working, At
<1>2. CallsTraced'
  BY DEF CallsTraced, Traced, TracedUpsert, TracedRemoval, TwinsOf, Selected, Working, At
<1>3. AgreeOutside'
  BY DEF AgreeOutside, Agrees, Undisturbed, WorkingOn, At
<1>4. BlobBeforeRow'
  BY DEF BlobBeforeRow
<1>5. TwinsReplaced'
  BY DEF TwinsReplaced, Searchable, Replacing, At
<1> QED BY <1>1, <1>2, <1>3, <1>4, <1>5

LEMMA Preserved == Inv /\ [Next]_vars => Inv'
<1> SUFFICES ASSUME Inv, [Next]_vars PROVE Inv'
  OBVIOUS
<1>1. TypeInv'
  BY Typed DEF Inv
<1>2. ASSUME NEW c \in Callers, UpsertStep(c) \/ RemovalStep(c) \/ FailureStep(c)
      PROVE  Inv'
  <2>1. BeginUpsert(c) \/ BeginRemoval(c) \/ WorkStep(c)
    BY <1>2 DEF UpsertStep, RemovalStep, FailureStep, WorkStep
  <2> QED BY <1>1, <2>1, BeginInv, StepInv
<1> QED BY <1>1, <1>2, ReindexInv, StutterInv DEF Next

LEMMA Invariant == Spec => []Inv
BY InitInv, Preserved, PTL DEF Spec

\* The three stores agree on every page that no call is working on, unless a
\* call ended half-way or calls overlapped there (upsert_documents,
\* delete_document, purge_site and reindex_existing_documents).
THEOREM CopiesAgreeHolds == Spec => []CopiesAgree
<1>1. Inv => CopiesAgree
  BY DEF Inv, AgreeOutside, Undisturbed, Agrees, CopiesAgree
<1> QED BY Invariant, <1>1, PTL

\* The reindex of bootstrap never meets a row without its blob, unless calls
\* have overlapped on its host.
THEOREM BlobBeforeRowHolds == Spec => []BlobBeforeRow
<1>1. Inv => BlobBeforeRow
  BY DEF Inv
<1> QED BY Invariant, <1>1, PTL

\* Two documents serve one canonical URL only while the upsert of one of them
\* has the other still to delete, or after it ended before it could.
THEOREM OneRowPerCanonicalHolds == Spec => []OneRowPerCanonical
<1>1. Inv => OneRowPerCanonical
  BY DEF Inv, TwinsReplaced, Replacing, OneRowPerCanonical
<1> QED BY Invariant, <1>1, PTL
=============================================================================
