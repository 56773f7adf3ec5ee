--------------------------- MODULE DeliveryProofs ----------------------------
(* Theorems about Delivery, for every value of its constants. *)
EXTENDS Delivery, FiniteSetTheorems, TLAPS

-----------------------------------------------------------------------------
(* The types the first argument needs: how many results a pass may still     *)
(* take is left open until TypesInv.                                         *)
Pass == [pc : Places, ids : SUBSET Items, left : Int, any : BOOLEAN,
         work : [Items -> Works], todo : SUBSET Leases,
         at : Leases, view : BatchStatuses]

Types ==
  /\ report \in [Items -> Reports]
  /\ item \in [Items -> ItemStatuses]
  /\ staged \in Seq(Items)
  /\ stale \subseteq {i \in Items : item[i] = "processing"}
  /\ batch \in [Leases -> BatchStatuses]
  /\ idle \subseteq Items
  /\ proj \in [Projectors -> Pass]
  /\ blurred \subseteq Leases

(* Projector q has counted the items of l; it has still to count them; it    *)
(* has taken item i and not yet marked the batches; an item of l is waiting. *)
Viewing(q, l) == proj[q].view # NoView /\ proj[q].at = l
Pending(q, l) == l \in proj[q].todo /\ ~Viewing(q, l)
Taken(q, i) == proj[q].pc = "claimed" /\ proj[q].work[i] = "taken"
Asked(l) == \E q \in Projectors : Pending(q, l)
Open(l) == \E i \in ItemsOf(l) : item[i] \in {"pending", "processing"}

(* A report has staged its result or has not. *)
ReportsSound ==
  \A i \in Items : /\ report[i] \in {"none", "batched"} => item[i] = "none"
                   /\ report[i] \in {"staged", "accepted"} => item[i] # "none"

(* What a projector carries at each of its statements.                       *)
PassSound(q) ==
  /\ proj[q].view # NoView => proj[q].pc \in {"pass", "drain"} /\ proj[q].at \in proj[q].todo
  /\ proj[q].todo # {} => proj[q].pc \in {"recover_failed", "pass", "drain"}
  /\ \A i \in Items : proj[q].work[i] # "none" =>
                        proj[q].pc \in {"claimed", "drain"} /\ item[i] # "none"

(* One projector at most has counted the items of l, and its count is of     *)
(* today, or another count is to come, or an item still waits; an item that  *)
(* settles while a report or a claim has the batch row still to write asks   *)
(* for another count; and when nobody is on the way the row is right.        *)
BatchSound(l) ==
  /\ \A p, q \in Projectors : Viewing(p, l) /\ Viewing(q, l) => p = q
  /\ \A p \in Projectors : Viewing(p, l) =>
       proj[p].view = Summary(l) \/ Asked(l) \/ Open(l)
  /\ \A i \in Reporting(l) : item[i] \in Settled => Asked(l)
  /\ \A p \in Projectors : \A i \in ItemsOf(l) :
       Taken(p, i) /\ item[i] \in Settled => Asked(l)
  /\ Reporting(l) = {} /\ Refreshing(l) = {} /\ ~Open(l)
       /\ (\E i \in ItemsOf(l) : item[i] # "none")
     => batch[l] = Summary(l)

IInv ==
  /\ Types
  /\ ReportsSound
  /\ \A q \in Projectors : PassSound(q)
  /\ \A l \in Leases \ blurred : BatchSound(l)

-----------------------------------------------------------------------------
LEMMA ItemOf ==
  /\ \A i \in Items : LeaseOf[i] \in Leases /\ i \in ItemsOf(LeaseOf[i])
  /\ \A l \in Leases : \A i \in ItemsOf(l) : i \in Items /\ LeaseOf[i] = l
BY DeliveryConstants DEF ItemsOf

LEMMA SummaryIs ==
  ASSUME NEW l \in Leases
  PROVE  Summary(l) = IF \E i \in ItemsOf(l) : item[i] = "failed" THEN "failed"
                      ELSE IF Open(l) THEN "processing" ELSE "completed"
BY DEF Summary, Open

LEMMA SummaryIsNext ==
  ASSUME NEW l \in Leases
  PROVE  Summary(l)' = IF \E i \in ItemsOf(l) : item'[i] = "failed" THEN "failed"
                       ELSE IF Open(l)' THEN "processing" ELSE "completed"
BY DEF Summary, Open, ItemsOf

(* A pending item that is taken, or taken back, is as open as it was.        *)
SameStatus(a, b) == a = b \/ {a, b} \subseteq {"pending", "processing"}

LEMMA SummaryKept ==
  ASSUME NEW l \in Leases, \A i \in ItemsOf(l) : SameStatus(item[i], item'[i])
  PROVE  Summary(l)' = Summary(l) /\ Open(l)' = Open(l)
<1>1. \A i \in ItemsOf(l) :
        /\ item'[i] = "failed" <=> item[i] = "failed"
        /\ item'[i] \in {"pending", "processing"} <=> item[i] \in {"pending", "processing"}
  BY DEF SameStatus
<1>2. Open(l)' = Open(l)
  BY <1>1 DEF Open, ItemsOf
<1>3. QED
  BY <1>1, <1>2, SummaryIs, SummaryIsNext

(* A lease that a step does not concern, or only by work that is begun.      *)
LEMMA BatchKept ==
  ASSUME NEW l \in Leases, BatchSound(l),
         \A i \in ItemsOf(l) : SameStatus(item[i], item'[i]),
         batch'[l] = batch[l],
         Reporting(l)' = Reporting(l),
         \A q \in Projectors :
           /\ Viewing(q, l)' <=> Viewing(q, l)
           /\ Viewing(q, l) => proj'[q].view = proj[q].view
           /\ Pending(q, l) => Pending(q, l)'
           /\ \A i \in ItemsOf(l) : Taken(q, i)' /\ item'[i] \in Settled => Taken(q, i),
         Refreshing(l)' = {} => Refreshing(l) = {}
  PROVE  BatchSound(l)'
<1>1. Summary(l)' = Summary(l) /\ Open(l)' = Open(l)
  BY SummaryKept
<1>2. Asked(l) => Asked(l)'
  BY DEF Asked
<1>3. \A i \in ItemsOf(l) : /\ item'[i] \in Settled <=> item[i] \in Settled
                            /\ item'[i] = "none" <=> item[i] = "none"
  BY DEF SameStatus, Settled
<1>4. ItemsOf(l)' = ItemsOf(l) /\ Reporting(l) \subseteq ItemsOf(l)
  BY DEF ItemsOf, Reporting
<1>5. \A p, q \in Projectors : Viewing(p, l)' /\ Viewing(q, l)' => p = q
  BY DEF BatchSound
<1>6. \A p \in Projectors : Viewing(p, l)' =>
        proj'[p].view = Summary(l)' \/ Asked(l)' \/ Open(l)'
  BY <1>1, <1>2 DEF BatchSound
<1>7. ASSUME NEW i \in Reporting(l)', item'[i] \in Settled PROVE Asked(l)'
  <2>1. i \in Reporting(l) /\ item[i] \in Settled
    BY <1>3, <1>4, <1>7
  <2>2. QED
    BY <1>2, <2>1 DEF BatchSound
<1>8. ASSUME NEW p \in Projectors, NEW i \in ItemsOf(l), Taken(p, i)', item'[i] \in Settled
      PROVE  Asked(l)'
  <2>1. Taken(p, i) /\ item[i] \in Settled
    BY <1>3, <1>8
  <2>2. QED
    BY <1>2, <2>1 DEF BatchSound
<1>9. Reporting(l)' = {} /\ Refreshing(l)' = {} /\ ~Open(l)'
        /\ (\E i \in ItemsOf(l) : item'[i] # "none")
      => batch'[l] = Summary(l)'
  BY <1>1, <1>3 DEF BatchSound
<1>10. QED
  BY <1>4, <1>5, <1>6, <1>7, <1>8, <1>9 DEF BatchSound

(* A lease another count is to come for.                                     *)
LEMMA BatchAsked ==
  ASSUME NEW l \in Leases, BatchSound(l), Asked(l)',
         \A q \in Projectors : Viewing(q, l)' => Viewing(q, l)
  PROVE  BatchSound(l)'
<1>1. Refreshing(l)' # {}
  BY DEF Asked, Pending, Refreshing
<1>2. QED
  BY <1>1 DEF BatchSound

(* A lease that nobody is on the way to.                                     *)
LEMMA BatchQuiet ==
  ASSUME NEW l \in Leases, Reporting(l)' = {}, 
         \A q \in Projectors : ~Viewing(q, l)' /\ \A i \in ItemsOf(l) : ~Taken(q, i)',
         Refreshing(l)' = {} /\ ~Open(l)' /\ (\E i \in ItemsOf(l) : item'[i] # "none")
           => batch'[l] = Summary(l)'
  PROVE  BatchSound(l)'
BY DEF BatchSound, ItemsOf

-----------------------------------------------------------------------------
(* The steps of reports and of time leave the projectors as they are.        *)
LEMMA ProjectorsKept ==
  ASSUME NEW l \in Leases, UNCHANGED proj
  PROVE  /\ Refreshing(l)' = Refreshing(l)
         /\ Asked(l)' = Asked(l)
         /\ \A q \in Projectors :
              /\ Viewing(q, l)' <=> Viewing(q, l)
              /\ Pending(q, l) <=> Pending(q, l)'
              /\ \A i \in ItemsOf(l) : Taken(q, i)' <=> Taken(q, i)
BY DEF Refreshing, ItemsOf, Asked, Viewing, Pending, Taken

(* Nobody is on the way to the row: nobody has counted, nobody has taken.    *)
LEMMA NobodyRefreshes ==
  ASSUME IInv, NEW l \in Leases, Refreshing(l) = {}
  PROVE  /\ ~Asked(l)
         /\ \A q \in Projectors : ~Viewing(q, l) /\ \A i \in ItemsOf(l) : ~Taken(q, i)
<1>1. \A q \in Projectors : l \notin proj[q].todo
  BY DEF Refreshing
<1>2. \A q \in Projectors : \A i \in ItemsOf(l) : ~Taken(q, i)
  BY DEF Refreshing, Taken
<1>3. QED
  BY <1>1, <1>2 DEF IInv, PassSound, Viewing, Pending, Asked

(* A step about the result i alone.                                          *)
LEMMA ReportFrame ==
  ASSUME IInv, NEW i \in Items, UNCHANGED proj, Types', blurred \subseteq blurred',
         \A j \in Items \ {i} : report'[j] = report[j] /\ item'[j] = item[j],
         report'[i] \in {"none", "batched"} => item'[i] = "none",
         report'[i] \in {"staged", "accepted"} => item'[i] # "none",
         item[i] # "none" => item'[i] # "none",
         \A l \in Leases \ {LeaseOf[i]} : batch'[l] = batch[l],
         LeaseOf[i] \notin blurred' => BatchSound(LeaseOf[i])'
  PROVE  IInv'
<1>1. ReportsSound'
  BY DEF IInv, ReportsSound
<1>2. ASSUME NEW q \in Projectors PROVE PassSound(q)'
  BY DEF IInv, PassSound
<1>3. ASSUME NEW l \in Leases \ blurred', l # LeaseOf[i] PROVE BatchSound(l)'
  <2>1. \A j \in ItemsOf(l) : j # i /\ report'[j] = report[j] /\ item'[j] = item[j]
    BY <1>3, ItemOf
  <2>2. Reporting(l)' = Reporting(l)
    BY <2>1 DEF Reporting, ItemsOf
  <2>3. QED
    BY <1>3, <2>1, <2>2, ProjectorsKept, BatchKept DEF IInv, SameStatus
<1>4. QED
  BY <1>1, <1>2, <1>3 DEF IInv

LEMMA ReportBeginsStep ==
  ASSUME IInv, NEW i \in Items, ReportBegins(i)
  PROVE  IInv'
<1> DEFINE l == LeaseOf[i]
<1>0. /\ report[i] = "none"
      /\ report' = [report EXCEPT ![i] = "batched"]
      /\ batch' = [batch EXCEPT ![l] = IF @ = "none" THEN "pending" ELSE @]
      /\ UNCHANGED <<item, staged, stale, idle, proj, blurred>>
  BY DEF ReportBegins, stream
<1>1. l \in Leases
  BY ItemOf
<1>2. Types'
  BY <1>0, <1>1 DEF IInv, Types, Reports, BatchStatuses
<1>3. item[i] = "none"
  BY <1>0 DEF IInv, ReportsSound
<1>4. /\ \A j \in Items \ {i} : report'[j] = report[j]
      /\ report'[i] = "batched"
      /\ \A k \in Leases \ {l} : batch'[k] = batch[k]
      /\ batch'[l] = IF batch[l] = "none" THEN "pending" ELSE batch[l]
  BY <1>0, <1>1 DEF IInv, Types
<1>5. l \notin blurred => BatchSound(l)'
  <2> SUFFICES ASSUME l \notin blurred PROVE BatchSound(l)'
    OBVIOUS
  <2>1. BatchSound(l) /\ l \in Leases
    BY <1>1 DEF IInv
  <2> HIDE DEF l
  <2>2. Summary(l)' = Summary(l) /\ Open(l)' = Open(l) /\ ItemsOf(l)' = ItemsOf(l)
    BY <1>0, <2>1, SummaryKept DEF SameStatus, ItemsOf
  <2>3. Reporting(l)' = Reporting(l)
    BY <1>0, <1>4 DEF Reporting, ItemsOf
  <2>4. Summary(l) # "none"
    BY <2>1, SummaryIs
  <2>5. batch[l] = Summary(l) => batch'[l] = Summary(l)
    BY <1>4, <2>4
  <2>6. QED
    BY <1>0, <2>1, <2>2, <2>3, <2>5, ProjectorsKept DEF BatchSound
<1>6. QED
  BY <1>0, <1>2, <1>3, <1>4, <1>5, ReportFrame

LEMMA StageItemStep ==
  ASSUME IInv, NEW i \in Items, StageItem(i)
  PROVE  IInv'
<1> DEFINE l == LeaseOf[i]
<1>0. /\ report[i] = "batched"
      /\ report' = [report EXCEPT ![i] = "staged"]
      /\ item' = [item EXCEPT ![i] = "pending"]
      /\ staged' = Append(staged, i)
      /\ UNCHANGED <<stale, batch, idle, proj, blurred>>
  BY DEF StageItem, stream
<1>1. l \in Leases /\ i \in ItemsOf(l)
  BY ItemOf
<1>2. item[i] = "none"
  BY <1>0 DEF IInv, ReportsSound
<1>3. /\ \A j \in Items \ {i} : report'[j] = report[j] /\ item'[j] = item[j]
      /\ report'[i] = "staged" /\ item'[i] = "pending"
  BY <1>0 DEF IInv, Types
<1>4. Types'
  <2>1. staged' \in Seq(Items)
    BY <1>0 DEF IInv, Types
  <2>2. report' \in [Items -> Reports] /\ item' \in [Items -> ItemStatuses]
    BY <1>0 DEF IInv, Types, Reports, ItemStatuses
  <2>3. stale' \subseteq {j \in Items : item'[j] = "processing"}
    BY <1>0, <1>2, <1>3 DEF IInv, Types
  <2>4. QED
    BY <1>0, <2>1, <2>2, <2>3 DEF IInv, Types
<1>5. l \notin blurred => BatchSound(l)'
  <2> SUFFICES ASSUME l \notin blurred PROVE BatchSound(l)'
    OBVIOUS
  <2>1. BatchSound(l)
    BY <1>1 DEF IInv
  <2> HIDE DEF l
  <2>2. Open(l)' /\ i \in Reporting(l)' /\ ItemsOf(l)' = ItemsOf(l)
    BY <1>1, <1>3 DEF Open, Reporting, ItemsOf
  <2>3. \A j \in ItemsOf(l) : item'[j] \in Settled => item[j] \in Settled /\ j # i
    BY <1>3 DEF Settled, ItemsOf
  <2>4. \A j \in Reporting(l)' : j = i \/ j \in Reporting(l)
    BY <1>3 DEF Reporting, ItemsOf
  <2>5. Reporting(l)' \subseteq ItemsOf(l)
    BY DEF Reporting, ItemsOf
  <2>6. ASSUME NEW j \in Reporting(l)', item'[j] \in Settled PROVE Asked(l)'
    BY <1>0, <1>1, <2>1, <2>3, <2>4, <2>5, <2>6, ProjectorsKept DEF BatchSound
  <2>7. ASSUME NEW p \in Projectors, NEW j \in ItemsOf(l), Taken(p, j)', item'[j] \in Settled
        PROVE  Asked(l)'
    BY <1>0, <1>1, <2>1, <2>3, <2>7, ProjectorsKept DEF BatchSound
  <2>8. \A p, q \in Projectors : Viewing(p, l)' /\ Viewing(q, l)' => p = q
    BY <1>0, <1>1, <2>1, ProjectorsKept DEF BatchSound
  <2>9. QED
    BY <2>2, <2>6, <2>7, <2>8 DEF BatchSound
<1>6. QED
  BY <1>0, <1>2, <1>3, <1>4, <1>5, ReportFrame

(* Steps that no projector and no batch row takes part in.                   *)
LEMMA AsideSteps ==
  ASSUME IInv, NEW i \in Items,
         AcceptReport(i) \/ JobLeaves(i) \/ Dropped(i) \/ Idles(i) \/ Ages(i)
  PROVE  IInv'
<1>0. /\ UNCHANGED <<item, staged, batch, proj, blurred>>
      /\ idle' \subseteq idle \cup {i}
      /\ stale' = stale \/ (item[i] = "processing" /\ stale' = stale \cup {i})
      /\ \/ report' = report
         \/ /\ report[i] = "staged"
            /\ report' = [report EXCEPT ![i] = "accepted"]
  BY DEF AcceptReport, JobLeaves, Dropped, Idles, Ages, stream, reporting
<1>1. LeaseOf[i] \in Leases
  BY ItemOf
<1>2. Types'
  <2>1. report' \in [Items -> Reports] /\ idle' \subseteq Items
    BY <1>0 DEF IInv, Types, Reports
  <2>2. stale' \subseteq {j \in Items : item'[j] = "processing"}
    BY <1>0 DEF IInv, Types
  <2>3. QED
    BY <1>0, <2>1, <2>2 DEF IInv, Types
<1>3. /\ \A j \in Items \ {i} : report'[j] = report[j]
      /\ report'[i] = report[i] \/ (report[i] = "staged" /\ report'[i] = "accepted")
  BY <1>0 DEF IInv, Types
<1>4. ASSUME LeaseOf[i] \notin blurred PROVE BatchSound(LeaseOf[i])'
  <2>1. Reporting(LeaseOf[i])' = Reporting(LeaseOf[i])
    BY <1>3 DEF Reporting, ItemsOf
  <2>2. BatchSound(LeaseOf[i])
    BY <1>1, <1>4 DEF IInv
  <2>3. QED
    BY <1>0, <1>1, <2>1, <2>2, ProjectorsKept, BatchKept DEF SameStatus
<1>5. /\ report'[i] \in {"none", "batched"} => item'[i] = "none"
      /\ report'[i] \in {"staged", "accepted"} => item'[i] # "none"
  BY <1>0, <1>3 DEF IInv, ReportsSound
<1>6. QED
  BY <1>0, <1>2, <1>3, <1>4, <1>5, ReportFrame

(* A report that has nothing left to write, or is cut short: if it was the   *)
(* last, a result that settled meanwhile has somebody asked to count it.     *)
LEMMA ReportLeavesSteps ==
  ASSUME IInv, NEW i \in Items, Publish(i) \/ ReportFails(i) \/ CountResults(i)
  PROVE  IInv'
<1> DEFINE l == LeaseOf[i]
<1>0. /\ UNCHANGED <<item, staged, stale, idle, proj>>
      /\ report[i] # "none"
      /\ \E r \in {"counted", "ended"} : report' = [report EXCEPT ![i] = r]
      /\ \/ UNCHANGED <<batch, blurred>>
         \/ /\ report[i] = "accepted"
            /\ batch' = [batch EXCEPT ![l] = IF @ = "completed" THEN @ ELSE "pending"]
            /\ blurred' = IF Refreshing(l) # {} THEN blurred \cup {l} ELSE blurred
  BY DEF Publish, ReportFails, CountResults, stream
<1>1. l \in Leases /\ i \in ItemsOf(l)
  BY ItemOf
<1>2. /\ \A j \in Items \ {i} : report'[j] = report[j]
      /\ report'[i] \in {"counted", "ended"}
      /\ \A k \in Leases \ {l} : batch'[k] = batch[k]
  BY <1>0, <1>1 DEF IInv, Types
<1>3. Types'
  BY <1>0, <1>1 DEF IInv, Types, Reports, BatchStatuses
<1>4. blurred \subseteq blurred'
  BY <1>0
<1>5. ASSUME l \notin blurred' PROVE BatchSound(l)'
  <2>1. BatchSound(l)
    BY <1>1, <1>4, <1>5 DEF IInv
  <2>2. batch' = batch \/ (Refreshing(l) = {} /\ report[i] = "accepted")
    BY <1>0, <1>5
  <2> HIDE DEF l
  <2>3. /\ Summary(l)' = Summary(l) /\ Open(l)' = Open(l) /\ ItemsOf(l)' = ItemsOf(l)
        /\ \A j \in Reporting(l) : j = i \/ j \in Reporting(l)'
        /\ Reporting(l)' \subseteq Reporting(l)
        /\ i \in Reporting(l) => report[i] \in {"staged", "accepted"}
        /\ report[i] = "accepted" => i \in Reporting(l)
    BY <1>0, <1>1, <1>2, SummaryKept DEF SameStatus, Reporting, ItemsOf
  <2>4. i \in Reporting(l) => item[i] # "none"
    BY <2>3 DEF IInv, ReportsSound
  <2>5. Refreshing(l) = {} => ~Asked(l)
    BY <1>1, NobodyRefreshes
  <2>6. item[i] \in ItemStatuses
    BY DEF IInv, Types
  <2>7. Refreshing(l) = {} /\ i \in Reporting(l) => Open(l)
    BY <1>1, <2>1, <2>4, <2>5, <2>6 DEF BatchSound, Open, Settled, ItemStatuses
  <2>8. Reporting(l)' = {} /\ Refreshing(l)' = {} /\ ~Open(l)'
          /\ (\E j \in ItemsOf(l) : item'[j] # "none")
        => batch'[l] = Summary(l)'
    <3> SUFFICES ASSUME Reporting(l)' = {}, Refreshing(l)' = {}, ~Open(l)',
                        \E j \in ItemsOf(l) : item'[j] # "none"
                 PROVE  batch'[l] = Summary(l)'
      OBVIOUS
    <3>1. Refreshing(l) = {}
      BY <1>0, <1>1, ProjectorsKept
    <3>2. i \notin Reporting(l)
      BY <2>3, <2>7, <3>1
    <3>3. Reporting(l) = {} /\ batch' = batch
      BY <2>2, <2>3, <3>2
    <3>4. QED
      BY <1>0, <2>1, <2>3, <3>1, <3>3 DEF BatchSound
  <2>9. \A j \in Reporting(l)' : item'[j] \in Settled => Asked(l)'
    BY <1>0, <1>1, <2>1, <2>3, ProjectorsKept DEF BatchSound
  <2>10. \A p \in Projectors : \A j \in ItemsOf(l) :
           Taken(p, j)' /\ item'[j] \in Settled => Asked(l)'
    BY <1>0, <1>1, <2>1, ProjectorsKept DEF BatchSound
  <2>11. \A p, q \in Projectors : Viewing(p, l)' /\ Viewing(q, l)' => p = q
    BY <1>0, <1>1, <2>1, ProjectorsKept DEF BatchSound
  <2>12. \A p \in Projectors : Viewing(p, l)' =>
           proj'[p].view = Summary(l)' \/ Asked(l)' \/ Open(l)'
    BY <1>0, <1>1, <2>1, <2>3, ProjectorsKept DEF BatchSound
  <2>13. QED
    BY <2>3, <2>8, <2>9, <2>10, <2>11, <2>12 DEF BatchSound
<1>6. QED
  BY <1>0, <1>2, <1>3, <1>4, <1>5, ReportFrame

LEMMA IngestTimesOutStep ==
  ASSUME IInv, NEW i \in Items, IngestTimesOut(i)
  PROVE  IInv'
<1> DEFINE l == LeaseOf[i]
           waits == item[i] \in {"pending", "processing"}
<1>0. /\ UNCHANGED <<report, staged, idle, proj>>
      /\ item' = [item EXCEPT ![i] = IF waits THEN "failed" ELSE @]
      /\ stale' = stale \ {i}
      /\ batch' = [batch EXCEPT ![l] = IF waits /\ @ # "completed" THEN "failed" ELSE @]
      /\ blurred' = IF waits /\ (batch[l] = "completed" \/ Reporting(l) # {}
                                   \/ Refreshing(l) # {})
                    THEN blurred \cup {l} ELSE blurred
  BY DEF IngestTimesOut, reporting, stream
<1>1. l \in Leases /\ i \in ItemsOf(l)
  BY ItemOf
<1>2. /\ \A j \in Items \ {i} : item'[j] = item[j]
      /\ item'[i] = IF waits THEN "failed" ELSE item[i]
      /\ \A k \in Leases \ {l} : batch'[k] = batch[k]
      /\ batch'[l] = IF waits /\ batch[l] # "completed" THEN "failed" ELSE batch[l]
  BY <1>0, <1>1 DEF IInv, Types
<1>3. Types'
  <2>1. item' \in [Items -> ItemStatuses] /\ batch' \in [Leases -> BatchStatuses]
    BY <1>0, <1>1 DEF IInv, Types, ItemStatuses, BatchStatuses
  <2>2. stale' \subseteq {j \in Items : item'[j] = "processing"}
    BY <1>0, <1>2 DEF IInv, Types
  <2>3. blurred' \subseteq Leases
    BY <1>0, <1>1 DEF IInv, Types
  <2>4. QED
    BY <1>0, <2>1, <2>2, <2>3 DEF IInv, Types
<1>4. blurred \subseteq blurred'
  BY <1>0
<1>5. ASSUME l \notin blurred' PROVE BatchSound(l)'
  <2>1. CASE ~waits
    <3>1. item' = item /\ batch' = batch /\ BatchSound(l)
      BY <1>0, <1>1, <1>4, <1>5, <2>1 DEF IInv, Types
    <3> HIDE DEF l, waits
    <3>2. Reporting(l)' = Reporting(l)
      BY <1>0 DEF Reporting, ItemsOf
    <3>3. QED
      BY <1>0, <1>1, <3>1, <3>2, ProjectorsKept, BatchKept DEF SameStatus
  <2>2. CASE waits
    <3>1. Reporting(l) = {} /\ Refreshing(l) = {} /\ batch'[l] = "failed"
      BY <1>0, <1>2, <1>5, <2>2
    <3>2. item'[i] = "failed"
      BY <1>2, <2>2
    <3> HIDE DEF l, waits
    <3>3. Reporting(l)' = {}
      BY <1>0, <3>1 DEF Reporting, ItemsOf
    <3>4. Summary(l)' = "failed"
      BY <1>1, <3>2, SummaryIsNext
    <3>5. QED
      BY <1>0, <1>1, <3>1, <3>3, <3>4, NobodyRefreshes, ProjectorsKept, BatchQuiet
  <2>3. QED
    BY <2>1, <2>2
<1>6. QED
  BY <1>0, <1>2, <1>3, <1>4, <1>5, ReportFrame DEF IInv, ReportsSound

-----------------------------------------------------------------------------
(* A step of projector p.                                                    *)
LEMMA PassFrame ==
  ASSUME IInv, NEW p \in Projectors, UNCHANGED report, Types', PassSound(p)',
         \A q \in Projectors \ {p} : proj'[q] = proj[q],
         \A i \in Items : item'[i] = "none" <=> item[i] = "none",
         \A l \in Leases \ blurred' : BatchSound(l)'
  PROVE  IInv'
<1>1. ReportsSound'
  BY DEF IInv, ReportsSound
<1>2. ASSUME NEW q \in Projectors PROVE PassSound(q)'
  BY DEF IInv, PassSound
<1>3. QED
  BY <1>1, <1>2 DEF IInv

(* A lease the step takes nobody off, and settles nothing of.                *)
LEMMA LeaseKept ==
  ASSUME NEW p \in Projectors, NEW l \in Leases, BatchSound(l), UNCHANGED report,
         \A q \in Projectors \ {p} : proj'[q] = proj[q],
         \A i \in ItemsOf(l) : SameStatus(item[i], item'[i]),
         batch'[l] = batch[l],
         Viewing(p, l)' <=> Viewing(p, l),
         Viewing(p, l) => proj'[p].view = proj[p].view,
         Pending(p, l) => Pending(p, l)',
         \A i \in ItemsOf(l) : Taken(p, i)' /\ item'[i] \in Settled => Taken(p, i),
         p \in Refreshing(l) => p \in Refreshing(l)'
  PROVE  BatchSound(l)'
<1>1. Reporting(l)' = Reporting(l)
  BY DEF Reporting, ItemsOf
<1>2. ASSUME NEW q \in Projectors \ {p}
      PROVE  /\ Viewing(q, l)' <=> Viewing(q, l)
             /\ Pending(q, l)' <=> Pending(q, l)
             /\ q \in Refreshing(l)' <=> q \in Refreshing(l)
             /\ \A i \in ItemsOf(l) : Taken(q, i)' <=> Taken(q, i)
  BY DEF Viewing, Pending, Refreshing, Taken, ItemsOf
<1>3. Refreshing(l) \subseteq Projectors
  BY DEF Refreshing
<1>4. Refreshing(l)' = {} => Refreshing(l) = {}
  BY <1>2, <1>3
<1>5. \A q \in Projectors :
        /\ Viewing(q, l)' <=> Viewing(q, l)
        /\ Viewing(q, l) => proj'[q].view = proj[q].view
        /\ Pending(q, l) => Pending(q, l)'
        /\ \A i \in ItemsOf(l) : Taken(q, i)' /\ item'[i] \in Settled => Taken(q, i)
  BY <1>2
<1>6. QED
  BY <1>1, <1>4, <1>5, BatchKept

(* A step that no batch row takes part in: p goes on with the leases it had  *)
(* to refresh, or had none.                                                  *)
LEMMA PassAside ==
  ASSUME IInv, NEW p \in Projectors, UNCHANGED <<report, item, staged, stale, batch, blurred>>,
         idle' \subseteq Items,
         proj' \in [Projectors -> Pass],
         \A q \in Projectors \ {p} : proj'[q] = proj[q],
         proj[p].pc # "claimed", proj'[p].pc # "claimed",
         proj'[p].todo = proj[p].todo, proj'[p].view = proj[p].view,
         proj[p].view # NoView => proj'[p].at = proj[p].at,
         proj[p].todo # {} => proj'[p].pc = proj[p].pc,
         \A i \in Items : proj'[p].work[i] # "none" =>
                            proj[p].work[i] # "none" /\ proj'[p].pc = "drain"
  PROVE  IInv'
<1>1. Types'
  BY DEF IInv, Types
<1>2. PassSound(p)'
  BY DEF IInv, PassSound
<1>3. ASSUME NEW l \in Leases \ blurred PROVE BatchSound(l)'
  <2>1. /\ Viewing(p, l)' <=> Viewing(p, l)
        /\ Viewing(p, l) => proj'[p].view = proj[p].view
    BY DEF Viewing
  <2>2. Pending(p, l) => Pending(p, l)'
    BY <2>1 DEF Pending
  <2>3. \A i \in ItemsOf(l) : ~Taken(p, i) /\ ~Taken(p, i)'
    BY DEF Taken
  <2>4. p \in Refreshing(l) => p \in Refreshing(l)'
    BY DEF Refreshing
  <2>5. BatchSound(l)
    BY DEF IInv
  <2>6. QED
    BY <2>1, <2>2, <2>3, <2>4, <2>5, LeaseKept DEF SameStatus
<1>4. QED
  BY <1>1, <1>2, <1>3, PassFrame

LEMMA FreshType ==
  ASSUME NEW pc \in Places
  PROVE  /\ Fresh(pc) \in Pass
         /\ Fresh(pc).pc = pc /\ Fresh(pc).todo = {} /\ Fresh(pc).view = NoView
         /\ Fresh(pc).work = NoWork /\ \A i \in Items : Fresh(pc).work[i] = "none"
<1>1. (CHOOSE l \in Leases : TRUE) \in Leases
  BY DeliveryConstants
<1>2. NoWork \in [Items -> Works]
  BY DEF NoWork, Works
<1>3. NoView \in BatchStatuses /\ {} \in SUBSET Items /\ {} \in SUBSET Leases /\ FALSE \in BOOLEAN
  BY DEF NoView, BatchStatuses
<1>4. \A i \in Items : NoWork[i] = "none"
  BY DEF NoWork
<1>5. QED
  BY <1>1, <1>2, <1>3, <1>4 DEF Fresh, Pass

(* One projector's pass moves to r.                                           *)
LEMMA PassUpdated ==
  ASSUME proj \in [Projectors -> Pass], NEW p \in Projectors, NEW r \in Pass,
         proj' = [proj EXCEPT ![p] = r]
  PROVE  /\ proj' \in [Projectors -> Pass]
         /\ \A q \in Projectors \ {p} : proj'[q] = proj[q]
         /\ proj'[p] = r
OBVIOUS

(* What PassSound says of a projector that is not refreshing.                *)
LEMMA NotRefreshing ==
  ASSUME IInv, NEW p \in Projectors, proj[p].todo = {}
  PROVE  proj[p].view = NoView /\ \A l \in Leases : ~Viewing(p, l) /\ ~Pending(p, l)
BY DEF IInv, PassSound, Viewing, Pending

LEMMA PassAsideSteps ==
  ASSUME IInv, NEW p \in Projectors,
         \/ ReadBatch(p) \/ Drained(p) \/ PassEnds(p) \/ Ack(p) \/ Restarts(p)
         \/ \E i \in Items : TaskPanics(p, i) \/ \E ok \in BOOLEAN : Applied(p, i, ok)
  PROVE  IInv'
<1>0. /\ proj \in [Projectors -> Pass] /\ idle \subseteq Items
      /\ PassSound(p)
  BY DEF IInv, Types
<1>1. CASE ReadBatch(p)
  <2>1. /\ proj[p].pc = "read"
        /\ UNCHANGED <<report, item, staged, stale, batch, blurred>>
        /\ \E old \in Some(BatchSize, idle) :
           \E new \in Some(BatchSize - Cardinality(old), {i \in Items : msg[i] = "new"}) :
             /\ idle' = idle \ old
             /\ proj' = [proj EXCEPT ![p].pc = "recover", ![p].ids = old \cup new]
    BY <1>1 DEF ReadBatch, reporting
  <2>2. PICK ids \in SUBSET Items :
          proj' = [proj EXCEPT ![p].pc = "recover", ![p].ids = ids]
    BY <1>0, <2>1 DEF Some
  <2>3. idle' \subseteq Items
    BY <1>0, <2>1
  <2>4. /\ proj' \in [Projectors -> Pass]
        /\ \A q \in Projectors \ {p} : proj'[q] = proj[q]
        /\ proj'[p].pc = "recover"
        /\ proj'[p].todo = proj[p].todo /\ proj'[p].view = proj[p].view
        /\ proj'[p].at = proj[p].at /\ proj'[p].work = proj[p].work
    <3> DEFINE r == [proj[p] EXCEPT !.pc = "recover", !.ids = ids]
    <3>1. /\ r \in Pass /\ r.pc = "recover" /\ r.todo = proj[p].todo
          /\ r.view = proj[p].view /\ r.at = proj[p].at /\ r.work = proj[p].work
      BY <1>0 DEF Pass, Places
    <3>2. proj' = [proj EXCEPT ![p] = r]
      BY <1>0, <2>2
    <3> HIDE DEF r
    <3>3. QED
      BY <1>0, <3>1, <3>2, PassUpdated
  <2>5. proj[p].todo = {} /\ \A i \in Items : proj[p].work[i] = "none"
    BY <1>0, <2>1 DEF PassSound
  <2>6. QED
    BY <2>1, <2>3, <2>4, <2>5, PassAside
<1>2. CASE Drained(p) \/ PassEnds(p)
  <2>1. /\ proj[p].todo = {} /\ proj[p].pc \in {"pass", "drain"}
        /\ UNCHANGED <<report, item, staged, stale, batch, idle, blurred>>
        /\ \E pc \in {"pass", "ack"} : proj' = [proj EXCEPT ![p].pc = pc]
        /\ proj[p].pc = "drain" => proj[p].work = NoWork
    BY <1>2 DEF Drained, PassEnds, reporting, stream
  <2> PICK pc \in {"pass", "ack"} : proj' = [proj EXCEPT ![p].pc = pc]
    BY <2>1
  <2>2. /\ proj' \in [Projectors -> Pass]
        /\ \A q \in Projectors \ {p} : proj'[q] = proj[q]
        /\ proj'[p].pc # "claimed"
        /\ proj'[p].todo = proj[p].todo /\ proj'[p].view = proj[p].view
        /\ proj'[p].at = proj[p].at /\ proj'[p].work = proj[p].work
    BY <1>0, <2>1 DEF Pass, Places
  <2>3. \A i \in Items : proj[p].work[i] = "none"
    BY <1>0, <2>1 DEF PassSound, NoWork
  <2>4. QED
    BY <1>0, <2>1, <2>2, <2>3, PassAside
<1>3. CASE Ack(p) \/ Restarts(p)
  <2>1. /\ proj[p].pc \in {"ack", "down"}
        /\ UNCHANGED <<report, item, staged, stale, batch, blurred>>
        /\ idle' \subseteq idle
        /\ proj' = [proj EXCEPT ![p] = Fresh("read")]
    BY <1>3 DEF Ack, Restarts, reporting, stream
  <2>2. "read" \in Places
    BY DEF Places
  <2>3. /\ proj' \in [Projectors -> Pass]
        /\ \A q \in Projectors \ {p} : proj'[q] = proj[q]
        /\ proj'[p] = Fresh("read")
    BY <1>0, <2>1, <2>2, FreshType
  <2>4. proj[p].todo = {} /\ proj[p].view = NoView
    BY <1>0, <2>1 DEF PassSound
  <2>5. /\ proj'[p].pc = "read" /\ proj'[p].todo = {} /\ proj'[p].view = NoView
        /\ \A i \in Items : proj'[p].work[i] = "none"
    BY <2>2, <2>3, FreshType
  <2>6. idle' \subseteq Items
    BY <1>0, <2>1
  <2>7. QED
    BY <2>1, <2>3, <2>4, <2>5, <2>6, PassAside
<1>4. ASSUME NEW i \in Items, TaskPanics(p, i) \/ \E ok \in BOOLEAN : Applied(p, i, ok)
      PROVE  IInv'
  <2>1. /\ proj[p].pc = "drain" /\ proj[p].work[i] = "taken"
        /\ UNCHANGED <<report, item, staged, stale, batch, idle, blurred>>
        /\ \E w \in {"none", "applied", "broken"} : proj' = [proj EXCEPT ![p].work[i] = w]
    BY <1>4 DEF TaskPanics, Applied, reporting, stream
  <2> PICK w \in {"none", "applied", "broken"} : proj' = [proj EXCEPT ![p].work[i] = w]
    BY <2>1
  <2>2. /\ proj' \in [Projectors -> Pass]
        /\ \A q \in Projectors \ {p} : proj'[q] = proj[q]
        /\ proj'[p].pc = "drain"
        /\ proj'[p].todo = proj[p].todo /\ proj'[p].view = proj[p].view
        /\ proj'[p].at = proj[p].at
        /\ \A j \in Items : j # i => proj'[p].work[j] = proj[p].work[j]
    <3> DEFINE f == [proj[p].work EXCEPT ![i] = w]
               r == [proj[p] EXCEPT !.work = f]
    <3>1. proj[p] \in Pass /\ w \in Works
      BY <1>0 DEF Works
    <3>2. f \in [Items -> Works] /\ \A j \in Items : j # i => f[j] = proj[p].work[j]
      BY <3>1 DEF Pass
    <3>3. proj' = [proj EXCEPT ![p] = r]
      BY <1>0
    <3> HIDE DEF f
    <3>4. /\ r \in Pass /\ r.pc = proj[p].pc /\ r.todo = proj[p].todo
          /\ r.view = proj[p].view /\ r.at = proj[p].at /\ r.work = f
      BY <3>1, <3>2 DEF Pass
    <3> HIDE DEF r
    <3>5. QED
      BY <1>0, <2>1, <3>2, <3>3, <3>4, PassUpdated
  <2>3. \A j \in Items : proj'[p].work[j] # "none" => proj[p].work[j] # "none"
    BY <2>1, <2>2
  <2>4. QED
    BY <1>0, <2>1, <2>2, <2>3, PassAside
<1>5. QED
  BY <1>1, <1>2, <1>3, <1>4

-----------------------------------------------------------------------------
LEMMA LeasesOfItems ==
  ASSUME NEW S \in SUBSET Items
  PROVE  /\ LeasesOf(S) \subseteq Leases
         /\ \A l \in Leases : \A i \in ItemsOf(l) : i \in S => l \in LeasesOf(S)
BY DeliveryConstants DEF LeasesOf, ItemsOf

LEMMA RecoverRequeuedStep ==
  ASSUME IInv, NEW p \in Projectors, RecoverRequeued(p)
  PROVE  IInv'
<1> DEFINE S == {i \in stale : job[i] = "ingesting"}
<1>0. /\ proj[p].pc = "recover"
      /\ item' = [i \in Items |-> IF i \in S THEN "pending" ELSE item[i]]
      /\ stale' = stale \ S
      /\ proj' = [proj EXCEPT ![p].pc = "recover_failed", ![p].todo = LeasesOf(S)]
      /\ UNCHANGED <<report, staged, batch, idle, blurred>>
  BY DEF RecoverRequeued, reporting, stream
<1>1. S \in SUBSET Items /\ \A i \in S : item[i] = "processing"
  BY DEF IInv, Types
<1>2. proj \in [Projectors -> Pass] /\ PassSound(p)
  BY DEF IInv, Types
<1> HIDE DEF S
<1>3. /\ proj' \in [Projectors -> Pass]
      /\ \A q \in Projectors \ {p} : proj'[q] = proj[q]
      /\ proj'[p].pc = "recover_failed" /\ proj'[p].todo = LeasesOf(S)
      /\ proj'[p].view = proj[p].view /\ proj'[p].work = proj[p].work
  <2> DEFINE r == [proj[p] EXCEPT !.pc = "recover_failed", !.todo = LeasesOf(S)]
  <2>1. LeasesOf(S) \in SUBSET Leases
    BY <1>1, LeasesOfItems
  <2>2. /\ r \in Pass /\ r.pc = "recover_failed" /\ r.todo = LeasesOf(S)
        /\ r.view = proj[p].view /\ r.work = proj[p].work
    BY <1>2, <2>1 DEF Pass, Places
  <2>3. proj' = [proj EXCEPT ![p] = r]
    BY <1>0, <1>2
  <2> HIDE DEF r
  <2>4. QED
    BY <1>2, <2>2, <2>3, PassUpdated
<1>4. /\ proj[p].view = NoView /\ proj[p].todo = {}
      /\ \A i \in Items : proj[p].work[i] = "none"
  BY <1>0, <1>2 DEF PassSound
<1>5. \A i \in Items : item'[i] = IF i \in S THEN "pending" ELSE item[i]
  BY <1>0
<1>6. Types'
  <2>1. item' \in [Items -> ItemStatuses]
    BY <1>0 DEF IInv, Types, ItemStatuses
  <2>2. stale' \subseteq {i \in Items : item'[i] = "processing"}
    BY <1>0, <1>5 DEF IInv, Types
  <2>3. QED
    BY <1>0, <1>3, <2>1, <2>2 DEF IInv, Types
<1>7. PassSound(p)'
  BY <1>3, <1>4 DEF PassSound
<1>8. ASSUME NEW l \in Leases \ blurred' PROVE BatchSound(l)'
  <2>1. BatchSound(l)
    BY <1>0, <1>8 DEF IInv
  <2>2. \A i \in ItemsOf(l) : SameStatus(item[i], item'[i])
    BY <1>1, <1>5 DEF SameStatus, ItemsOf
  <2>3. /\ ~Viewing(p, l) /\ ~Viewing(p, l)' /\ ~Pending(p, l) /\ p \notin Refreshing(l)
        /\ \A i \in ItemsOf(l) : ~Taken(p, i)'
    BY <1>0, <1>3, <1>4 DEF Viewing, Pending, Refreshing, Taken
  <2>4. QED
    BY <1>0, <1>3, <2>1, <2>2, <2>3, LeaseKept
<1>9. \A i \in Items : item'[i] = "none" <=> item[i] = "none"
  BY <1>1, <1>5
<1>10. QED
  BY <1>0, <1>3, <1>6, <1>7, <1>8, <1>9, PassFrame

LEMMA RecoverFailedStep ==
  ASSUME IInv, NEW p \in Projectors, RecoverFailed(p)
  PROVE  IInv'
<1> DEFINE S == {i \in stale : job[i] # "ingesting"}
<1>0. /\ proj[p].pc = "recover_failed"
      /\ item' = [i \in Items |-> IF i \in S THEN "failed" ELSE item[i]]
      /\ stale' = stale \ S
      /\ proj' = [proj EXCEPT ![p].pc = "pass", ![p].left = BatchSize,
                              ![p].todo = @ \cup LeasesOf(S)]
      /\ UNCHANGED <<report, staged, batch, idle, blurred>>
  BY DEF RecoverFailed, reporting, stream
<1>1. S \in SUBSET Items /\ \A i \in S : item[i] = "processing"
  BY DEF IInv, Types
<1>2. /\ proj \in [Projectors -> Pass] /\ PassSound(p)
      /\ BatchSize \in Int
  BY DeliveryConstants DEF IInv, Types
<1> HIDE DEF S
<1>3. /\ proj' \in [Projectors -> Pass]
      /\ \A q \in Projectors \ {p} : proj'[q] = proj[q]
      /\ proj'[p].pc = "pass" /\ proj'[p].todo = proj[p].todo \cup LeasesOf(S)
      /\ proj'[p].view = proj[p].view /\ proj'[p].work = proj[p].work
  <2> DEFINE T == proj[p].todo \cup LeasesOf(S)
  <2>1. proj' = [proj EXCEPT ![p].pc = "pass", ![p].left = BatchSize, ![p].todo = T]
    BY <1>0
  <2>2. T \in SUBSET Leases
    BY <1>1, <1>2, LeasesOfItems DEF Pass
  <2> HIDE DEF T
  <2> DEFINE r == [proj[p] EXCEPT !.pc = "pass", !.left = BatchSize, !.todo = T]
  <2>3. /\ r \in Pass
        /\ r.pc = "pass" /\ r.todo = T /\ r.view = proj[p].view /\ r.work = proj[p].work
    BY <1>2, <2>2 DEF Pass, Places
  <2>4. proj' = [proj EXCEPT ![p] = r]
    BY <1>2, <2>1 DEF Pass
  <2> HIDE DEF r
  <2>5. /\ proj' \in [Projectors -> Pass]
        /\ \A q \in Projectors \ {p} : proj'[q] = proj[q]
        /\ proj'[p].pc = "pass" /\ proj'[p].todo = T
        /\ proj'[p].view = proj[p].view /\ proj'[p].work = proj[p].work
    BY <1>2, <2>3, <2>4
  <2>6. QED
    BY <2>5 DEF T
<1>4. proj[p].view = NoView /\ \A i \in Items : proj[p].work[i] = "none"
  BY <1>0, <1>2 DEF PassSound
<1>5. \A i \in Items : item'[i] = IF i \in S THEN "failed" ELSE item[i]
  BY <1>0
<1>6. Types'
  <2>1. item' \in [Items -> ItemStatuses]
    BY <1>0 DEF IInv, Types, ItemStatuses
  <2>2. stale' \subseteq {i \in Items : item'[i] = "processing"}
    BY <1>0, <1>5 DEF IInv, Types
  <2>3. QED
    BY <1>0, <1>3, <2>1, <2>2 DEF IInv, Types
<1>7. PassSound(p)'
  BY <1>3, <1>4 DEF PassSound
<1>8. ASSUME NEW l \in Leases \ blurred' PROVE BatchSound(l)'
  <2>1. BatchSound(l)
    BY <1>0, <1>8 DEF IInv
  <2>2. ~Viewing(p, l) /\ ~Viewing(p, l)'
    BY <1>3, <1>4 DEF Viewing
  <2>3. CASE l \in LeasesOf(S)
    <3>1. Asked(l)'
      BY <1>3, <2>2, <2>3 DEF Asked, Pending
    <3>2. \A q \in Projectors : Viewing(q, l)' => Viewing(q, l)
      BY <1>3, <2>2 DEF Viewing
    <3>3. QED
      BY <2>1, <3>1, <3>2, BatchAsked
  <2>4. CASE l \notin LeasesOf(S)
    <3>1. \A i \in ItemsOf(l) : SameStatus(item[i], item'[i])
      BY <1>1, <1>5, <2>4, LeasesOfItems DEF SameStatus, ItemsOf
    <3>2. Pending(p, l) => Pending(p, l)'
      BY <1>3, <2>2 DEF Pending
    <3>3. \A i \in ItemsOf(l) : ~Taken(p, i)'
      BY <1>3 DEF Taken
    <3>4. p \in Refreshing(l) => p \in Refreshing(l)'
      BY <1>0, <1>3 DEF Refreshing
    <3>5. QED
      BY <1>0, <1>3, <2>1, <2>2, <3>1, <3>2, <3>3, <3>4, LeaseKept
  <2>5. QED
    BY <2>3, <2>4
<1>9. \A i \in Items : item'[i] = "none" <=> item[i] = "none"
  BY <1>1, <1>5
<1>10. QED
  BY <1>0, <1>3, <1>6, <1>7, <1>8, <1>9, PassFrame

LEMMA CountItemsStep ==
  ASSUME IInv, NEW p \in Projectors, NEW k \in Leases, CountItems(p, k)
  PROVE  IInv'
<1>0. /\ proj[p].pc \in {"pass", "drain"} /\ k \in proj[p].todo /\ proj[p].view = NoView
      /\ proj' = [proj EXCEPT ![p].at = k, ![p].view = Summary(k)]
      /\ blurred' = IF Refreshing(k) = {p} /\ Reporting(k) = {} THEN blurred \ {k}
                    ELSE blurred \cup {k}
      /\ UNCHANGED <<report, item, staged, stale, batch, idle>>
  BY DEF CountItems, AtRefresh, reporting, stream
<1>1. /\ proj \in [Projectors -> Pass] /\ PassSound(p) /\ blurred \subseteq Leases
  BY DEF IInv, Types
<1>2. Summary(k) \in BatchStatuses /\ Summary(k) # NoView
  BY SummaryIs DEF BatchStatuses, NoView
<1>3. /\ proj' \in [Projectors -> Pass]
      /\ \A q \in Projectors \ {p} : proj'[q] = proj[q]
      /\ proj'[p].pc = proj[p].pc /\ proj'[p].todo = proj[p].todo
      /\ proj'[p].view = Summary(k) /\ proj'[p].at = k /\ proj'[p].work = proj[p].work
  BY <1>0, <1>1, <1>2 DEF Pass
<1>4. Types'
  BY <1>0, <1>1, <1>3 DEF IInv, Types
<1>5. PassSound(p)'
  BY <1>0, <1>1, <1>3 DEF PassSound
<1>6. ASSUME NEW l \in Leases \ blurred' PROVE BatchSound(l)'
  <2>1. CASE l = k
    <3>1. Refreshing(l) = {p} /\ Reporting(l) = {}
      BY <1>0, <1>6, <2>1
    <3>2. ASSUME NEW q \in Projectors, q # p
          PROVE  ~Viewing(q, l)' /\ \A i \in ItemsOf(l) : ~Taken(q, i)'
      <4>1. q \notin Refreshing(l)
        BY <3>1, <3>2
      <4>2. l \notin proj[q].todo /\ \A i \in ItemsOf(l) : ~Taken(q, i)
        BY <4>1 DEF Refreshing, Taken
      <4>3. ~Viewing(q, l)
        BY <4>2 DEF IInv, PassSound, Viewing
      <4>4. QED
        BY <1>3, <3>2, <4>2, <4>3 DEF Viewing, Taken
    <3>3. \A i \in ItemsOf(l) : ~Taken(p, i)'
      BY <1>0, <1>3 DEF Taken
    <3>4. proj'[p].view = Summary(l)'
      BY <1>0, <1>3, <2>1, SummaryKept DEF SameStatus
    <3>5. Reporting(l)' = {} /\ Refreshing(l)' # {} /\ ItemsOf(l)' = ItemsOf(l)
      BY <1>0, <1>3, <2>1, <3>1 DEF Reporting, Refreshing, ItemsOf
    <3>6. /\ \A q, r \in Projectors : Viewing(q, l)' /\ Viewing(r, l)' => q = r
          /\ \A q \in Projectors : Viewing(q, l)' => proj'[q].view = Summary(l)'
          /\ \A q \in Projectors : \A i \in ItemsOf(l) : ~Taken(q, i)'
      BY <3>2, <3>3, <3>4
    <3>7. QED
      BY <3>5, <3>6 DEF BatchSound
  <2>2. CASE l # k
    <3>1. BatchSound(l)
      BY <1>0, <1>6, <2>2 DEF IInv
    <3>2. ~Viewing(p, l) /\ ~Viewing(p, l)'
      BY <1>0, <1>3, <2>2 DEF Viewing
    <3>3. Pending(p, l) => Pending(p, l)'
      BY <1>3, <3>2 DEF Pending
    <3>4. /\ \A i \in ItemsOf(l) : Taken(p, i)' <=> Taken(p, i)
          /\ p \in Refreshing(l) => p \in Refreshing(l)'
      BY <1>3 DEF Taken, Refreshing, ItemsOf
    <3>5. QED
      BY <1>0, <1>3, <3>1, <3>2, <3>3, <3>4, LeaseKept DEF SameStatus
  <2>3. QED
    BY <2>1, <2>2
<1>7. QED
  BY <1>0, <1>3, <1>4, <1>5, <1>6, PassFrame

(* The projector that counted writes the row: nobody counted beside it, and  *)
(* if nobody is asked for another count, its own is right.                   *)
LEMMA WriteBatchStep ==
  ASSUME IInv, NEW p \in Projectors, WriteBatch(p)
  PROVE  IInv'
<1> DEFINE k == proj[p].at
<1>0. /\ proj[p].pc \in {"pass", "drain"} /\ proj[p].view # NoView
      /\ batch' = [batch EXCEPT ![k] = proj[p].view]
      /\ proj' = [proj EXCEPT ![p].todo = @ \ {k}, ![p].view = NoView]
      /\ UNCHANGED <<report, item, staged, stale, idle, blurred>>
  BY DEF WriteBatch, AtRefresh, reporting, stream
<1>1. /\ proj \in [Projectors -> Pass] /\ PassSound(p) /\ batch \in [Leases -> BatchStatuses]
      /\ k \in Leases /\ proj[p].view \in BatchStatuses
  BY DEF IInv, Types, Pass
<1>2. k \in proj[p].todo /\ NoView \in BatchStatuses
  BY <1>0, <1>1 DEF PassSound, NoView, BatchStatuses
<1> HIDE DEF k
<1>3. /\ proj' \in [Projectors -> Pass]
      /\ \A q \in Projectors \ {p} : proj'[q] = proj[q]
      /\ proj'[p].pc = proj[p].pc /\ proj'[p].todo = proj[p].todo \ {k}
      /\ proj'[p].view = NoView /\ proj'[p].work = proj[p].work
  BY <1>0, <1>1, <1>2 DEF Pass
<1>4. /\ batch' \in [Leases -> BatchStatuses] /\ batch'[k] = proj[p].view
      /\ \A l \in Leases \ {k} : batch'[l] = batch[l]
  BY <1>0, <1>1
<1>5. Types'
  BY <1>0, <1>3, <1>4 DEF IInv, Types
<1>6. PassSound(p)'
  BY <1>0, <1>1, <1>3 DEF PassSound
<1>7. ASSUME NEW l \in Leases \ blurred' PROVE BatchSound(l)'
  <2>1. BatchSound(l)
    BY <1>0, <1>7 DEF IInv
  <2>2. ~Viewing(p, l)'
    BY <1>3 DEF Viewing
  <2>3. CASE l = k
    <3>1. Viewing(p, l)
      BY <1>0, <2>3 DEF Viewing, k
    <3>2. /\ \A q \in Projectors : ~Viewing(q, l)'
          /\ \A q \in Projectors : Pending(q, l) => Pending(q, l)'
      <4>1. ASSUME NEW q \in Projectors, q # p
            PROVE  ~Viewing(q, l)' /\ (Pending(q, l) => Pending(q, l)')
        BY <1>3, <2>1, <3>1, <4>1 DEF BatchSound, Viewing, Pending
      <4>2. ~Pending(p, l)
        BY <3>1 DEF Pending
      <4>3. QED
        BY <2>2, <4>1, <4>2
    <3>3. Asked(l) => Asked(l)'
      BY <3>2 DEF Asked
    <3>4. /\ Summary(l)' = Summary(l) /\ Open(l)' = Open(l) /\ ItemsOf(l)' = ItemsOf(l)
          /\ Reporting(l)' = Reporting(l)
      BY <1>0, SummaryKept DEF SameStatus, Reporting, ItemsOf
    <3>5. \A q \in Projectors : \A i \in ItemsOf(l) : Taken(q, i)' <=> Taken(q, i)
      BY <1>3 DEF Taken, ItemsOf
    <3>6. Refreshing(l)' = {} => ~Asked(l)'
      BY DEF Refreshing, Asked, Pending
    <3>7. Refreshing(l)' = {} /\ ~Open(l)' => batch'[l] = Summary(l)'
      BY <1>4, <2>1, <2>3, <3>1, <3>3, <3>4, <3>6 DEF BatchSound
    <3>8. \A i \in Reporting(l)' : item'[i] \in Settled => Asked(l)'
      BY <1>0, <2>1, <3>3, <3>4 DEF BatchSound
    <3>9. \A q \in Projectors : \A i \in ItemsOf(l) :
            Taken(q, i)' /\ item'[i] \in Settled => Asked(l)'
      BY <1>0, <2>1, <3>3, <3>5 DEF BatchSound
    <3>10. QED
      BY <3>2, <3>4, <3>7, <3>8, <3>9 DEF BatchSound
  <2>4. CASE l # k
    <3>1. ~Viewing(p, l)
      BY <2>4 DEF Viewing, k
    <3>2. Pending(p, l) => Pending(p, l)'
      BY <1>3, <2>2, <2>4 DEF Pending
    <3>3. /\ \A i \in ItemsOf(l) : Taken(p, i)' <=> Taken(p, i)
          /\ p \in Refreshing(l) => p \in Refreshing(l)'
      BY <1>3, <2>4 DEF Taken, Refreshing, ItemsOf
    <3>4. QED
      BY <1>0, <1>3, <1>4, <2>1, <2>2, <2>4, <3>1, <3>2, <3>3, LeaseKept DEF SameStatus
  <2>5. QED
    BY <2>3, <2>4
<1>8. QED
  BY <1>0, <1>3, <1>5, <1>6, <1>7, PassFrame

LEMMA OldestWait ==
  ASSUME IInv, NEW n
  PROVE  Oldest(n) \subseteq {i \in Items : item[i] = "pending"}
<1>1. \A x \in DOMAIN staged : staged[x] \in Items
  BY DEF IInv, Types
<1>2. ASSUME NEW i \in Oldest(n) PROVE i \in Items /\ item[i] = "pending"
  <2>1. PICK x \in DOMAIN staged : i = staged[x] /\ item[staged[x]] = "pending"
    BY <1>2 DEF Oldest
  <2>2. QED
    BY <1>1, <2>1
<1>3. QED
  BY <1>2

LEMMA ClaimItemsStep ==
  ASSUME IInv, NEW p \in Projectors, ClaimItems(p)
  PROVE  IInv'
<1> DEFINE S == Oldest(proj[p].left)
           w == [i \in Items |-> IF i \in S THEN "taken" ELSE "none"]
<1>0. /\ proj[p].pc = "pass" /\ proj[p].todo = {}
      /\ item' = [i \in Items |-> IF i \in S THEN "processing" ELSE item[i]]
      /\ proj' = [proj EXCEPT ![p].pc = "claimed", ![p].any = FALSE, ![p].work = w]
      /\ UNCHANGED <<report, staged, stale, batch, idle, blurred>>
  BY DEF ClaimItems, reporting, stream
<1>1. S \in SUBSET Items /\ \A i \in S : item[i] = "pending"
  BY OldestWait
<1>2. /\ w \in [Items -> Works]
      /\ \A i \in Items : w[i] = IF i \in S THEN "taken" ELSE "none"
  BY DEF Works
<1>3. /\ proj \in [Projectors -> Pass] /\ PassSound(p)
      /\ proj[p].view = NoView
  BY <1>0, NotRefreshing DEF IInv, Types
<1> HIDE DEF S, w
<1>4. /\ proj' \in [Projectors -> Pass]
      /\ \A q \in Projectors \ {p} : proj'[q] = proj[q]
      /\ proj'[p].pc = "claimed" /\ proj'[p].todo = {}
      /\ proj'[p].view = NoView /\ proj'[p].work = w
  <2> DEFINE r == [proj[p] EXCEPT !.pc = "claimed", !.any = FALSE, !.work = w]
  <2>1. proj' = [proj EXCEPT ![p] = r]
    BY <1>0, <1>3 DEF Pass
  <2>2. /\ r \in Pass
        /\ r.pc = "claimed" /\ r.todo = {} /\ r.view = NoView /\ r.work = w
    BY <1>0, <1>2, <1>3 DEF Pass, Places
  <2> HIDE DEF r
  <2>3. QED
    BY <1>3, <2>1, <2>2
<1>5. \A i \in Items : item'[i] = IF i \in S THEN "processing" ELSE item[i]
  BY <1>0
<1>6. Types'
  <2>1. item' \in [Items -> ItemStatuses]
    BY <1>0 DEF IInv, Types, ItemStatuses
  <2>2. stale' \subseteq {i \in Items : item'[i] = "processing"}
    BY <1>0, <1>1, <1>5 DEF IInv, Types
  <2>3. QED
    BY <1>0, <1>4, <2>1, <2>2 DEF IInv, Types
<1>7. PassSound(p)'
  BY <1>1, <1>2, <1>4, <1>5 DEF PassSound
<1>8. ASSUME NEW l \in Leases \ blurred' PROVE BatchSound(l)'
  <2>1. BatchSound(l)
    BY <1>0, <1>8 DEF IInv
  <2>2. \A i \in ItemsOf(l) : SameStatus(item[i], item'[i])
    BY <1>1, <1>5 DEF SameStatus, ItemsOf
  <2>3. ~Viewing(p, l) /\ ~Viewing(p, l)' /\ ~Pending(p, l) /\ p \notin Refreshing(l)
    BY <1>0, <1>3, <1>4 DEF Viewing, Pending, Refreshing
  <2>4. \A i \in ItemsOf(l) : ~(Taken(p, i)' /\ item'[i] \in Settled)
    BY <1>2, <1>4, <1>5 DEF Taken, Settled, ItemsOf
  <2>5. QED
    BY <1>0, <1>4, <2>1, <2>2, <2>3, <2>4, LeaseKept
<1>9. \A i \in Items : item'[i] = "none" <=> item[i] = "none"
  BY <1>1, <1>5
<1>10. QED
  BY <1>0, <1>4, <1>6, <1>7, <1>8, <1>9, PassFrame

(* Projector p, which has taken items of l and has nothing to refresh, is    *)
(* off the way: if nobody else is on it, what it took has not settled.       *)
LEMMA LastToLeave ==
  ASSUME IInv, NEW p \in Projectors, NEW l \in Leases \ blurred, proj[p].todo = {},
         NEW i \in ItemsOf(l), Taken(p, i),
         \A q \in Projectors \ {p} : q \notin Refreshing(l)
  PROVE  Open(l)
<1>1. BatchSound(l) /\ i \in Items /\ item[i] \in ItemStatuses
  BY ItemOf DEF IInv, Types
<1>2. item[i] # "none"
  BY <1>1 DEF IInv, PassSound, Taken
<1>3. ~Asked(l)
  BY NotRefreshing DEF Asked, Pending, Refreshing
<1>4. item[i] \notin Settled
  BY <1>1, <1>3 DEF BatchSound
<1>5. QED
  BY <1>1, <1>2, <1>4 DEF Open, Settled, ItemStatuses

LEMMA MarkBatchesStep ==
  ASSUME IInv, NEW p \in Projectors, MarkBatches(p)
  PROVE  IInv'
<1> DEFINE S == {i \in Items : proj[p].work[i] = "taken"}
           L == LeasesOf(S)
<1>0. /\ proj[p].pc = "claimed"
      /\ batch' = [l \in Leases |-> IF l \in L THEN "processing" ELSE batch[l]]
      /\ blurred' = blurred \cup {l \in L : \E q \in Projectors \ {p} : q \in Refreshing(l)}
      /\ proj' = [proj EXCEPT ![p].pc = "drain"]
      /\ UNCHANGED <<report, item, staged, stale, idle>>
  BY DEF MarkBatches, reporting, stream
<1>1. /\ proj \in [Projectors -> Pass] /\ PassSound(p)
      /\ L \subseteq Leases /\ \A l \in Leases : \A i \in ItemsOf(l) : i \in S => l \in L
  BY LeasesOfItems DEF IInv, Types
<1>2. \A l \in L : \E i \in ItemsOf(l) : Taken(p, i)
  BY <1>0, ItemOf DEF LeasesOf, Taken
<1>3. \A l \in Leases : \A i \in ItemsOf(l) : Taken(p, i) => l \in L
  BY <1>1, ItemOf DEF Taken
<1> HIDE DEF S, L
<1>4. /\ proj' \in [Projectors -> Pass]
      /\ \A q \in Projectors \ {p} : proj'[q] = proj[q]
      /\ proj'[p].pc = "drain" /\ proj'[p].todo = proj[p].todo
      /\ proj'[p].view = proj[p].view /\ proj'[p].work = proj[p].work
  BY <1>0, <1>1 DEF Pass, Places
<1>5. proj[p].todo = {} /\ proj[p].view = NoView
  BY <1>0, <1>1 DEF PassSound
<1>6. Types'
  <2>1. batch' \in [Leases -> BatchStatuses]
    BY <1>0 DEF IInv, Types, BatchStatuses
  <2>2. blurred' \subseteq Leases
    BY <1>0, <1>1 DEF IInv, Types
  <2>3. QED
    BY <1>0, <1>4, <2>1, <2>2 DEF IInv, Types
<1>7. PassSound(p)'
  BY <1>0, <1>1, <1>4, <1>5 DEF PassSound
<1>8. ASSUME NEW l \in Leases \ blurred' PROVE BatchSound(l)'
  <2>1. BatchSound(l) /\ l \in Leases \ blurred
    BY <1>0, <1>8 DEF IInv
  <2>2. /\ ~Viewing(p, l) /\ ~Viewing(p, l)' /\ ~Pending(p, l)
        /\ \A i \in ItemsOf(l) : ~Taken(p, i)'
    BY <1>4, <1>5 DEF Viewing, Pending, Taken
  <2>3. CASE l \in L
    <3>1. \A q \in Projectors \ {p} : q \notin Refreshing(l)
      BY <1>0, <1>8, <2>3
    <3>2. Open(l)
      BY <1>2, <1>5, <2>1, <2>3, <3>1, LastToLeave
    <3>3. Open(l)' /\ ItemsOf(l)' = ItemsOf(l) /\ Reporting(l)' = Reporting(l)
      BY <1>0, <3>2 DEF Open, ItemsOf, Reporting
    <3>4. \A q \in Projectors : Viewing(q, l)' <=> Viewing(q, l)
      BY <1>4, <2>2 DEF Viewing
    <3>5. Asked(l) => Asked(l)'
      BY <1>4, <2>2, <3>4 DEF Asked, Pending
    <3>6. \A q \in Projectors : \A i \in ItemsOf(l) : Taken(q, i)' => Taken(q, i)
      BY <1>4, <2>2 DEF Taken, ItemsOf
    <3>7. \A i \in Reporting(l)' : item'[i] \in Settled => Asked(l)'
      BY <1>0, <2>1, <3>3, <3>5 DEF BatchSound
    <3>8. \A q \in Projectors : \A i \in ItemsOf(l) :
            Taken(q, i)' /\ item'[i] \in Settled => Asked(l)'
      BY <1>0, <2>1, <3>5, <3>6 DEF BatchSound
    <3>9. \A q, r \in Projectors : Viewing(q, l)' /\ Viewing(r, l)' => q = r
      BY <2>1, <3>4 DEF BatchSound
    <3>10. QED
      BY <3>3, <3>7, <3>8, <3>9 DEF BatchSound
  <2>4. CASE l \notin L
    <3>1. p \notin Refreshing(l)
      BY <1>3, <1>5, <2>4 DEF Refreshing, Taken
    <3>2. batch'[l] = batch[l]
      BY <1>0, <2>4
    <3>3. QED
      BY <1>0, <1>4, <2>1, <2>2, <3>1, <3>2, LeaseKept DEF SameStatus
  <2>5. QED
    BY <2>3, <2>4
<1>9. QED
  BY <1>0, <1>4, <1>6, <1>7, <1>8, PassFrame

LEMMA MarkItemStep ==
  ASSUME IInv, NEW p \in Projectors, NEW i \in Items, MarkItem(p, i)
  PROVE  IInv'
<1> DEFINE k == LeaseOf[i]
           status == IF proj[p].work[i] = "applied" THEN "completed" ELSE "failed"
           any == proj[p].any \/ proj[p].work[i] = "applied"
           left == IF proj[p].work[i] = "applied" THEN proj[p].left - 1 ELSE proj[p].left
           r == [proj[p] EXCEPT !.work[i] = "none", !.todo = {k}, !.any = any, !.left = left]
<1>0. /\ proj[p].pc = "drain" /\ proj[p].todo = {} /\ proj[p].work[i] # "none"
      /\ item' = [item EXCEPT ![i] = status]
      /\ stale' = stale \ {i}
      /\ proj' = [proj EXCEPT ![p].work[i] = "none", ![p].todo = {k}, ![p].any = any,
                              ![p].left = left]
      /\ UNCHANGED <<report, staged, batch, idle, blurred>>
  BY DEF MarkItem, reporting, stream
<1>1. /\ proj \in [Projectors -> Pass] /\ PassSound(p)
      /\ proj[p].view = NoView /\ item[i] # "none"
      /\ \A l \in Leases : ~Viewing(p, l) /\ ~Pending(p, l)
      /\ k \in Leases
  BY <1>0, NotRefreshing, ItemOf DEF IInv, Types, PassSound
<1>2. any \in BOOLEAN
  OBVIOUS
<1>3. left \in Int /\ {k} \in SUBSET Leases /\ "none" \in Works
  BY <1>1 DEF Pass, Works
<1> HIDE DEF k, any, left
<1>4. proj' = [proj EXCEPT ![p] = r]
  BY <1>0, <1>1 DEF Pass
<1>5. /\ r \in Pass /\ r.pc = "drain" /\ r.todo = {k} /\ r.view = NoView
      /\ \A j \in Items : r.work[j] = IF j = i THEN "none" ELSE proj[p].work[j]
  BY <1>0, <1>1, <1>2, <1>3 DEF Pass
<1> HIDE DEF r
<1>6. /\ proj' \in [Projectors -> Pass]
      /\ \A q \in Projectors \ {p} : proj'[q] = proj[q]
      /\ proj'[p] = r
  BY <1>1, <1>4, <1>5
<1>7. /\ \A j \in Items \ {i} : item'[j] = item[j]
      /\ item'[i] \in {"completed", "failed"}
  BY <1>0 DEF IInv, Types
<1>8. Types'
  <2>1. item' \in [Items -> ItemStatuses]
    BY <1>0 DEF IInv, Types, ItemStatuses
  <2>2. stale' \subseteq {j \in Items : item'[j] = "processing"}
    BY <1>0, <1>7 DEF IInv, Types
  <2>3. QED
    BY <1>0, <1>6, <2>1, <2>2 DEF IInv, Types
<1>9. PassSound(p)'
  BY <1>0, <1>1, <1>5, <1>6, <1>7 DEF PassSound
<1>10. ASSUME NEW l \in Leases \ blurred' PROVE BatchSound(l)'
  <2>1. BatchSound(l) /\ l \in Leases /\ ~Viewing(p, l)
    BY <1>0, <1>1, <1>10 DEF IInv
  <2>2. ~Viewing(p, l)'
    BY <1>5, <1>6 DEF Viewing
  <2>3. CASE l = k
    <3>1. Asked(l)'
      BY <1>5, <1>6, <2>2, <2>3 DEF Asked, Pending
    <3>2. \A q \in Projectors : Viewing(q, l)' => Viewing(q, l)
      BY <1>6, <2>2 DEF Viewing
    <3>3. QED
      BY <2>1, <3>1, <3>2, BatchAsked
  <2>4. CASE l # k
    <3>1. \A j \in ItemsOf(l) : SameStatus(item[j], item'[j])
      BY <1>7, <2>1, <2>4, ItemOf DEF SameStatus, k
    <3>2. p \notin Refreshing(l) /\ ~Pending(p, l) /\ \A j \in ItemsOf(l) : ~Taken(p, j)'
      BY <1>0, <1>5, <1>6 DEF Refreshing, Taken, Pending
    <3>3. QED
      BY <1>0, <1>6, <2>1, <2>2, <3>1, <3>2, LeaseKept
  <2>5. QED
    BY <2>3, <2>4
<1>11. \A j \in Items : item'[j] = "none" <=> item[j] = "none"
  BY <1>1, <1>7
<1>12. QED
  BY <1>0, <1>6, <1>8, <1>9, <1>10, <1>11, PassFrame

(* The rows a failed pass had to refresh are blurred; of the items it only   *)
(* took, one is open unless somebody else is on the way.                     *)
LEMMA FailsStep ==
  ASSUME IInv, NEW p \in Projectors, NEW pc \in {"read", "down"}, Fails(p, pc)
  PROVE  IInv'
<1>0. /\ proj' = [proj EXCEPT ![p] = Fresh(pc)]
      /\ blurred' = blurred \cup proj[p].todo
      /\ UNCHANGED <<report, item, staged, stale, batch, idle>>
  BY DEF Fails, reporting, stream
<1>1. proj \in [Projectors -> Pass] /\ PassSound(p) /\ pc \in Places
  BY DEF IInv, Types, Places
<1>2. /\ proj' \in [Projectors -> Pass]
      /\ \A q \in Projectors \ {p} : proj'[q] = proj[q]
      /\ proj'[p] = Fresh(pc)
  BY <1>0, <1>1, FreshType
<1>3. /\ proj'[p].pc = pc /\ proj'[p].todo = {} /\ proj'[p].view = NoView
      /\ \A i \in Items : proj'[p].work[i] = "none"
  BY <1>1, <1>2, FreshType
<1>4. Types'
  BY <1>0, <1>1, <1>2 DEF IInv, Types, Pass
<1>5. PassSound(p)'
  BY <1>3 DEF PassSound
<1>6. ASSUME NEW l \in Leases \ blurred' PROVE BatchSound(l)'
  <2>1. BatchSound(l) /\ l \in Leases \ blurred /\ l \notin proj[p].todo
    BY <1>0, <1>6 DEF IInv
  <2>2. /\ ~Viewing(p, l) /\ ~Viewing(p, l)' /\ ~Pending(p, l)
        /\ \A i \in ItemsOf(l) : ~Taken(p, i)'
    BY <1>1, <1>3, <2>1 DEF PassSound, Viewing, Pending, Taken
  <2>3. CASE p \notin Refreshing(l)
    BY <1>0, <1>2, <2>1, <2>2, <2>3, LeaseKept DEF SameStatus
  <2>4. CASE p \in Refreshing(l)
    <3>1. PICK i \in ItemsOf(l) : Taken(p, i)
      BY <2>1, <2>4 DEF Refreshing, Taken
    <3>2. proj[p].todo = {}
      BY <1>1, <3>1 DEF PassSound, Taken
    <3>3. \A q \in Projectors \ {p} : q \in Refreshing(l)' <=> q \in Refreshing(l)
      BY <1>2 DEF Refreshing, ItemsOf
    <3>4. Refreshing(l)' = {} => Open(l)
      BY <2>1, <3>1, <3>2, <3>3, LastToLeave
    <3>5. /\ Summary(l)' = Summary(l) /\ Open(l)' = Open(l) /\ ItemsOf(l)' = ItemsOf(l)
          /\ Reporting(l)' = Reporting(l)
      BY <1>0, <2>1, SummaryKept DEF SameStatus, Reporting, ItemsOf
    <3>6. \A q \in Projectors : /\ Viewing(q, l)' <=> Viewing(q, l)
                                /\ Viewing(q, l) => proj'[q].view = proj[q].view
                                /\ Pending(q, l) => Pending(q, l)'
      BY <1>2, <2>2 DEF Viewing, Pending
    <3>7. Asked(l) => Asked(l)'
      BY <3>6 DEF Asked
    <3>8. \A q \in Projectors : \A j \in ItemsOf(l) : Taken(q, j)' => Taken(q, j)
      BY <1>2, <2>2 DEF Taken, ItemsOf
    <3>9. \A j \in Reporting(l)' : item'[j] \in Settled => Asked(l)'
      BY <1>0, <2>1, <3>5, <3>7 DEF BatchSound
    <3>10. \A q \in Projectors : \A j \in ItemsOf(l) :
            Taken(q, j)' /\ item'[j] \in Settled => Asked(l)'
      BY <1>0, <2>1, <3>7, <3>8 DEF BatchSound
    <3>11. /\ \A q, r \in Projectors : Viewing(q, l)' /\ Viewing(r, l)' => q = r
           /\ \A q \in Projectors : Viewing(q, l)' =>
                proj'[q].view = Summary(l)' \/ Asked(l)' \/ Open(l)'
      BY <2>1, <3>5, <3>6, <3>7 DEF BatchSound
    <3>12. QED
      BY <3>4, <3>5, <3>9, <3>10, <3>11 DEF BatchSound
  <2>5. QED
    BY <2>3, <2>4
<1>7. QED
  BY <1>0, <1>2, <1>4, <1>5, <1>6, PassFrame

-----------------------------------------------------------------------------
LEMMA InvInit == Init => IInv
<1> SUFFICES ASSUME Init PROVE IInv
  OBVIOUS
<1>0. "read" \in Places
  BY DEF Places
<1>1. \A q \in Projectors : proj[q] = Fresh("read")
  BY DEF Init
<1>2. Types
  <2>1. proj \in [Projectors -> Pass]
    BY <1>0, FreshType DEF Init
  <2>2. staged \in Seq(Items)
    BY DEF Init
  <2>3. QED
    BY <2>1, <2>2 DEF Init, Types, Reports, ItemStatuses, BatchStatuses
<1>3. ReportsSound
  BY DEF Init, ReportsSound
<1>4. \A q \in Projectors : PassSound(q)
  BY <1>0, <1>1, FreshType DEF PassSound
<1>5. ASSUME NEW l \in Leases PROVE BatchSound(l)
  <2>1. \A q \in Projectors : ~Viewing(q, l) /\ \A i \in ItemsOf(l) : ~Taken(q, i)
    BY <1>0, <1>1, FreshType DEF Viewing, Taken, ItemsOf
  <2>2. \A i \in ItemsOf(l) : item[i] = "none" /\ i \notin Reporting(l)
    BY DEF Init, ItemsOf, Reporting
  <2>3. Reporting(l) \subseteq ItemsOf(l)
    BY DEF Reporting, ItemsOf
  <2>4. QED
    BY <2>1, <2>2, <2>3 DEF BatchSound
<1>6. QED
  BY <1>2, <1>3, <1>4, <1>5 DEF IInv

LEMMA InvStutter == IInv /\ UNCHANGED vars => IInv'
<1> SUFFICES ASSUME IInv, UNCHANGED vars PROVE IInv'
  OBVIOUS
<1>1. UNCHANGED <<report, item, staged, stale, batch, idle, proj, blurred>>
  BY DEF vars
<1>2. Types' /\ ReportsSound' /\ \A q \in Projectors : PassSound(q)'
  BY <1>1 DEF IInv, Types, ReportsSound, PassSound
<1>3. ASSUME NEW l \in Leases \ blurred' PROVE BatchSound(l)'
  <2>1. Reporting(l)' = Reporting(l) /\ BatchSound(l)
    BY <1>1 DEF IInv, Reporting, ItemsOf
  <2>2. QED
    BY <1>1, <2>1, ProjectorsKept, BatchKept DEF SameStatus
<1>4. QED
  BY <1>2, <1>3 DEF IInv

LEMMA InvNext == IInv /\ [Next]_vars => IInv'
<1> SUFFICES ASSUME IInv, [Next]_vars PROVE IInv'
  OBVIOUS
<1>1. ASSUME NEW i \in Items, Report(i) \/ Idles(i) \/ Ages(i) PROVE IInv'
  BY <1>1, ReportBeginsStep, StageItemStep, AsideSteps, ReportLeavesSteps,
     IngestTimesOutStep DEF Report
<1>2. ASSUME NEW p \in Projectors, Project(p) PROVE IInv'
  <2>1. ASSUME NEW l \in Leases, CountItems(p, l) PROVE IInv'
    BY <2>1, CountItemsStep
  <2>2. ASSUME NEW i \in Items, MarkItem(p, i) \/ \E ok \in BOOLEAN : Applied(p, i, ok)
        PROVE  IInv'
    BY <2>2, MarkItemStep, PassAsideSteps
  <2>3. CASE ReadBatch(p) \/ Drained(p) \/ PassEnds(p) \/ Ack(p) \/ Restarts(p)
    BY <2>3, PassAsideSteps
  <2>4. QED
    BY <1>2, <2>1, <2>2, <2>3, RecoverRequeuedStep, RecoverFailedStep, WriteBatchStep,
       ClaimItemsStep, MarkBatchesStep DEF Project
<1>3. ASSUME NEW p \in Projectors,
             PassFails(p) \/ Crash(p) \/ \E i \in Items : TaskPanics(p, i)
      PROVE  IInv'
  BY <1>3, FailsStep, PassAsideSteps DEF PassFails, Crash
<1>4. QED
  BY <1>1, <1>2, <1>3, InvStutter DEF Next

(* However many projectors pass over the results of a lease, and wherever    *)
(* they fail, a row that no two of them wrote at once tells how its results  *)
(* came out (refresh_batch_status, crawl/ingest.rs:407-449).                 *)
THEOREM BatchToldAlways == Spec => []BatchTold
<1>1. IInv => BatchTold
  <2> SUFFICES ASSUME IInv, NEW l \in Leases \ blurred,
                      \E i \in ItemsOf(l) : item[i] # "none",
                      \A i \in ItemsOf(l) : item[i] # "none" => item[i] \in Settled,
                      Reporting(l) = {}, Refreshing(l) = {}
               PROVE  batch[l] = IF \E i \in ItemsOf(l) : item[i] # "none" /\ item[i] = "failed"
                                 THEN "failed" ELSE "completed"
    BY DEF BatchTold
  <2>1. ~Open(l)
    BY DEF Open, Settled
  <2>2. batch[l] = Summary(l)
    BY <2>1 DEF IInv, BatchSound
  <2>3. QED
    BY <2>1, <2>2, SummaryIs
<1>2. QED
  BY <1>1, InvInit, InvNext, PTL DEF Spec

-----------------------------------------------------------------------------
(* The types of Delivery.  Those the steps keep because the items staged are *)
(* the items there are, and each of them once; because what is announced is  *)
(* announced by a report that has ended; and because a pass never has more   *)
(* results in hand than it may still take, so that it never counts below 0.  *)
StagedSound ==
  ToSet(staged) = {i \in Items : item[i] # "none"} /\ IsInjective(staged)

StreamSound ==
  /\ msg \in [Items -> {"none", "new", "delivered", "gone"}]
  /\ idle \subseteq {i \in Items : msg[i] = "delivered"}
  /\ \A i \in Items : msg[i] # "none" => report[i] = "ended"
  /\ \A q \in Projectors : \A i \in proj[q].ids : msg[i] # "none"

InHand(q) == {i \in Items : proj[q].work[i] \in {"taken", "applied"}}

LeftSound(q) ==
  /\ proj[q].left \in 0..BatchSize
  /\ IsFiniteSet(InHand(q)) /\ Cardinality(InHand(q)) <= proj[q].left

TypesInv ==
  /\ job \in [Items -> Jobs]
  /\ faults \in 0..MaxFaults
  /\ StagedSound
  /\ StreamSound
  /\ \A q \in Projectors : LeftSound(q)

(* The n oldest of the items that wait are n at most: no two positions of    *)
(* them have the same number of waiting positions before them, and all those *)
(* numbers are below n.                                                      *)
LEMMA OldestFew ==
  ASSUME staged \in Seq(Items), NEW n \in Nat
  PROVE  IsFiniteSet(Oldest(n)) /\ Cardinality(Oldest(n)) <= n
<1> DEFINE waiting == {x \in DOMAIN staged : item[staged[x]] = "pending"}
           Before(x) == {z \in waiting : z < x}
           first == {y \in waiting : Cardinality(Before(y)) < n}
           rank == [y \in first |-> Cardinality(Before(y))]
           pick == [y \in first |-> staged[y]]
<1>1. waiting \subseteq 1..Len(staged) /\ Len(staged) \in Nat
  OBVIOUS
<1>2. IsFiniteSet(waiting)
  <2>1. IsFiniteSet(1..Len(staged))
    BY <1>1, FS_Interval
  <2>2. QED
    BY <1>1, <2>1, FS_Subset
<1>3. \A x \in waiting : x \in Nat
  BY <1>1
<1> HIDE DEF waiting
<1>4. \A x : IsFiniteSet(Before(x)) /\ Cardinality(Before(x)) \in Nat
  <2>1. \A x : Before(x) \in SUBSET waiting
    OBVIOUS
  <2>2. QED
    BY <1>2, <2>1, FS_Subset, FS_CardinalityType
<1>5. ASSUME NEW x \in waiting, NEW y \in waiting, x < y
      PROVE  Cardinality(Before(x)) < Cardinality(Before(y))
  <2>1. x \notin Before(x)
    BY <1>3
  <2>2. Before(x) \cup {x} \subseteq Before(y)
    BY <1>3, <1>5
  <2> HIDE DEF Before
  <2>3. /\ IsFiniteSet(Before(x) \cup {x})
        /\ Cardinality(Before(x) \cup {x}) = Cardinality(Before(x)) + 1
    BY <1>4, <2>1, FS_AddElement
  <2>4. Cardinality(Before(x) \cup {x}) <= Cardinality(Before(y))
    BY <1>4, <2>2, FS_Subset
  <2>5. QED
    BY <1>4, <2>3, <2>4
<1> HIDE DEF Before
<1>6. first \subseteq waiting /\ \A y \in first : Cardinality(Before(y)) \in 0..(n - 1)
  BY <1>4
<1>7. rank \in Injection(first, 0..(n - 1))
  <2>1. rank \in [first -> 0..(n - 1)]
    BY <1>6
  <2>2. ASSUME NEW x \in first, NEW y \in first, rank[x] = rank[y] PROVE x = y
    <3>1. Cardinality(Before(x)) = Cardinality(Before(y)) /\ Cardinality(Before(x)) \in Nat
      BY <1>4, <2>2
    <3>2. ~(x < y) /\ ~(y < x)
      BY <1>5, <1>6, <3>1
    <3>3. x \in Nat /\ y \in Nat
      BY <1>3, <1>6
    <3>4. QED
      BY <3>2, <3>3
  <2>3. DOMAIN rank = first
    OBVIOUS
  <2> HIDE DEF rank, first
  <2>4. QED
    BY <2>1, <2>2, <2>3 DEF Injection, IsInjective
<1> HIDE DEF rank
<1>8. IsFiniteSet(0..(n - 1)) /\ Cardinality(0..(n - 1)) = n
  <2>1. 0 \in Int /\ n - 1 \in Int
    OBVIOUS
  <2>2. QED
    BY <2>1, FS_Interval
<1>9. IsFiniteSet(first) /\ Cardinality(first) <= n /\ Cardinality(first) \in Nat
  <2> HIDE DEF first
  <2>1. QED
    BY <1>7, <1>8, FS_Injection, FS_CardinalityType
<1>10. Oldest(n) = {staged[y] : y \in first}
  BY DEF Oldest, waiting, Before
<1> HIDE DEF first
<1>11. pick \in Surjection(first, Oldest(n))
  BY <1>10 DEF Surjection
<1>12. IsFiniteSet(Oldest(n)) /\ Cardinality(Oldest(n)) <= Cardinality(first)
  BY <1>9, <1>11, FS_Surjection
<1>13. QED
  BY <1>9, <1>12, FS_CardinalityType

LEMMA InHandWithin ==
  ASSUME NEW q \in Projectors, LeftSound(q), InHand(q)' \subseteq InHand(q),
         proj'[q].left = proj[q].left
  PROVE  LeftSound(q)'
<1>1. /\ IsFiniteSet(InHand(q)) /\ Cardinality(InHand(q)) <= proj[q].left
      /\ proj[q].left \in 0..BatchSize
  BY DEF LeftSound
<1>2. IsFiniteSet(InHand(q)') /\ Cardinality(InHand(q)') <= Cardinality(InHand(q))
  BY <1>1, FS_Subset
<1>3. Cardinality(InHand(q)') \in Nat /\ Cardinality(InHand(q)) \in Nat
  BY <1>1, <1>2, FS_CardinalityType
<1>4. QED
  BY <1>1, <1>2, <1>3 DEF LeftSound

LEMMA NothingInHand ==
  ASSUME NEW q \in Projectors, \A i \in Items : proj'[q].work[i] = "none",
         proj'[q].left \in 0..BatchSize
  PROVE  LeftSound(q)'
<1>1. InHand(q)' = {}
  BY DEF InHand
<1>2. IsFiniteSet({}) /\ Cardinality({}) = 0
  BY FS_EmptySet
<1>3. QED
  BY <1>1, <1>2, DeliveryConstants DEF LeftSound

(* A step of p alone, and one it takes nothing in hand by.                   *)
LEMMA LeftFrame ==
  ASSUME TypesInv, NEW p \in Projectors, LeftSound(p)',
         \A q \in Projectors \ {p} : proj'[q] = proj[q]
  PROVE  \A q \in Projectors : LeftSound(q)'
BY DEF TypesInv, LeftSound, InHand

LEMMA LeftKept ==
  ASSUME TypesInv, NEW p \in Projectors,
         \A q \in Projectors \ {p} : proj'[q] = proj[q],
         proj'[p].left = proj[p].left,
         \A i \in Items : proj'[p].work[i] \in {"taken", "applied"} =>
                            proj[p].work[i] \in {"taken", "applied"}
  PROVE  \A q \in Projectors : LeftSound(q)'
<1>1. InHand(p)' \subseteq InHand(p)
  BY DEF InHand
<1>2. LeftSound(p)'
  BY <1>1, InHandWithin DEF TypesInv
<1>3. QED
  BY <1>2, LeftFrame

LEMMA LeftFresh ==
  ASSUME TypesInv, NEW p \in Projectors, \A q \in Projectors \ {p} : proj'[q] = proj[q],
         \A i \in Items : proj'[p].work[i] = "none", proj'[p].left \in 0..BatchSize
  PROVE  \A q \in Projectors : LeftSound(q)'
BY NothingInHand, LeftFrame

LEMMA LeftRecoverFailed ==
  ASSUME IInv, TypesInv, NEW p \in Projectors, RecoverFailed(p)
  PROVE  \A q \in Projectors : LeftSound(q)'
<1>1. proj[p].pc = "recover_failed" /\ proj \in [Projectors -> Pass] /\ PassSound(p)
  BY DEF RecoverFailed, IInv, Types
<1>2. /\ \A q \in Projectors \ {p} : proj'[q] = proj[q]
      /\ proj'[p].left = BatchSize /\ proj'[p].work = proj[p].work
  BY <1>1 DEF RecoverFailed, Pass
<1>3. \A i \in Items : proj'[p].work[i] = "none"
  BY <1>1, <1>2 DEF PassSound
<1>4. QED
  BY <1>2, <1>3, LeftFresh, DeliveryConstants

LEMMA LeftClaimItems ==
  ASSUME IInv, TypesInv, NEW p \in Projectors, ClaimItems(p)
  PROVE  \A q \in Projectors : LeftSound(q)'
<1> DEFINE S == Oldest(proj[p].left)
           w == [i \in Items |-> IF i \in S THEN "taken" ELSE "none"]
<1>1. proj \in [Projectors -> Pass] /\ staged \in Seq(Items) /\ proj[p].left \in 0..BatchSize
  BY DEF IInv, Types, TypesInv, LeftSound
<1>2. IsFiniteSet(S) /\ Cardinality(S) <= proj[p].left
  BY <1>1, OldestFew, DeliveryConstants
<1>3. S \subseteq Items
  BY OldestWait
<1>4. proj' = [proj EXCEPT ![p].pc = "claimed", ![p].any = FALSE, ![p].work = w]
  BY DEF ClaimItems
<1>5. \A i \in Items : w[i] = IF i \in S THEN "taken" ELSE "none"
  OBVIOUS
<1> HIDE DEF S, w
<1>6. /\ \A q \in Projectors \ {p} : proj'[q] = proj[q]
      /\ proj'[p].left = proj[p].left /\ proj'[p].work = w
  BY <1>1, <1>4 DEF Pass
<1>7. InHand(p)' = S
  BY <1>3, <1>5, <1>6 DEF InHand
<1>8. LeftSound(p)'
  BY <1>1, <1>2, <1>6, <1>7 DEF LeftSound
<1>9. QED
  BY <1>6, <1>8, LeftFrame

LEMMA LeftMarkItem ==
  ASSUME IInv, TypesInv, NEW p \in Projectors, NEW i \in Items, MarkItem(p, i)
  PROVE  \A q \in Projectors : LeftSound(q)'
<1> DEFINE any == proj[p].any \/ proj[p].work[i] = "applied"
           left == IF proj[p].work[i] = "applied" THEN proj[p].left - 1 ELSE proj[p].left
<1>1. /\ proj \in [Projectors -> Pass] /\ LeftSound(p)
      /\ proj[p].left \in 0..BatchSize /\ Cardinality(InHand(p)) <= proj[p].left
      /\ IsFiniteSet(InHand(p))
  BY DEF IInv, Types, TypesInv, LeftSound
<1>2. proj' = [proj EXCEPT ![p].work[i] = "none", ![p].todo = {LeaseOf[i]}, ![p].any = any,
                           ![p].left = left]
  BY DEF MarkItem
<1>3. left = IF proj[p].work[i] = "applied" THEN proj[p].left - 1 ELSE proj[p].left
  OBVIOUS
<1> HIDE DEF any, left
<1>4. /\ \A q \in Projectors \ {p} : proj'[q] = proj[q]
      /\ proj'[p].left = left
      /\ \A j \in Items : proj'[p].work[j] = IF j = i THEN "none" ELSE proj[p].work[j]
  BY <1>1, <1>2 DEF Pass
<1>5. InHand(p)' = InHand(p) \ {i}
  BY <1>4 DEF InHand
<1>6. /\ IsFiniteSet(InHand(p) \ {i})
      /\ Cardinality(InHand(p) \ {i}) =
           IF i \in InHand(p) THEN Cardinality(InHand(p)) - 1 ELSE Cardinality(InHand(p))
  BY <1>1, FS_RemoveElement
<1>7. Cardinality(InHand(p)) \in Nat /\ Cardinality(InHand(p) \ {i}) \in Nat
  BY <1>1, <1>6, FS_CardinalityType
<1>8. proj[p].work[i] = "applied" => i \in InHand(p)
  BY DEF InHand
<1>9. left \in 0..BatchSize /\ Cardinality(InHand(p) \ {i}) <= left
  BY <1>1, <1>3, <1>6, <1>7, <1>8, DeliveryConstants
<1>10. LeftSound(p)'
  BY <1>4, <1>5, <1>6, <1>9 DEF LeftSound
<1>11. QED
  BY <1>4, <1>10, LeftFrame

LEMMA FreshLeft ==
  ASSUME NEW pc \in Places
  PROVE  Fresh(pc).left \in 0..BatchSize
BY DeliveryConstants DEF Fresh

LEMMA LeftFails ==
  ASSUME IInv, TypesInv, NEW p \in Projectors, NEW pc \in {"read", "down"},
         proj' = [proj EXCEPT ![p] = Fresh(pc)]
  PROVE  \A q \in Projectors : LeftSound(q)'
<1>1. proj \in [Projectors -> Pass] /\ pc \in Places
  BY DEF IInv, Types, Places
<1>2. proj'[p] = Fresh(pc) /\ \A q \in Projectors \ {p} : proj'[q] = proj[q]
  BY <1>1
<1>3. proj'[p].left \in 0..BatchSize /\ \A i \in Items : proj'[p].work[i] = "none"
  BY <1>1, <1>2, FreshType, FreshLeft
<1>4. QED
  BY <1>2, <1>3, LeftFresh

(* The other steps of a pass take no result and leave the count.             *)
LEMMA LeftOtherSteps ==
  ASSUME IInv, TypesInv, NEW p \in Projectors,
         \/ ReadBatch(p) \/ RecoverRequeued(p) \/ WriteBatch(p) \/ MarkBatches(p)
         \/ Drained(p) \/ PassEnds(p) \/ \E l \in Leases : CountItems(p, l)
         \/ \E i \in Items : TaskPanics(p, i) \/ \E ok \in BOOLEAN : Applied(p, i, ok)
  PROVE  \A q \in Projectors : LeftSound(q)'
<1>0. proj \in [Projectors -> Pass]
  BY DEF IInv, Types
<1>1. CASE ReadBatch(p)
  <2>1. PICK ids : proj' = [proj EXCEPT ![p].pc = "recover", ![p].ids = ids]
    BY <1>1 DEF ReadBatch
  <2>2. /\ \A q \in Projectors \ {p} : proj'[q] = proj[q]
        /\ proj'[p].left = proj[p].left /\ proj'[p].work = proj[p].work
    BY <1>0, <2>1 DEF Pass
  <2>3. QED
    BY <2>2, LeftKept
<1>2. CASE RecoverRequeued(p)
  <2>1. PICK t : proj' = [proj EXCEPT ![p].pc = "recover_failed", ![p].todo = t]
    BY <1>2 DEF RecoverRequeued
  <2>2. /\ \A q \in Projectors \ {p} : proj'[q] = proj[q]
        /\ proj'[p].left = proj[p].left /\ proj'[p].work = proj[p].work
    BY <1>0, <2>1 DEF Pass
  <2>3. QED
    BY <2>2, LeftKept
<1>3. CASE WriteBatch(p) \/ \E l \in Leases : CountItems(p, l)
  <2>1. /\ \A q \in Projectors \ {p} : proj'[q] = proj[q]
        /\ proj'[p].left = proj[p].left /\ proj'[p].work = proj[p].work
    <3>1. CASE WriteBatch(p)
      BY <1>0, <3>1 DEF WriteBatch, Pass
    <3>2. ASSUME NEW l \in Leases, CountItems(p, l)
          PROVE  /\ \A q \in Projectors \ {p} : proj'[q] = proj[q]
                 /\ proj'[p].left = proj[p].left /\ proj'[p].work = proj[p].work
      <4>1. PICK v : proj' = [proj EXCEPT ![p].at = l, ![p].view = v]
        BY <3>2 DEF CountItems
      <4>2. QED
        BY <1>0, <4>1 DEF Pass
    <3>3. QED
      BY <1>3, <3>1, <3>2
  <2>2. QED
    BY <2>1, LeftKept
<1>4. CASE MarkBatches(p) \/ Drained(p) \/ PassEnds(p)
  <2>1. PICK pc : proj' = [proj EXCEPT ![p].pc = pc]
    BY <1>4 DEF MarkBatches, Drained, PassEnds
  <2>2. /\ \A q \in Projectors \ {p} : proj'[q] = proj[q]
        /\ proj'[p].left = proj[p].left /\ proj'[p].work = proj[p].work
    BY <1>0, <2>1 DEF Pass
  <2>3. QED
    BY <2>2, LeftKept
<1>5. ASSUME NEW i \in Items, TaskPanics(p, i) \/ \E ok \in BOOLEAN : Applied(p, i, ok)
      PROVE  \A q \in Projectors : LeftSound(q)'
  <2>1. PICK w : /\ proj' = [proj EXCEPT ![p].work[i] = w]
                 /\ proj[p].work[i] = "taken"
    BY <1>5 DEF TaskPanics, Applied
  <2>2. /\ \A q \in Projectors \ {p} : proj'[q] = proj[q]
        /\ proj'[p].left = proj[p].left
        /\ \A j \in Items \ {i} : proj'[p].work[j] = proj[p].work[j]
    BY <1>0, <2>1 DEF Pass
  <2>3. QED
    BY <2>1, <2>2, LeftKept
<1>6. QED
  BY <1>1, <1>2, <1>3, <1>4, <1>5

(* Everything of TypesInv but the passes, by what the steps do to it.        *)
LEMMA JobsTyped ==
  ASSUME TypesInv, Next
  PROVE  job' \in [Items -> Jobs] /\ faults' \in 0..MaxFaults
<1>0. job \in [Items -> Jobs] /\ faults \in 0..MaxFaults /\ "left" \in Jobs /\ "ingesting" \in Jobs
  BY DEF TypesInv, Jobs
<1>1. ASSUME NEW i \in Items, Report(i) \/ Idles(i) \/ Ages(i)
      PROVE  job' \in [Items -> Jobs] /\ faults' \in 0..MaxFaults
  <2>1. CASE AcceptReport(i) \/ IngestTimesOut(i) \/ JobLeaves(i)
    BY <1>0, <2>1 DEF AcceptReport, IngestTimesOut, JobLeaves
  <2>2. CASE \/ ReportBegins(i) \/ StageItem(i) \/ CountResults(i) \/ Publish(i)
             \/ ReportFails(i) \/ Dropped(i) \/ Idles(i) \/ Ages(i)
    BY <1>0, <2>2 DEF ReportBegins, StageItem, CountResults, Publish, ReportFails, Dropped,
       Idles, Ages
  <2>3. QED
    BY <1>1, <2>1, <2>2 DEF Report
<1>2. ASSUME NEW p \in Projectors, Project(p)
      PROVE  job' \in [Items -> Jobs] /\ faults' \in 0..MaxFaults
  <2>1. ASSUME NEW i \in Items, MarkItem(p, i) \/ \E ok \in BOOLEAN : Applied(p, i, ok)
        PROVE  job' \in [Items -> Jobs] /\ faults' = faults
    BY <1>0, <2>1 DEF MarkItem, Applied
  <2>2. CASE \/ ReadBatch(p) \/ RecoverRequeued(p) \/ RecoverFailed(p)
             \/ \E l \in Leases : CountItems(p, l)
             \/ WriteBatch(p) \/ ClaimItems(p) \/ MarkBatches(p)
             \/ Drained(p) \/ PassEnds(p) \/ Ack(p) \/ Restarts(p)
    BY <1>0, <2>2 DEF ReadBatch, RecoverRequeued, RecoverFailed, CountItems, WriteBatch,
       ClaimItems, MarkBatches, Drained, PassEnds, Ack, Restarts
  <2>3. QED
    BY <1>0, <1>2, <2>1, <2>2 DEF Project
<1>3. ASSUME NEW p \in Projectors,
             PassFails(p) \/ Crash(p) \/ \E i \in Items : TaskPanics(p, i)
      PROVE  job' \in [Items -> Jobs] /\ faults' \in 0..MaxFaults
  BY <1>0, <1>3, DeliveryConstants DEF PassFails, Crash, Fails, TaskPanics
<1>4. QED
  BY <1>1, <1>2, <1>3 DEF Next

(* Only a report stages; what the other steps do to an item, they do to one  *)
(* that is staged, and it stays so.                                          *)
LEMMA StagedKept ==
  ASSUME StagedSound, UNCHANGED staged,
         \A i \in Items : item'[i] = "none" <=> item[i] = "none"
  PROVE  StagedSound'
BY DEF StagedSound

LEMMA StagedNext ==
  ASSUME IInv, TypesInv, Next
  PROVE  StagedSound'
<1>0. /\ StagedSound /\ staged \in Seq(Items) /\ item \in [Items -> ItemStatuses]
      /\ \A i \in stale : i \in Items /\ item[i] = "processing"
  BY DEF IInv, Types, TypesInv
<1>1. ASSUME NEW i \in Items, StageItem(i) PROVE StagedSound'
  <2>1. /\ item[i] = "none" /\ item' = [item EXCEPT ![i] = "pending"]
        /\ staged' = Append(staged, i)
    BY <1>1 DEF StageItem, IInv, ReportsSound
  <2>2. \A x \in DOMAIN staged : item[staged[x]] # "none" /\ staged[x] # i
    BY <1>0, <2>1 DEF StagedSound, ToSet
  <2>3. /\ DOMAIN staged' = DOMAIN staged \cup {Len(staged) + 1}
        /\ \A x \in DOMAIN staged : staged'[x] = staged[x]
        /\ staged'[Len(staged) + 1] = i /\ Len(staged) + 1 \notin DOMAIN staged
    BY <1>0, <2>1
  <2>4. ToSet(staged') = ToSet(staged) \cup {i}
    BY <2>3 DEF ToSet
  <2>5. IsInjective(staged')
    BY <1>0, <2>2, <2>3 DEF StagedSound, IsInjective
  <2>6. {j \in Items : item'[j] # "none"} = {j \in Items : item[j] # "none"} \cup {i}
    BY <1>0, <2>1
  <2>7. QED
    BY <1>0, <2>4, <2>5, <2>6 DEF StagedSound
<1>2. ASSUME NEW i \in Items,
             (Report(i) /\ ~StageItem(i)) \/ Idles(i) \/ Ages(i)
      PROVE  StagedSound'
  <2>1. CASE IngestTimesOut(i)
    <3>1. \A j \in Items : item'[j] = "none" <=> item[j] = "none"
      BY <1>0, <2>1 DEF IngestTimesOut
    <3>2. QED
      BY <1>0, <2>1, <3>1, StagedKept DEF IngestTimesOut, reporting
  <2>2. CASE \/ ReportBegins(i) \/ AcceptReport(i) \/ CountResults(i) \/ Publish(i)
             \/ ReportFails(i) \/ JobLeaves(i) \/ Dropped(i) \/ Idles(i) \/ Ages(i)
    <3>1. UNCHANGED <<item, staged>>
      BY <2>2 DEF ReportBegins, AcceptReport, CountResults, Publish, ReportFails, JobLeaves,
         Dropped, Idles, Ages, reporting
    <3>2. QED
      BY <1>0, <3>1, StagedKept
  <2>3. QED
    BY <1>2, <2>1, <2>2 DEF Report
<1>3. ASSUME NEW p \in Projectors, RecoverRequeued(p) \/ RecoverFailed(p)
      PROVE  StagedSound'
  <2>1. PICK S \in SUBSET stale, w \in {"pending", "failed"} :
          item' = [i \in Items |-> IF i \in S THEN w ELSE item[i]]
    BY <1>3 DEF RecoverRequeued, RecoverFailed
  <2>2. UNCHANGED staged
    BY <1>3 DEF RecoverRequeued, RecoverFailed, reporting
  <2>3. \A j \in Items : item'[j] = "none" <=> item[j] = "none"
    BY <1>0, <2>1
  <2>4. QED
    BY <1>0, <2>2, <2>3, StagedKept
<1>4. ASSUME NEW p \in Projectors, ClaimItems(p) PROVE StagedSound'
  <2>1. \A i \in Oldest(proj[p].left) : i \in Items /\ item[i] = "pending"
    BY OldestWait
  <2>2. /\ item' = [i \in Items |-> IF i \in Oldest(proj[p].left) THEN "processing" ELSE item[i]]
        /\ UNCHANGED staged
    BY <1>4 DEF ClaimItems, reporting
  <2>3. \A j \in Items : item'[j] = "none" <=> item[j] = "none"
    BY <2>1, <2>2
  <2>4. QED
    BY <1>0, <2>2, <2>3, StagedKept
<1>5. ASSUME NEW p \in Projectors, NEW i \in Items, MarkItem(p, i) PROVE StagedSound'
  <2>1. /\ proj[p].work[i] \in {"applied", "broken"} /\ UNCHANGED staged
        /\ item' = [item EXCEPT ![i] = IF proj[p].work[i] = "applied" THEN "completed"
                                       ELSE "failed"]
    BY <1>5 DEF MarkItem, reporting
  <2>2. item[i] # "none"
    BY <2>1 DEF IInv, PassSound
  <2>3. \A j \in Items : item'[j] = "none" <=> item[j] = "none"
    BY <1>0, <2>1, <2>2
  <2>4. QED
    BY <1>0, <2>1, <2>3, StagedKept
<1>6. ASSUME NEW p \in Projectors,
             \/ ReadBatch(p) \/ \E l \in Leases : CountItems(p, l)
             \/ WriteBatch(p) \/ MarkBatches(p) \/ Drained(p) \/ PassEnds(p) \/ Ack(p)
             \/ Restarts(p) \/ PassFails(p) \/ Crash(p)
             \/ \E i \in Items : TaskPanics(p, i) \/ \E ok \in BOOLEAN : Applied(p, i, ok)
      PROVE  StagedSound'
  <2>1. UNCHANGED <<item, staged>>
    BY <1>6 DEF ReadBatch, CountItems, WriteBatch, MarkBatches, Drained, PassEnds, Ack,
       Restarts, PassFails, Crash, Fails, TaskPanics, Applied, reporting
  <2>2. QED
    BY <1>0, <2>1, StagedKept
<1>7. QED
  BY <1>1, <1>2, <1>3, <1>4, <1>5, <1>6 DEF Next, Project, Report

(* A pass keeps the messages it has read until it ends.                      *)
LEMMA IdsKept ==
  ASSUME IInv, NEW p \in Projectors,
         \/ RecoverRequeued(p) \/ RecoverFailed(p) \/ \E l \in Leases : CountItems(p, l)
         \/ WriteBatch(p) \/ ClaimItems(p) \/ MarkBatches(p) \/ Drained(p) \/ PassEnds(p)
         \/ Ack(p) \/ Restarts(p) \/ PassFails(p) \/ Crash(p)
         \/ \E i \in Items : \/ TaskPanics(p, i) \/ MarkItem(p, i)
                             \/ \E ok \in BOOLEAN : Applied(p, i, ok)
  PROVE  \A q \in Projectors : proj'[q].ids \subseteq proj[q].ids
<1>0. proj \in [Projectors -> Pass]
  BY DEF IInv, Types
<1>1. CASE Ack(p) \/ Restarts(p) \/ PassFails(p) \/ Crash(p)
  <2>1. PICK pc : proj' = [proj EXCEPT ![p] = Fresh(pc)]
    BY <1>1 DEF Ack, Restarts, PassFails, Crash, Fails
  <2>2. Fresh(pc).ids = {}
    BY DEF Fresh
  <2>3. proj'[p] = Fresh(pc) /\ \A q \in Projectors \ {p} : proj'[q] = proj[q]
    BY <1>0, <2>1
  <2>4. QED
    BY <2>2, <2>3
<1>2. CASE RecoverRequeued(p)
  <2>1. PICK t : proj' = [proj EXCEPT ![p].pc = "recover_failed", ![p].todo = t]
    BY <1>2 DEF RecoverRequeued
  <2>2. QED
    BY <1>0, <2>1 DEF Pass
<1>3. CASE RecoverFailed(p)
  <2>1. PICK t : proj' = [proj EXCEPT ![p].pc = "pass", ![p].left = BatchSize, ![p].todo = t]
    BY <1>0, <1>3 DEF RecoverFailed, Pass
  <2>2. QED
    BY <1>0, <2>1 DEF Pass
<1>4. ASSUME NEW l \in Leases, CountItems(p, l)
      PROVE  \A q \in Projectors : proj'[q].ids \subseteq proj[q].ids
  <2>1. PICK v : proj' = [proj EXCEPT ![p].at = l, ![p].view = v]
    BY <1>4 DEF CountItems
  <2>2. QED
    BY <1>0, <2>1 DEF Pass
<1>5. CASE WriteBatch(p)
  BY <1>0, <1>5 DEF WriteBatch, Pass
<1>6. CASE ClaimItems(p)
  <2>1. PICK w : proj' = [proj EXCEPT ![p].pc = "claimed", ![p].any = FALSE, ![p].work = w]
    BY <1>6 DEF ClaimItems
  <2>2. QED
    BY <1>0, <2>1 DEF Pass
<1>7. CASE MarkBatches(p) \/ Drained(p) \/ PassEnds(p)
  <2>1. PICK pc : proj' = [proj EXCEPT ![p].pc = pc]
    BY <1>7 DEF MarkBatches, Drained, PassEnds
  <2>2. QED
    BY <1>0, <2>1 DEF Pass
<1>8. ASSUME NEW i \in Items, TaskPanics(p, i) \/ \E ok \in BOOLEAN : Applied(p, i, ok)
      PROVE  \A q \in Projectors : proj'[q].ids \subseteq proj[q].ids
  <2>1. PICK w : proj' = [proj EXCEPT ![p].work[i] = w]
    BY <1>8 DEF TaskPanics, Applied
  <2>2. QED
    BY <1>0, <2>1 DEF Pass
<1>9. ASSUME NEW i \in Items, MarkItem(p, i)
      PROVE  \A q \in Projectors : proj'[q].ids \subseteq proj[q].ids
  <2> DEFINE any == proj[p].any \/ proj[p].work[i] = "applied"
             left == IF proj[p].work[i] = "applied" THEN proj[p].left - 1 ELSE proj[p].left
  <2>1. proj' = [proj EXCEPT ![p].work[i] = "none", ![p].todo = {LeaseOf[i]},
                             ![p].any = any, ![p].left = left]
    BY <1>9 DEF MarkItem
  <2> HIDE DEF any, left
  <2>2. QED
    BY <1>0, <2>1 DEF Pass
<1>10. QED
  BY <1>1, <1>2, <1>3, <1>4, <1>5, <1>6, <1>7, <1>8, <1>9

(* A message is announced once, delivered once new, and idle only while it   *)
(* is delivered; a pass acknowledges messages that were announced.           *)
LEMMA StreamKept ==
  ASSUME StreamSound, UNCHANGED stream,
         \A i \in Items : report[i] = "ended" => report'[i] = "ended",
         \A q \in Projectors : proj'[q].ids \subseteq proj[q].ids
  PROVE  StreamSound'
<1>1. msg' = msg /\ idle' = idle
  BY DEF stream
<1>2. \A i \in Items : msg'[i] # "none" => report'[i] = "ended"
  BY <1>1 DEF StreamSound
<1>3. \A q \in Projectors : \A i \in proj'[q].ids : msg'[i] # "none"
  BY <1>1 DEF StreamSound
<1>4. QED
  BY <1>1, <1>2, <1>3 DEF StreamSound

LEMMA StreamNext ==
  ASSUME IInv, TypesInv, Next
  PROVE  StreamSound'
<1>0. /\ report \in [Items -> Reports]
      /\ msg \in [Items -> {"none", "new", "delivered", "gone"}]
      /\ \A i \in idle : i \in Items /\ msg[i] = "delivered"
      /\ \A i \in Items : msg[i] # "none" => report[i] = "ended"
      /\ StreamSound
      /\ proj \in [Projectors -> Pass]
      /\ \A q \in Projectors : \A i \in proj[q].ids : i \in Items /\ msg[i] # "none"
  <2>1. \A q \in Projectors : proj[q].ids \subseteq Items
    BY DEF IInv, Types, Pass
  <2>2. QED
    BY <2>1 DEF IInv, Types, TypesInv, StreamSound
<1>1. ASSUME NEW i \in Items, Publish(i) PROVE StreamSound'
  <2>1. /\ report[i] = "counted" /\ report' = [report EXCEPT ![i] = "ended"]
        /\ msg' = [msg EXCEPT ![i] = "new"] /\ UNCHANGED <<idle, proj>>
    BY <1>1 DEF Publish
  <2>2. i \notin idle
    BY <1>0, <2>1
  <2>3. \A j \in Items : msg'[j] # "none" => report'[j] = "ended"
    BY <1>0, <2>1
  <2>4. \A j \in idle' : j \in Items /\ msg'[j] = "delivered"
    BY <1>0, <2>1, <2>2
  <2>5. msg' \in [Items -> {"none", "new", "delivered", "gone"}]
    BY <1>0, <2>1
  <2>6. \A q \in Projectors : \A j \in proj'[q].ids : msg'[j] # "none"
    BY <1>0, <2>1
  <2>7. QED
    BY <2>3, <2>4, <2>5, <2>6 DEF StreamSound
<1>2. ASSUME NEW i \in Items, Dropped(i) PROVE StreamSound'
  <2>1. /\ msg[i] = "new" /\ msg' = [msg EXCEPT ![i] = "gone"]
        /\ UNCHANGED <<report, idle, proj>>
    BY <1>2 DEF Dropped, reporting
  <2>2. /\ msg' \in [Items -> {"none", "new", "delivered", "gone"}]
        /\ \A j \in Items : msg'[j] # "none" => msg[j] # "none"
        /\ \A j \in Items : msg[j] # "none" => msg'[j] # "none"
        /\ \A j \in idle' : j \in Items /\ msg'[j] = "delivered"
    BY <1>0, <2>1
  <2>3. QED
    BY <1>0, <2>1, <2>2 DEF StreamSound
<1>3. ASSUME NEW i \in Items, Idles(i) PROVE StreamSound'
  <2>1. /\ msg[i] = "delivered" /\ idle' = idle \cup {i}
        /\ UNCHANGED <<report, msg, proj>>
    BY <1>3 DEF Idles, reporting
  <2>2. QED
    BY <1>0, <2>1 DEF StreamSound
<1>4. ASSUME NEW p \in Projectors, ReadBatch(p) PROVE StreamSound'
  <2>1. PICK old \in SUBSET idle, new \in SUBSET {i \in Items : msg[i] = "new"} :
          /\ msg' = [i \in Items |-> IF i \in new THEN "delivered" ELSE msg[i]]
          /\ idle' = idle \ old
          /\ proj' = [proj EXCEPT ![p].pc = "recover", ![p].ids = old \cup new]
    BY <1>4 DEF ReadBatch, Some
  <2>2. report' = report
    BY <1>4 DEF ReadBatch, reporting
  <2>3. /\ \A i \in Items : msg'[i] = IF i \in new THEN "delivered" ELSE msg[i]
        /\ msg' \in [Items -> {"none", "new", "delivered", "gone"}]
    BY <1>0, <2>1
  <2>4. /\ \A i \in Items : msg[i] # "none" <=> msg'[i] # "none"
        /\ \A i \in idle' : i \in Items /\ msg'[i] = "delivered"
    BY <1>0, <2>1, <2>3
  <2>5. /\ proj'[p].ids = old \cup new
        /\ \A q \in Projectors \ {p} : proj'[q] = proj[q]
    BY <1>0, <2>1 DEF Pass
  <2>6. \A i \in old \cup new : i \in Items /\ msg'[i] # "none"
    BY <1>0, <2>1, <2>4
  <2>7. \A q \in Projectors : \A i \in proj'[q].ids : msg'[i] # "none"
    BY <1>0, <2>4, <2>5, <2>6
  <2>8. QED
    BY <1>0, <2>2, <2>3, <2>4, <2>7 DEF StreamSound
<1>5. ASSUME NEW p \in Projectors, Ack(p) PROVE StreamSound'
  <2>1. /\ msg' = [i \in Items |-> IF i \in proj[p].ids THEN "gone" ELSE msg[i]]
        /\ idle' = idle \ proj[p].ids /\ report' = report
    BY <1>5 DEF Ack, reporting
  <2>2. msg' \in [Items -> {"none", "new", "delivered", "gone"}]
    BY <1>0, <2>1
  <2>3. /\ \A i \in Items : msg[i] # "none" <=> msg'[i] # "none"
        /\ \A i \in idle' : i \in Items /\ msg'[i] = "delivered"
    BY <1>0, <2>1
  <2>4. \A q \in Projectors : \A i \in proj'[q].ids : msg'[i] # "none"
    BY <1>0, <1>5, <2>3, IdsKept
  <2>5. QED
    BY <1>0, <2>1, <2>2, <2>3, <2>4 DEF StreamSound
<1>6. ASSUME NEW i \in Items,
             \/ ReportBegins(i) \/ StageItem(i) \/ AcceptReport(i) \/ CountResults(i)
             \/ ReportFails(i) \/ JobLeaves(i) \/ IngestTimesOut(i) \/ Ages(i)
      PROVE  StreamSound'
  <2>1. UNCHANGED <<stream, proj>>
    BY <1>6 DEF ReportBegins, StageItem, AcceptReport, CountResults, ReportFails, JobLeaves,
       IngestTimesOut, Ages
  <2>2. \/ report' = report
        \/ report[i] # "ended" /\ \E r : report' = [report EXCEPT ![i] = r]
    BY <1>6 DEF ReportBegins, StageItem, AcceptReport, CountResults, ReportFails, JobLeaves,
       IngestTimesOut, Ages, reporting
  <2>3. \A j \in Items : report[j] = "ended" => report'[j] = "ended"
    BY <1>0, <2>2
  <2>4. QED
    BY <1>0, <2>1, <2>3, StreamKept
<1>7. ASSUME NEW p \in Projectors,
             \/ RecoverRequeued(p) \/ RecoverFailed(p) \/ \E l \in Leases : CountItems(p, l)
             \/ WriteBatch(p) \/ ClaimItems(p) \/ MarkBatches(p) \/ Drained(p) \/ PassEnds(p)
             \/ Restarts(p) \/ PassFails(p) \/ Crash(p)
             \/ \E i \in Items : \/ TaskPanics(p, i) \/ MarkItem(p, i)
                                 \/ \E ok \in BOOLEAN : Applied(p, i, ok)
      PROVE  StreamSound'
  <2>1. UNCHANGED <<report, stream>>
    BY <1>7 DEF RecoverRequeued, RecoverFailed, CountItems, WriteBatch, ClaimItems,
       MarkBatches, Drained, PassEnds, Restarts, PassFails, Crash, Fails, TaskPanics, MarkItem,
       Applied, reporting, stream
  <2>2. \A q \in Projectors : proj'[q].ids \subseteq proj[q].ids
    BY <1>7, IdsKept
  <2>3. QED
    BY <1>0, <2>1, <2>2, StreamKept
<1>8. QED
  BY <1>1, <1>2, <1>3, <1>4, <1>5, <1>6, <1>7 DEF Next, Project, Report

LEMMA LeftNext ==
  ASSUME IInv, TypesInv, Next
  PROVE  \A q \in Projectors : LeftSound(q)'
<1>1. ASSUME NEW i \in Items, Report(i) \/ Idles(i) \/ Ages(i)
      PROVE  \A q \in Projectors : LeftSound(q)'
  <2>1. proj' = proj
    BY <1>1 DEF Report, ReportBegins, StageItem, AcceptReport, CountResults, Publish,
       ReportFails, JobLeaves, IngestTimesOut, Dropped, Idles, Ages
  <2>2. QED
    BY <2>1 DEF TypesInv, LeftSound, InHand
<1>2. ASSUME NEW p \in Projectors, Project(p)
      PROVE  \A q \in Projectors : LeftSound(q)'
  <2>1. CASE Ack(p) \/ Restarts(p)
    <3>1. proj' = [proj EXCEPT ![p] = Fresh("read")]
      BY <2>1 DEF Ack, Restarts
    <3>2. QED
      BY <3>1, LeftFails
  <2>2. ASSUME NEW i \in Items, MarkItem(p, i) \/ \E ok \in BOOLEAN : Applied(p, i, ok)
        PROVE  \A q \in Projectors : LeftSound(q)'
    BY <2>2, LeftMarkItem, LeftOtherSteps
  <2>3. CASE \/ ReadBatch(p) \/ RecoverRequeued(p) \/ WriteBatch(p) \/ MarkBatches(p)
             \/ Drained(p) \/ PassEnds(p) \/ \E l \in Leases : CountItems(p, l)
    BY <2>3, LeftOtherSteps
  <2>4. QED
    BY <1>2, <2>1, <2>2, <2>3, LeftRecoverFailed, LeftClaimItems DEF Project
<1>3. ASSUME NEW p \in Projectors,
             PassFails(p) \/ Crash(p) \/ \E i \in Items : TaskPanics(p, i)
      PROVE  \A q \in Projectors : LeftSound(q)'
  <2>1. CASE PassFails(p) \/ Crash(p)
    <3>1. PICK pc \in {"read", "down"} : proj' = [proj EXCEPT ![p] = Fresh(pc)]
      BY <2>1 DEF PassFails, Crash, Fails
    <3>2. QED
      BY <3>1, LeftFails
  <2>2. QED
    BY <1>3, <2>1, LeftOtherSteps
<1>4. QED
  BY <1>1, <1>2, <1>3 DEF Next

LEMMA TypesInit == Init => TypesInv
<1> SUFFICES ASSUME Init PROVE TypesInv
  OBVIOUS
<1>1. job \in [Items -> Jobs] /\ faults \in 0..MaxFaults
  BY DeliveryConstants DEF Init, Jobs
<1>2. StagedSound
  BY DEF Init, StagedSound, ToSet, IsInjective
<1>3. StreamSound
  <2>1. \A q \in Projectors : proj[q].ids = {}
    BY DEF Init, Fresh
  <2>2. QED
    BY <2>1 DEF Init, StreamSound
<1>4. ASSUME NEW q \in Projectors PROVE LeftSound(q)
  <2>1. proj[q] = Fresh("read") /\ "read" \in Places
    BY DEF Init, Places
  <2>2. InHand(q) = {} /\ proj[q].left \in 0..BatchSize
    BY <2>1, FreshType, FreshLeft DEF InHand
  <2>3. IsFiniteSet({}) /\ Cardinality({}) = 0
    BY FS_EmptySet
  <2>4. QED
    BY <2>2, <2>3, DeliveryConstants DEF LeftSound
<1>5. QED
  BY <1>1, <1>2, <1>3, <1>4 DEF TypesInv

LEMMA TypesNext == IInv /\ TypesInv /\ [Next]_vars => TypesInv'
<1>1. ASSUME IInv, TypesInv, Next PROVE TypesInv'
  BY <1>1, JobsTyped, StagedNext, StreamNext, LeftNext DEF TypesInv
<1>2. ASSUME TypesInv, UNCHANGED vars PROVE TypesInv'
  BY <1>2 DEF TypesInv, StagedSound, StreamSound, LeftSound, InHand, vars
<1>3. QED
  BY <1>1, <1>2

(* The rows and the messages are what the tables and the stream allow, the   *)
(* items staged are the items there are, each of them once, and no pass      *)
(* projects more results than its batch size, however many projectors take,  *)
(* fail and start again: processed never exceeds limit in                    *)
(* process_pending_ingests (crawler.rs:1714-1731).                           *)
THEOREM TypesHold == Spec => []TypeOK
<1>1. IInv /\ TypesInv => TypeOK
  <2> SUFFICES ASSUME IInv, TypesInv PROVE TypeOK
    OBVIOUS
  <2>1. ASSUME NEW q \in Projectors PROVE proj[q] \in Projector
    <3>1. proj[q] \in Pass /\ proj[q].left \in 0..BatchSize
      BY DEF IInv, Types, TypesInv, LeftSound
    <3>2. QED
      BY <3>1 DEF Pass, Projector
  <2>2. proj \in [Projectors -> Projector]
    BY <2>1 DEF IInv, Types
  <2>3. QED
    BY <2>2 DEF IInv, Types, TypesInv, StagedSound, StreamSound, TypeOK
<1>2. QED
  BY <1>1, InvInit, InvNext, TypesInit, TypesNext, PTL DEF Spec
==============================================================================
