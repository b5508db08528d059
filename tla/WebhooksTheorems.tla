-------------------------- MODULE WebhooksTheorems --------------------------
(***************************************************************************)
(* Proofs about Webhooks, for any endpoints and events, any size of the    *)
(* batch, any retry schedule and any number of faults.                     *)
(***************************************************************************)
EXTENDS Webhooks, FiniteSetTheorems, TLAPS

-----------------------------------------------------------------------------
(***************************************************************************)
(* The dispatcher's batch.                                                 *)
(***************************************************************************)

\* A batch names no delivery twice.
Distinct == \A i, k \in 1 .. Len(batch) : batch[i].job = batch[k].job => i = k

LEMMA DueIsFinite ==
  ASSUME NEW D, D \subseteq Jobs
  PROVE  IsFiniteSet(D) /\ Cardinality(D) \in Nat
BY ConstantsAssumption, FS_Subset, FS_CardinalityType DEF Jobs

\* The size of the batches that can be returned.
LEMMA BatchSize ==
  ASSUME NEW D, D \subseteq Jobs, NEW b \in Batches(D)
  PROVE  \E n \in Nat : /\ b \in [1 .. n -> D]
                        /\ \A i, k \in 1 .. n : i < k => b[i] # b[k]
<1> DEFINE n == IF Cardinality(D) < Limit THEN Cardinality(D) ELSE Limit
<1>1. n \in Nat
  BY DueIsFinite, ConstantsAssumption
<1>2. b \in [1 .. n -> D] /\ \A i, k \in 1 .. n : i < k => b[i] # b[k]
  BY DEF Batches
<1> QED
  BY <1>1, <1>2

\* What DueWebhooks makes of the table: copies of different pending deliveries.
LEMMA FetchedBatch ==
  ASSUME TypeOK, DueWebhooks
  PROVE  /\ batch' \in Seq(Items)
         /\ Distinct'
         /\ \A i \in 1 .. Len(batch') : batch'[i].job \in Jobs /\ status[batch'[i].job] = "pending"
<1>1. PICK b \in Batches(Due) : batch' = [i \in 1 .. Len(b) |-> Item(b[i])]
  BY DEF DueWebhooks
<1>2. Due \subseteq Jobs
  BY DEF Due
<1>3. PICK n \in Nat : /\ b \in [1 .. n -> Due]
                       /\ \A i, k \in 1 .. n : i < k => b[i] # b[k]
  BY <1>1, <1>2, BatchSize
<1>4. Len(b) = n
  BY <1>3
<1>5. \A i \in 1 .. n : b[i] \in Due /\ batch'[i] = Item(b[i])
  BY <1>1, <1>3, <1>4
<1>6. \A j \in Due : Item(j) \in Items /\ Item(j).job = j /\ status[j] = "pending"
  BY DEF Due, Item, Items, TypeOK
<1>7. batch' \in [1 .. n -> Items]
  BY <1>1, <1>4, <1>5, <1>6
<1>8. batch' \in Seq(Items) /\ Len(batch') = n
  BY <1>7
<1>9. Distinct'
  <2> SUFFICES ASSUME NEW i \in 1 .. n, NEW k \in 1 .. n, batch'[i].job = batch'[k].job
               PROVE  i = k
    BY <1>8 DEF Distinct
  <2>1. b[i] = b[k]
    BY <1>5, <1>6
  <2> QED
    BY <1>3, <2>1
<1> QED
  BY <1>2, <1>5, <1>6, <1>8, <1>9

\* The dispatcher goes to the next delivery.
LEMMA NextBatch ==
  ASSUME TypeOK, Distinct, batch # <<>>, NextItem
  PROVE  /\ batch' \in Seq(Items)
         /\ Distinct'
         /\ \A j : InBatch(j)' => InBatch(j) /\ j # Current
<1>1. batch \in Seq(Items) /\ batch' = Tail(batch) /\ Len(batch) \in Nat \ {0}
  BY DEF TypeOK, NextItem
<1>2. batch' \in Seq(Items) /\ Len(batch') = Len(batch) - 1
  BY <1>1
<1>3. \A i \in 1 .. Len(batch') : batch'[i] = batch[i + 1] /\ i + 1 \in 1 .. Len(batch)
  BY <1>1, <1>2
<1>4. Current = batch[1].job /\ 1 \in 1 .. Len(batch)
  BY <1>1 DEF Current
<1>5. Distinct'
  <2> SUFFICES ASSUME NEW i \in 1 .. Len(batch'), NEW k \in 1 .. Len(batch'),
                      batch'[i].job = batch'[k].job
               PROVE  i = k
    BY DEF Distinct
  <2>1. i + 1 = k + 1
    BY <1>3 DEF Distinct
  <2> QED
    BY <1>2, <2>1
<1>6. ASSUME NEW i \in 1 .. Len(batch')
      PROVE  InBatch(batch'[i].job) /\ batch'[i].job # Current
  <2>1. batch'[i].job = batch[i + 1].job /\ i + 1 \in 1 .. Len(batch) /\ i + 1 # 1
    BY <1>2, <1>3
  <2> QED
    BY <1>4, <2>1 DEF InBatch, Distinct
<1> QED
  BY <1>2, <1>5, <1>6 DEF InBatch

\* A tick ages the copies.
LEMMA AgedBatch ==
  ASSUME TypeOK, Tick
  PROVE  /\ batch' \in Seq(Items)
         /\ Len(batch') = Len(batch)
         /\ \A i \in 1 .. Len(batch) :
              batch'[i].job = batch[i].job /\ batch'[i].age = Older(batch[i].age)
<1>1. batch \in Seq(Items) /\ batch' = [i \in 1 .. Len(batch) |-> [batch[i] EXCEPT !.age = Older(@)]]
  BY DEF TypeOK, Tick
<1>2. \A i \in 1 .. Len(batch) : batch[i] \in Items
  BY <1>1
<1>3. \A n \in 0 .. MaxAge : Older(n) \in 0 .. MaxAge
  BY ConstantsAssumption DEF Older, MaxAge
<1>4. \A i \in 1 .. Len(batch) : /\ batch'[i] \in Items /\ batch'[i].job = batch[i].job
                                 /\ batch'[i].age = Older(batch[i].age)
  BY <1>1, <1>2, <1>3 DEF Items
<1>5. batch' \in [1 .. Len(batch) -> Items] /\ Len(batch) \in Nat
  BY <1>1, <1>4
<1> QED
  BY <1>4, <1>5

\* The first of the batch is a delivery, and in the batch.
LEMMA CurrentInBatch ==
  ASSUME TypeOK, batch # <<>>
  PROVE  Current \in Jobs /\ Head(batch) \in Items /\ InBatch(Current)
<1>1. Head(batch) = batch[1] /\ 1 \in 1 .. Len(batch) /\ Head(batch) \in Items
  BY DEF TypeOK
<1> QED
  BY <1>1 DEF Current, Items, InBatch

\* A tick leaves the dispatcher where it is.
LEMMA AgedCurrent ==
  ASSUME TypeOK, Tick
  PROVE  IF batch = <<>> THEN batch' = <<>> ELSE batch' # <<>> /\ Current' = Current
<1>1. batch \in Seq(Items) /\ batch' \in Seq(Items) /\ Len(batch') = Len(batch)
  BY AgedBatch DEF TypeOK
<1>2. CASE batch = <<>>
  BY <1>1, <1>2
<1>3. CASE batch # <<>>
  <2>1. 1 \in 1 .. Len(batch) /\ Head(batch) = batch[1]
    BY <1>1, <1>3
  <2>2. batch' # <<>> /\ Head(batch') = batch'[1]
    BY <1>1, <2>1
  <2> QED
    BY <1>3, <2>1, <2>2, AgedBatch DEF Current
<1> QED
  BY <1>2, <1>3

\* What is left of an EnqueueEvent are deliveries to be made.
FanOfJobs == \A e \in Events : \A p \in fan[e].left : <<e, p>> \in Jobs

\* A tick brings a delivery nearer, or it is overdue.
LEMMA LaterBound ==
  ASSUME TypeOK, NEW w \in Int
  PROVE  Later(w) \in Int /\ (Later(w) < w \/ Later(w) <= 0)
<1> DEFINE D == {k \in Jobs : status[k] = "pending" /\ w <= wait[k] /\ wait[k] <= 0}
           W == {wait[k] : k \in D}
           f == [k \in D |-> wait[k]]
<1>1. IsFiniteSet(D)
  BY DueIsFinite
<1>2. f \in Surjection(D, W)
  BY DEF Surjection
<1> HIDE DEF f, W, D
<1>3. IsFiniteSet(W) /\ Cardinality(W) \in Nat
  BY <1>1, <1>2, FS_Surjection, FS_CardinalityType
<1> USE DEF W, D
<1>4. Later(w) = IF w > 0 THEN w - 1 ELSE -Cardinality(W)
  BY DEF Later
<1> HIDE DEF W, D
<1> QED
  BY <1>3, <1>4

-----------------------------------------------------------------------------
LEMMA InitTypeOK == Init => TypeOK
<1> SUFFICES ASSUME Init PROVE TypeOK
  OBVIOUS
<1>1. batch \in Seq(Items)
  BY DEF Init
<1>2. MaxAge \in Nat
  BY ConstantsAssumption DEF MaxAge
<1> QED
  BY <1>1, <1>2, ConstantsAssumption DEF Init, TypeOK

\* Every variable keeps its type.
LEMMA TypeOKInductive ==
  ASSUME TypeOK, Distinct, FanOfJobs, [Next]_vars
  PROVE  TypeOK'
<1>1. MaxAge \in Nat /\ \A n \in 0 .. MaxAge : Older(n) \in 0 .. MaxAge
  BY ConstantsAssumption DEF Older, MaxAge
<1>2. \A j \in Jobs : /\ j = <<j[1], j[2]>>
                      /\ j[1] \in Events /\ j[2] \in Endpoints
  BY ConstantsAssumption DEF Jobs
<1>3. ASSUME NEW J, Drop(J)
      PROVE  /\ status' \in [Jobs -> {"none", "pending", "delivered"}]
             /\ attempt' \in [Jobs -> 0 .. LastAttempt]
             /\ wait' \in [Jobs -> Int]
             /\ age' \in [Jobs -> 0 .. MaxAge]
  <2>1. 0 \in 0 .. LastAttempt /\ 0 \in 0 .. MaxAge
    BY <1>1, ConstantsAssumption
  <2>2. status' \in [Jobs -> {"none", "pending", "delivered"}]
    BY <1>3 DEF Drop, TypeOK
  <2>3. attempt' \in [Jobs -> 0 .. LastAttempt]
    BY <1>3, <2>1 DEF Drop, TypeOK
  <2>4. wait' \in [Jobs -> Int]
    BY <1>3 DEF Drop, TypeOK
  <2>5. age' \in [Jobs -> 0 .. MaxAge]
    BY <1>3, <2>1 DEF Drop, TypeOK
  <2> QED
    BY <2>2, <2>3, <2>4, <2>5
<1>4. ASSUME NEW j \in Jobs
      PROVE  CountAttempt(j) \in [Jobs -> 0 .. LastAttempt]
  BY ConstantsAssumption DEF CountAttempt, TypeOK
<1>5. ASSUME NEW p \in Endpoints, CreateEndpoint(p) \/ DeleteEndpoint(p) PROVE TypeOK'
  <2>1. CASE CreateEndpoint(p)
    BY <2>1 DEF CreateEndpoint, TypeOK, table, history
  <2>2. CASE DeleteEndpoint(p)
    <3>1. fan' \in [Events -> [all : SUBSET Endpoints, left : SUBSET Endpoints, calm : BOOLEAN]]
      BY <2>2 DEF DeleteEndpoint, TypeOK
    <3> QED
      BY <1>3, <2>2, <3>1 DEF DeleteEndpoint, TypeOK, history
  <2> QED
    BY <1>5, <2>1, <2>2
<1>6. ASSUME NEW e \in Events, SelectEndpoints(e) \/ InsertFails(e) PROVE TypeOK'
  <2>1. CASE SelectEndpoints(e)
    <3>1. fan' \in [Events -> [all : SUBSET Endpoints, left : SUBSET Endpoints, calm : BOOLEAN]]
      BY <2>1 DEF SelectEndpoints, TypeOK
    <3>2. announced' \in [Events -> 0 .. MaxAnnounce]
      BY <2>1, ConstantsAssumption DEF SelectEndpoints, TypeOK
    <3> QED
      BY <2>1, <3>1, <3>2 DEF SelectEndpoints, TypeOK, table, history
  <2>2. CASE InsertFails(e)
    <3>1. fan' \in [Events -> [all : SUBSET Endpoints, left : SUBSET Endpoints, calm : BOOLEAN]]
      BY <2>2 DEF InsertFails, TypeOK
    <3> QED
      BY <2>2, <3>1 DEF InsertFails, TypeOK, table, history
  <2> QED
    BY <1>6, <2>1, <2>2
<1>7. ASSUME NEW e \in Events, NEW p \in Endpoints, InsertDelivery(e, p) PROVE TypeOK'
  <2>0. <<e, p>> \in Jobs
    BY <1>7 DEF InsertDelivery, FanOfJobs
  <2>1. fan' \in [Events -> [all : SUBSET Endpoints, left : SUBSET Endpoints, calm : BOOLEAN]]
    BY <1>7 DEF InsertDelivery, TypeOK
  <2>2. /\ status' \in [Jobs -> {"none", "pending", "delivered"}]
        /\ made' \subseteq Jobs /\ renewed' \subseteq Jobs
    BY <1>7, <2>0 DEF InsertDelivery, TypeOK
  <2> QED
    BY <1>7, <2>1, <2>2 DEF InsertDelivery, TypeOK
<1>8. CASE DueWebhooks
  BY <1>8, FetchedBatch DEF DueWebhooks, TypeOK, table, history
<1>9. CASE GetWebhookEndpoint
  <2>1. batch' \in Seq(Items) /\ stage' \in {"lookup", "post"}
    BY <1>9, NextBatch DEF GetWebhookEndpoint, At, NextItem, TypeOK
  <2>2. faults' \in 0 .. MaxFaults
    <3>1. faults \in 0 .. MaxFaults /\ faults \in Int /\ MaxFaults \in Int
      BY ConstantsAssumption DEF TypeOK
    <3>2. faults' = faults \/ (faults < MaxFaults /\ faults' = faults + 1)
      BY <1>9 DEF GetWebhookEndpoint, Fault
    <3> QED
      BY <3>1, <3>2
  <2> QED
    BY <1>9, <2>1, <2>2 DEF GetWebhookEndpoint, TypeOK, table, history
<1>10. CASE Post
  <2>1. Current \in Jobs
    BY <1>10, CurrentInBatch DEF Post, At
  <2> QED
    BY <1>10, <2>1 DEF Post, TypeOK, table
<1>11. ASSUME NEW lost \in BOOLEAN, Complete(lost) \/ Fail(lost) PROVE TypeOK'
  <2>1. Current \in Jobs /\ Head(batch) \in Items
    BY <1>11, CurrentInBatch DEF Complete, Fail, At
  <2>2. batch' \in Seq(Items) /\ stage' = "lookup"
    BY <1>11, NextBatch DEF Complete, Fail, At, NextItem
  <2>3. faults' \in 0 .. MaxFaults
    BY <1>11, ConstantsAssumption DEF Complete, Fail, Fault, TypeOK
  <2>4. NextWait(Head(batch)) \in Int
    BY <2>1, ConstantsAssumption DEF NextWait, Items
  <2>5. CountAttempt(Current) \in [Jobs -> 0 .. LastAttempt]
    BY <1>4, <2>1
  <2>6. CASE Complete(lost)
    BY <2>1, <2>2, <2>3, <2>5, <2>6 DEF Complete, TypeOK, table
  <2>7. CASE Fail(lost)
    BY <2>1, <2>2, <2>3, <2>4, <2>5, <2>7 DEF Fail, TypeOK, table, history
  <2> QED
    BY <1>11, <2>6, <2>7
<1>12. CASE Cleanup
  BY <1>3, <1>12 DEF Cleanup, TypeOK, history
<1>13. CASE Crash
  <2>1. fan' \in [Events -> [all : SUBSET Endpoints, left : SUBSET Endpoints, calm : BOOLEAN]]
    BY <1>13 DEF Crash, TypeOK
  <2>2. unsure' \subseteq Jobs
    BY <1>13, CurrentInBatch DEF Crash, At, TypeOK
  <2>3. batch' = <<>> /\ faults < MaxFaults /\ faults' = faults + 1
    BY <1>13, Zenon DEF Crash
  <2>4. batch' \in Seq(Items)
    BY <2>3
  <2>5. faults' \in 0 .. MaxFaults
    BY <2>3, ConstantsAssumption DEF TypeOK
  <2> QED
    BY <1>13, <2>1, <2>2, <2>4, <2>5 DEF Crash, TypeOK, table
<1>14. CASE Tick
  <2>1. wait' \in [Jobs -> Int]
    <3>1. \A j \in Jobs : Later(wait[j]) \in Int
      BY LaterBound DEF TypeOK
    <3> QED
      BY <1>14, <3>1 DEF Tick
  <2>2. age' \in [Jobs -> 0 .. MaxAge]
    BY <1>1, <1>14 DEF Tick, TypeOK
  <2> QED
    BY <1>14, <2>1, <2>2, AgedBatch DEF Tick, TypeOK, history
<1>15. CASE UNCHANGED vars
  BY <1>15 DEF vars, TypeOK
<1>16. Insert => TypeOK'
  BY <1>7 DEF Insert
<1>17. Dispatch => TypeOK'
  BY <1>8, <1>9, <1>10, <1>11 DEF Dispatch
<1> QED
  BY <1>5, <1>6, <1>12, <1>13, <1>14, <1>15, <1>16, <1>17 DEF Next

-----------------------------------------------------------------------------
(***************************************************************************)
(* What a step does to the batch, to a row and to the histories.           *)
(***************************************************************************)

\* The actions that leave the batch, the stage and what was taken alone.
Others ==
  \/ \E p \in Endpoints : CreateEndpoint(p) \/ DeleteEndpoint(p)
  \/ \E e \in Events : SelectEndpoints(e) \/ InsertFails(e)
  \/ Insert
  \/ Cleanup
  \/ UNCHANGED vars

LEMMA OthersFrame ==
  ASSUME Others
  PROVE  UNCHANGED <<batch, stage, taken, again, unsure>>
<1>1. ASSUME NEW p \in Endpoints, CreateEndpoint(p) \/ DeleteEndpoint(p)
      PROVE  UNCHANGED <<batch, stage, taken, again, unsure>>
  BY <1>1 DEF CreateEndpoint, DeleteEndpoint, history
<1>2. ASSUME NEW e \in Events, SelectEndpoints(e) \/ InsertFails(e)
      PROVE  UNCHANGED <<batch, stage, taken, again, unsure>>
  BY <1>2 DEF SelectEndpoints, InsertFails, history
<1>3. ASSUME Insert PROVE UNCHANGED <<batch, stage, taken, again, unsure>>
  BY <1>3 DEF Insert, InsertDelivery
<1>4. ASSUME Cleanup PROVE UNCHANGED <<batch, stage, taken, again, unsure>>
  BY <1>4 DEF Cleanup, history
<1>5. ASSUME UNCHANGED vars PROVE UNCHANGED <<batch, stage, taken, again, unsure>>
  BY <1>5 DEF vars
<1> QED
  BY <1>1, <1>2, <1>3, <1>4, <1>5 DEF Others

\* A step of the dispatcher, a death, a tick, or one that concerns none of them.
LEMMA Steps ==
  ASSUME [Next]_vars
  PROVE  \/ Others \/ DueWebhooks \/ GetWebhookEndpoint \/ Post \/ Crash \/ Tick
         \/ \E lost \in BOOLEAN : Complete(lost) \/ Fail(lost)
BY DEF Next, Others, Dispatch

\* A delivery comes into the batch only when it is pending.
LEMMA BatchStep ==
  ASSUME TypeOK, Distinct, [Next]_vars
  PROVE  Distinct' /\ \A j \in Jobs : InBatch(j)' => InBatch(j) \/ status[j] = "pending"
<1> DEFINE Goal == Distinct' /\ \A j \in Jobs : InBatch(j)' => InBatch(j) \/ status[j] = "pending"
<1>1. ASSUME batch' = batch PROVE Goal
  BY <1>1 DEF Distinct, InBatch
<1>2. ASSUME batch # <<>>, NextItem PROVE Goal
  BY <1>2, NextBatch
<1>3. CASE Others
  BY <1>1, <1>3, OthersFrame
<1>4. CASE DueWebhooks
  BY <1>4, FetchedBatch DEF InBatch
<1>5. CASE GetWebhookEndpoint
  BY <1>1, <1>2, <1>5 DEF GetWebhookEndpoint, At
<1>6. CASE Post
  BY <1>1, <1>6 DEF Post
<1>7. ASSUME NEW lost \in BOOLEAN, Complete(lost) \/ Fail(lost) PROVE Goal
  BY <1>2, <1>7 DEF Complete, Fail, At
<1>8. CASE Crash
  <2>1. batch' = <<>> /\ Len(batch') = 0
    BY <1>8 DEF Crash
  <2> QED
    BY <2>1 DEF Distinct, InBatch
<1>9. CASE Tick
  BY <1>9, AgedBatch DEF Distinct, InBatch
<1> QED
  BY <1>3, <1>4, <1>5, <1>6, <1>7, <1>8, <1>9, Steps

\* How the row of a delivery changes: not at all, it is deleted, it is made, or the
\* dispatcher writes down that it is delivered and has it no longer in hand.
RowStep(j) ==
  \/ status'[j] = status[j]
  \/ status'[j] = "none"
  \/ /\ status[j] = "none" /\ status'[j] = "pending"
     /\ j \in made' /\ (j \in made => j \in renewed')
  \/ /\ At("complete") /\ j = Current /\ ~InBatch(j)'
     /\ status[j] # "none" /\ status'[j] = "delivered"

LEMMA StatusStep ==
  ASSUME TypeOK, Distinct, FanOfJobs, [Next]_vars, NEW j \in Jobs
  PROVE  RowStep(j)
<1>1. ASSUME NEW J, Drop(J) PROVE RowStep(j)
  BY <1>1 DEF Drop, RowStep
<1>2. ASSUME NEW p \in Endpoints, CreateEndpoint(p) \/ DeleteEndpoint(p) PROVE RowStep(j)
  BY <1>1, <1>2 DEF CreateEndpoint, DeleteEndpoint, table, RowStep
<1>3. ASSUME NEW e \in Events, SelectEndpoints(e) \/ InsertFails(e) PROVE RowStep(j)
  BY <1>3 DEF SelectEndpoints, InsertFails, table, RowStep
<1>4. ASSUME NEW e \in Events, NEW p \in Endpoints, InsertDelivery(e, p) PROVE RowStep(j)
  <2>1. <<e, p>> \in Jobs
    BY <1>4 DEF InsertDelivery, FanOfJobs
  <2>2. CASE status[<<e, p>>] = "none" /\ endpoint[p] = "live"
    <3>1. /\ status' = [status EXCEPT ![<<e, p>>] = "pending"]
          /\ made' = made \cup {<<e, p>>}
          /\ <<e, p>> \in made => renewed' = renewed \cup {<<e, p>>}
      BY <1>4, <2>2, Zenon DEF InsertDelivery
    <3> QED
      BY <2>1, <2>2, <3>1 DEF TypeOK, RowStep
  <2>3. CASE ~(status[<<e, p>>] = "none" /\ endpoint[p] = "live")
    <3>1. status' = status
      BY <1>4, <2>3, Zenon DEF InsertDelivery
    <3> QED
      BY <3>1 DEF RowStep
  <2> QED
    BY <2>2, <2>3
<1>5. ASSUME NEW lost \in BOOLEAN, Complete(lost) PROVE RowStep(j)
  <2>1. Current \in Jobs /\ At("complete") /\ (InBatch(j)' => j # Current)
    BY <1>5, CurrentInBatch, NextBatch DEF Complete, At
  <2>2. \/ status' = status
        \/ status[Current] # "none" /\ status' = [status EXCEPT ![Current] = "delivered"]
    BY <1>5 DEF Complete, table
  <2> QED
    BY <2>1, <2>2 DEF TypeOK, RowStep
<1>6. ASSUME NEW lost \in BOOLEAN, Fail(lost) PROVE RowStep(j)
  BY <1>6 DEF Fail, table, RowStep
<1>7. CASE DueWebhooks \/ GetWebhookEndpoint \/ Post
  BY <1>7 DEF DueWebhooks, GetWebhookEndpoint, Post, table, RowStep
<1>8. CASE Cleanup
  BY <1>1, <1>8 DEF Cleanup
<1>9. CASE Crash
  BY <1>9 DEF Crash, table, RowStep
<1>10. CASE Tick
  BY <1>10 DEF Tick, RowStep
<1>11. CASE UNCHANGED vars
  BY <1>11 DEF vars, RowStep
<1>12. Insert => RowStep(j)
  BY <1>4 DEF Insert
<1>13. Dispatch => RowStep(j)
  BY <1>5, <1>6, <1>7 DEF Dispatch
<1> QED
  BY <1>2, <1>3, <1>8, <1>9, <1>10, <1>11, <1>12, <1>13 DEF Next

\* The histories of the table only grow.
LEMMA MadeStep ==
  ASSUME [Next]_vars
  PROVE  made \subseteq made' /\ renewed \subseteq renewed'
<1> DEFINE Goal == made \subseteq made' /\ renewed \subseteq renewed'
<1>1. ASSUME NEW p \in Endpoints, CreateEndpoint(p) \/ DeleteEndpoint(p) PROVE Goal
  BY <1>1 DEF CreateEndpoint, DeleteEndpoint, history
<1>2. ASSUME NEW e \in Events, SelectEndpoints(e) \/ InsertFails(e) PROVE Goal
  BY <1>2 DEF SelectEndpoints, InsertFails, history
<1>3. ASSUME NEW e \in Events, NEW p \in Endpoints, InsertDelivery(e, p) PROVE Goal
  BY <1>3 DEF InsertDelivery
<1>4. ASSUME NEW lost \in BOOLEAN, Complete(lost) \/ Fail(lost) PROVE Goal
  BY <1>4 DEF Complete, Fail, history
<1>5. CASE DueWebhooks \/ GetWebhookEndpoint \/ Post
  BY <1>5 DEF DueWebhooks, GetWebhookEndpoint, Post, history
<1>6. CASE Cleanup \/ Crash \/ Tick
  BY <1>6 DEF Cleanup, Crash, Tick, history
<1>7. CASE UNCHANGED vars
  BY <1>7 DEF vars
<1>8. Insert => Goal
  BY <1>3 DEF Insert
<1>9. Dispatch => Goal
  BY <1>4, <1>5 DEF Dispatch
<1> QED
  BY <1>1, <1>2, <1>6, <1>7, <1>8, <1>9 DEF Next
-----------------------------------------------------------------------------
(***************************************************************************)
(* The invariant.                                                          *)
(***************************************************************************)

\* What is in hand was made and is not delivered.
HandOK == \A j \in Jobs : InBatch(j) => j \in made /\ status[j] # "delivered"

\* What the table says is so, and nothing is posted that was never made.
RowsOK ==
  /\ \A j \in Jobs : status[j] # "none" => j \in made
  /\ DeliveredIsTaken
  /\ taken \subseteq made

Explained(j) == j \in unsure \cup renewed

\* A delivery that was taken is one of which the database may not know, or was made
\* again; or its answer has just come in; or it is not pending, and not in hand.
TakenOK ==
  /\ At("complete") => Current \in taken
  /\ \A j \in taken :
       \/ Explained(j)
       \/ At("complete") /\ j = Current
       \/ status[j] # "pending" /\ ~InBatch(j)

DispatchInv == TypeOK /\ Distinct /\ FanOfJobs /\ HandOK /\ RowsOK /\ TakenOK /\ DuplicateIsExplained

LEMMA FanOfJobsInductive ==
  ASSUME TypeOK, FanOfJobs, [Next]_vars
  PROVE  FanOfJobs'
<1>1. ASSUME fan' = fan PROVE FanOfJobs'
  BY <1>1 DEF FanOfJobs
<1>2. ASSUME NEW p \in Endpoints, CreateEndpoint(p) PROVE FanOfJobs'
  BY <1>1, <1>2 DEF CreateEndpoint
<1>3. ASSUME NEW p \in Endpoints, DeleteEndpoint(p) PROVE FanOfJobs'
  <2>1. \A e \in Events : fan'[e].left = fan[e].left
    BY <1>3 DEF DeleteEndpoint, TypeOK
  <2> QED
    BY <2>1 DEF FanOfJobs
<1>4. ASSUME NEW e \in Events, SelectEndpoints(e) PROVE FanOfJobs'
  <2>1. \A f \in Events : \A p \in fan'[f].left : p \in fan[f].left \/ <<f, p>> \in Wants
    BY <1>4 DEF SelectEndpoints, TypeOK
  <2> QED
    BY <2>1 DEF FanOfJobs, Jobs
<1>5. ASSUME NEW e \in Events, InsertFails(e) PROVE FanOfJobs'
  <2>1. \A f \in Events : fan'[f].left \subseteq fan[f].left
    BY <1>5 DEF InsertFails, TypeOK
  <2> QED
    BY <2>1 DEF FanOfJobs
<1>6. ASSUME NEW e \in Events, NEW p \in Endpoints, InsertDelivery(e, p) PROVE FanOfJobs'
  <2>1. \A f \in Events : fan'[f].left \subseteq fan[f].left
    BY <1>6 DEF InsertDelivery, TypeOK
  <2> QED
    BY <2>1 DEF FanOfJobs
<1>7. CASE Crash
  <2>1. \A f \in Events : fan'[f].left \subseteq fan[f].left
    BY <1>7 DEF Crash, TypeOK
  <2> QED
    BY <2>1 DEF FanOfJobs
<1>8. CASE Cleanup \/ Tick \/ UNCHANGED vars
  BY <1>1, <1>8 DEF Cleanup, Tick, vars
<1>9. ASSUME Dispatch PROVE FanOfJobs'
  BY <1>1, <1>9 DEF Dispatch, DueWebhooks, GetWebhookEndpoint, Post, Complete, Fail
<1> QED
  BY <1>2, <1>3, <1>4, <1>5, <1>6, <1>7, <1>8, <1>9 DEF Next, Insert

\* The histories of the endpoint: only a post adds to them, and what is taken with
\* no answer that counts is unsure.
LEMMA PostStep ==
  ASSUME TypeOK, [Next]_vars
  PROVE  /\ taken \subseteq taken' /\ unsure \subseteq unsure'
         /\ \A j \in taken' \ taken : \/ j \in unsure'
                                      \/ At("complete")' /\ j = Current'
         /\ \A j \in taken' \ taken : j = Current /\ batch # <<>>
         /\ \A j \in again' \ again : j = Current /\ At("post") /\ j \in taken
         /\ At("complete")' => \/ At("complete") /\ Current' = Current
                               \/ Current' \in taken'
<1> DEFINE Goal ==
      /\ taken \subseteq taken' /\ unsure \subseteq unsure'
      /\ \A j \in taken' \ taken : \/ j \in unsure'
                                   \/ At("complete")' /\ j = Current'
      /\ \A j \in taken' \ taken : j = Current /\ batch # <<>>
      /\ \A j \in again' \ again : j = Current /\ At("post") /\ j \in taken
      /\ At("complete")' => \/ At("complete") /\ Current' = Current
                            \/ Current' \in taken'
<1>1. ASSUME UNCHANGED <<taken, again>>, unsure \subseteq unsure',
             stage' # "complete" \/ UNCHANGED <<batch, stage>>
      PROVE  Goal
  BY <1>1 DEF At, Current
<1>2. CASE Others
  BY <1>1, <1>2, OthersFrame
<1>3. CASE DueWebhooks
  BY <1>1, <1>3 DEF DueWebhooks, history
<1>4. CASE GetWebhookEndpoint
  BY <1>1, <1>4 DEF GetWebhookEndpoint, NextItem, history
<1>5. CASE Post
  <2>1. PICK processed \in BOOLEAN, ok \in BOOLEAN :
          /\ ok => processed
          /\ stage' = IF ok THEN "complete" ELSE "fail"
          /\ taken' = IF processed THEN taken \cup {Current} ELSE taken
          /\ again' = IF processed /\ Current \in taken THEN again \cup {Current} ELSE again
          /\ unsure' = IF processed /\ ~ok THEN unsure \cup {Current} ELSE unsure
    BY <1>5 DEF Post
  <2>2. At("post") /\ batch' = batch /\ batch # <<>> /\ Current' = Current
    BY <1>5 DEF Post, At, Current
  <2> QED
    BY <2>1, <2>2 DEF At
<1>6. ASSUME NEW lost \in BOOLEAN, Complete(lost) PROVE Goal
  BY <1>1, <1>6 DEF Complete, NextItem
<1>7. ASSUME NEW lost \in BOOLEAN, Fail(lost) PROVE Goal
  BY <1>1, <1>7 DEF Fail, NextItem, history
<1>8. CASE Crash
  <2>1. UNCHANGED <<taken, again>> /\ unsure \subseteq unsure' /\ stage' = "lookup"
    BY <1>8, Zenon DEF Crash
  <2> QED
    BY <1>1, <2>1
<1>9. CASE Tick
  <2>1. UNCHANGED <<stage, taken, again, unsure>>
    BY <1>9, Zenon DEF Tick, history
  <2> QED
    BY <1>9, <2>1, AgedCurrent DEF At
<1> QED
  BY <1>2, <1>3, <1>4, <1>5, <1>6, <1>7, <1>8, <1>9, Steps

\* When the answer is dealt with it is written down, or the delivery is unsure.
LEMMA CompleteStep ==
  ASSUME TypeOK, Distinct, [Next]_vars, At("complete"), NEW j \in Jobs, j = Current
  PROVE  \/ j \in unsure'
         \/ At("complete")' /\ j = Current'
         \/ status'[j] # "pending" /\ ~InBatch(j)'
<1> DEFINE Goal == \/ j \in unsure'
                   \/ At("complete")' /\ j = Current'
                   \/ status'[j] # "pending" /\ ~InBatch(j)'
<1>1. ASSUME UNCHANGED <<batch, stage>> PROVE Goal
  BY <1>1 DEF At, Current
<1>2. CASE Others
  BY <1>1, <1>2, OthersFrame
<1>3. CASE DueWebhooks \/ GetWebhookEndpoint \/ Post
  BY <1>3 DEF DueWebhooks, GetWebhookEndpoint, Post, At
<1>4. ASSUME NEW lost \in BOOLEAN, Complete(lost) PROVE Goal
  <2>1. InBatch(j)' => j # Current
    BY <1>4, NextBatch DEF Complete, At
  <2>2. lost => j \in unsure'
    BY <1>4 DEF Complete
  <2>3. ~lost => status'[j] # "pending"
    BY <1>4 DEF Complete, table, TypeOK
  <2> QED
    BY <2>1, <2>2, <2>3
<1>5. ASSUME NEW lost \in BOOLEAN, Fail(lost) PROVE Goal
  BY <1>5 DEF Fail, At
<1>6. CASE Crash
  BY <1>6, Zenon DEF Crash
<1>7. CASE Tick
  <2>1. Current' = Current /\ batch' # <<>>
    BY <1>7, AgedCurrent DEF At
  <2>2. stage' = stage
    BY <1>7, Zenon DEF Tick
  <2> QED
    BY <2>1, <2>2 DEF At
<1> QED
  BY <1>2, <1>3, <1>4, <1>5, <1>6, <1>7, Steps

LEMMA DispatchInductive ==
  ASSUME DispatchInv, [Next]_vars
  PROVE  DispatchInv'
<1> USE DEF DispatchInv
<1>1. TypeOK'
  BY TypeOKInductive
<1>2. Distinct' /\ FanOfJobs'
  BY BatchStep, FanOfJobsInductive
<1>3. made \subseteq made' /\ renewed \subseteq renewed' /\ unsure \subseteq unsure' /\ taken \subseteq taken'
  BY MadeStep, PostStep
<1>4. HandOK'
  <2> SUFFICES ASSUME NEW j \in Jobs, InBatch(j)'
               PROVE  j \in made' /\ status'[j] # "delivered"
    BY DEF HandOK
  <2>1. j \in made /\ status[j] # "delivered"
    BY BatchStep DEF HandOK, RowsOK
  <2> QED
    BY <1>3, <2>1, StatusStep DEF RowStep
<1>5. RowsOK'
  <2>1. ASSUME NEW j \in Jobs, status'[j] # "none" PROVE j \in made'
    <3>1. CASE status[j] # "none"
      BY <1>3, <3>1 DEF RowsOK
    <3>2. CASE status[j] = "none"
      <4>1. At("complete") /\ j = Current => InBatch(j)
        BY CurrentInBatch DEF At
      <4> QED
        BY <1>3, <2>1, <3>2, <4>1, StatusStep DEF RowStep, HandOK
    <3> QED
      BY <3>1, <3>2
  <2>2. DeliveredIsTaken'
    <3> SUFFICES ASSUME NEW j \in Jobs, status'[j] = "delivered" PROVE j \in taken'
      BY DEF DeliveredIsTaken
    <3>1. status[j] = "delivered" \/ (At("complete") /\ j = Current)
      BY StatusStep DEF RowStep
    <3> QED
      BY <1>3, <3>1 DEF RowsOK, DeliveredIsTaken, TakenOK
  <2>3. taken' \subseteq made'
    <3> SUFFICES ASSUME NEW j \in taken' \ taken PROVE j \in made'
      BY <1>3 DEF RowsOK
    <3>1. j \in Jobs /\ InBatch(j)
      BY PostStep, CurrentInBatch
    <3> QED
      BY <1>3, <3>1 DEF HandOK
  <2> QED
    BY <2>1, <2>2, <2>3 DEF RowsOK
<1>6. TakenOK'
  <2>1. At("complete")' => Current' \in taken'
    BY <1>3, PostStep DEF TakenOK
  <2>2. ASSUME NEW j \in taken'
        PROVE  \/ Explained(j)'
               \/ At("complete")' /\ j = Current'
               \/ status'[j] # "pending" /\ ~InBatch(j)'
    <3>1. j \in Jobs
      BY <1>1 DEF TypeOK
    <3>2. CASE j \notin taken
      BY <3>2, PostStep DEF Explained
    <3>3. CASE Explained(j)
      BY <1>3, <3>3 DEF Explained
    <3>4. CASE At("complete") /\ j = Current
      BY <3>1, <3>4, CompleteStep DEF Explained
    <3>5. CASE j \in taken /\ status[j] # "pending" /\ ~InBatch(j)
      <4>1. ~InBatch(j)' /\ j \in made
        BY <3>1, <3>5, BatchStep DEF RowsOK
      <4> QED
        BY <3>1, <3>5, <4>1, StatusStep DEF RowStep, Explained
    <3> QED
      BY <3>2, <3>3, <3>4, <3>5 DEF TakenOK
  <2> QED
    BY <2>1, <2>2 DEF TakenOK
<1>7. DuplicateIsExplained'
  <2> SUFFICES ASSUME NEW j \in again' \ again PROVE Explained(j)
    BY <1>3 DEF DuplicateIsExplained, Explained
  <2>1. j = Current /\ At("post") /\ j \in taken
    BY PostStep
  <2>2. InBatch(j) /\ ~At("complete")
    BY <2>1, CurrentInBatch DEF At
  <2> QED
    BY <2>1, <2>2 DEF TakenOK
<1> QED
  BY <1>1, <1>2, <1>4, <1>5, <1>6, <1>7
-----------------------------------------------------------------------------
(***************************************************************************)
(* EnqueueEvent.                                                           *)
(***************************************************************************)

\* While nothing has disturbed it: the endpoints left to do are there, and the others
\* of the list have, or had, a delivery.
FanOK ==
  \A e \in Events : fan[e].calm =>
    /\ \A p \in fan[e].left : endpoint[p] = "live"
    /\ \A p \in fan[e].all \ fan[e].left : <<e, p>> \in made

LEMMA FanInductive ==
  ASSUME TypeOK, RowsOK, FanOfJobs, FanOK, [Next]_vars
  PROVE  FanOK'
<1>0. made \subseteq made'
  BY MadeStep
<1>1. ASSUME UNCHANGED <<fan, endpoint>> PROVE FanOK'
  BY <1>0, <1>1 DEF FanOK
<1>2. ASSUME NEW p \in Endpoints, CreateEndpoint(p) PROVE FanOK'
  BY <1>0, <1>2 DEF CreateEndpoint, FanOK, TypeOK
<1>3. ASSUME NEW p \in Endpoints, DeleteEndpoint(p) PROVE FanOK'
  <2>1. \A e \in Events : fan'[e].calm => fan'[e] = fan[e] /\ p \notin fan[e].left
    BY <1>3 DEF DeleteEndpoint, TypeOK
  <2>2. \A q \in Endpoints \ {p} : endpoint'[q] = endpoint[q]
    BY <1>3 DEF DeleteEndpoint, TypeOK
  <2>3. \A e \in Events : fan[e].left \subseteq Endpoints
    BY DEF TypeOK
  <2> QED
    BY <1>0, <2>1, <2>2, <2>3 DEF FanOK
<1>4. ASSUME NEW e \in Events, SelectEndpoints(e) PROVE FanOK'
  <2>1. /\ endpoint' = endpoint
        /\ \A f \in Events \ {e} : fan'[f] = fan[f]
        /\ fan'[e].left = fan'[e].all
        /\ \A p \in fan'[e].left : endpoint[p] = "live"
    BY <1>4 DEF SelectEndpoints, TypeOK
  <2> QED
    BY <1>0, <2>1 DEF FanOK
<1>5. ASSUME NEW e \in Events, InsertFails(e) PROVE FanOK'
  <2>1. /\ endpoint' = endpoint
        /\ \A f \in Events \ {e} : fan'[f] = fan[f]
        /\ fan'[e].calm = FALSE
    BY <1>5 DEF InsertFails, TypeOK
  <2> QED
    BY <1>0, <2>1 DEF FanOK
<1>6. ASSUME NEW e \in Events, NEW p \in Endpoints, InsertDelivery(e, p) PROVE FanOK'
  <2>1. /\ endpoint' = endpoint /\ p \in fan[e].left
        /\ \A f \in Events \ {e} : fan'[f] = fan[f]
        /\ fan'[e].calm = fan[e].calm /\ fan'[e].all = fan[e].all
        /\ ~InsertAborts(e, p) => fan'[e].left = fan[e].left \ {p}
    BY <1>6 DEF InsertDelivery, TypeOK
  <2>2. fan[e].calm => endpoint[p] = "live"
    BY <2>1 DEF FanOK
  <2>3. fan[e].calm => <<e, p>> \in made'
    <3>1. status[<<e, p>>] = "none" /\ endpoint[p] = "live" => <<e, p>> \in made'
      BY <1>6, Zenon DEF InsertDelivery
    <3> QED
      BY <1>0, <2>1, <2>2, <3>1 DEF RowsOK, FanOfJobs
  <2>4. fan[e].calm => fan'[e].left = fan[e].left \ {p}
    BY <2>1, <2>2 DEF InsertAborts
  <2> QED
    BY <1>0, <2>1, <2>3, <2>4 DEF FanOK
<1>7. CASE Crash
  <2>1. /\ endpoint' = endpoint
        /\ \A f \in Events : fan'[f].calm => fan'[f] = fan[f]
    BY <1>7 DEF Crash, TypeOK
  <2> QED
    BY <1>0, <2>1 DEF FanOK
<1>8. CASE Cleanup \/ Tick \/ UNCHANGED vars
  BY <1>1, <1>8 DEF Cleanup, Tick, vars
<1>9. ASSUME Dispatch PROVE FanOK'
  BY <1>1, <1>9 DEF Dispatch, DueWebhooks, GetWebhookEndpoint, Post, Complete, Fail
<1> QED
  BY <1>2, <1>3, <1>4, <1>5, <1>6, <1>7, <1>8, <1>9 DEF Next, Insert

-----------------------------------------------------------------------------
(***************************************************************************)
(* Giving up.                                                              *)
(***************************************************************************)

\* A copy is as old as its delivery, unless that was deleted, or made again.
AsOld(item) == \/ status[item.job] = "none"
               \/ item.job \in renewed
               \/ item.age = age[item.job]

AgesOK == \A i \in 1 .. Len(batch) : AsOld(batch[i])

\* A delivery ages with time alone.
LEMMA AgeStep ==
  ASSUME [Next]_vars, ~Tick, NEW j \in Jobs
  PROVE  age'[j] = age[j] \/ status'[j] = "none"
<1> DEFINE Goal == age'[j] = age[j] \/ status'[j] = "none"
<1>1. ASSUME NEW J, Drop(J) PROVE Goal
  BY <1>1 DEF Drop
<1>2. ASSUME NEW p \in Endpoints, CreateEndpoint(p) \/ DeleteEndpoint(p) PROVE Goal
  BY <1>1, <1>2 DEF CreateEndpoint, DeleteEndpoint, table
<1>3. ASSUME NEW e \in Events, SelectEndpoints(e) \/ InsertFails(e) PROVE Goal
  BY <1>3 DEF SelectEndpoints, InsertFails, table
<1>4. ASSUME Insert PROVE Goal
  BY <1>4 DEF Insert, InsertDelivery
<1>5. ASSUME Dispatch PROVE Goal
  BY <1>5 DEF Dispatch, DueWebhooks, GetWebhookEndpoint, Post, Complete, Fail, table
<1>6. CASE Cleanup
  BY <1>1, <1>6 DEF Cleanup
<1>7. CASE Crash
  BY <1>7, Zenon DEF Crash, table
<1>8. CASE UNCHANGED vars
  BY <1>8 DEF vars
<1> QED
  BY <1>2, <1>3, <1>4, <1>5, <1>6, <1>7, <1>8 DEF Next

\* The copies in hand are old ones, or those that DueWebhooks has just made.
LEMMA ItemStep ==
  ASSUME TypeOK, [Next]_vars, ~Tick, NEW i \in 1 .. Len(batch')
  PROVE  \/ \E k \in 1 .. Len(batch) : batch'[i] = batch[k]
         \/ DueWebhooks /\ \E j \in Due : batch'[i] = Item(j)
<1> DEFINE Goal == \/ \E k \in 1 .. Len(batch) : batch'[i] = batch[k]
                   \/ DueWebhooks /\ \E j \in Due : batch'[i] = Item(j)
<1>1. ASSUME batch' = batch PROVE Goal
  BY <1>1
<1>2. ASSUME batch # <<>>, NextItem PROVE Goal
  <2>1. batch' = Tail(batch) /\ batch \in Seq(Items) /\ Len(batch') = Len(batch) - 1
    BY <1>2 DEF NextItem, TypeOK
  <2>2. batch'[i] = batch[i + 1] /\ i + 1 \in 1 .. Len(batch)
    BY <2>1
  <2> QED
    BY <2>2
<1>3. CASE Others
  BY <1>1, <1>3, OthersFrame
<1>4. CASE DueWebhooks
  <2>1. PICK b \in Batches(Due) : batch' = [k \in 1 .. Len(b) |-> Item(b[k])]
    BY <1>4 DEF DueWebhooks
  <2>2. PICK n \in Nat : b \in [1 .. n -> Due]
    BY <2>1, BatchSize DEF Due
  <2>3. Len(b) = n /\ Len(batch') = n
    BY <2>1, <2>2
  <2> QED
    BY <1>4, <2>1, <2>2, <2>3
<1>5. CASE GetWebhookEndpoint
  BY <1>1, <1>2, <1>5 DEF GetWebhookEndpoint, At
<1>6. CASE Post
  BY <1>1, <1>6 DEF Post
<1>7. ASSUME NEW lost \in BOOLEAN, Complete(lost) \/ Fail(lost) PROVE Goal
  BY <1>2, <1>7 DEF Complete, Fail, At
<1>8. CASE Crash
  <2>1. batch' = <<>>
    BY <1>8, Zenon DEF Crash
  <2> QED
    BY <2>1
<1> QED
  BY <1>3, <1>4, <1>5, <1>6, <1>7, <1>8, Steps

LEMMA AgesInductive ==
  ASSUME TypeOK, Distinct, FanOfJobs, HandOK, AgesOK, [Next]_vars
  PROVE  AgesOK'
<1>1. CASE Tick
  <2> SUFFICES ASSUME NEW i \in 1 .. Len(batch) PROVE AsOld(batch[i])'
    BY <1>1, AgedBatch DEF AgesOK
  <2>1. batch[i] \in Items /\ batch[i].job \in Jobs
    <3>1. batch[i] \in Items
      BY DEF TypeOK
    <3> QED
      BY <3>1 DEF Items
  <2>2. batch'[i].job = batch[i].job /\ batch'[i].age = Older(batch[i].age)
    BY <1>1, AgedBatch
  <2>3. /\ status' = status /\ renewed' = renewed
        /\ status[batch[i].job] # "none" => age'[batch[i].job] = Older(age[batch[i].job])
    BY <1>1, <2>1 DEF Tick, history
  <2> QED
    BY <2>2, <2>3 DEF AgesOK, AsOld
<1>2. CASE ~Tick
  <2> SUFFICES ASSUME NEW i \in 1 .. Len(batch') PROVE AsOld(batch[i])'
    BY DEF AgesOK
  <2>1. ASSUME NEW k \in 1 .. Len(batch), batch'[i] = batch[k], NEW j, j = batch[k].job
        PROVE  AsOld(batch[i])'
    <3>1. j \in Jobs /\ InBatch(j)
      <4>1. batch[k] \in Items
        BY DEF TypeOK
      <4> QED
        BY <2>1, <4>1 DEF Items, InBatch
    <3>2. RowStep(j) /\ (age'[j] = age[j] \/ status'[j] = "none")
      BY <1>2, <3>1, StatusStep, AgeStep
    <3>3. j \in made /\ AsOld(batch[k]) /\ renewed \subseteq renewed'
      BY <3>1, MadeStep DEF HandOK, AgesOK
    <3>4. CASE status'[j] = "none" \/ j \in renewed'
      BY <2>1, <3>4 DEF AsOld
    <3>5. CASE ~(status'[j] = "none" \/ j \in renewed')
      <4>1. batch[k].age = age[j]
        BY <2>1, <3>2, <3>3, <3>5 DEF RowStep, AsOld
      <4> QED
        BY <2>1, <3>2, <3>5, <4>1 DEF AsOld
    <3> QED
      BY <3>4, <3>5
  <2>2. ASSUME DueWebhooks, NEW j \in Due, batch'[i] = Item(j) PROVE AsOld(batch[i])'
    <3>1. age' = age
      BY <2>2 DEF DueWebhooks, table
    <3>2. batch'[i].job = j /\ batch'[i].age = age[j]
      BY <2>2 DEF Item
    <3> QED
      BY <3>1, <3>2 DEF AsOld
  <2> QED
    BY <1>2, <2>1, <2>2, ItemStep
<1> QED
  BY <1>1, <1>2

\* A delivery comes to be put off for a year by the dispatcher's giving it up alone.
LEMMA GivenUp ==
  ASSUME TypeOK, AgesOK, [Next]_vars, NEW j \in Jobs, wait[j] < Park, wait'[j] = Park
  PROVE  age[j] >= Window \/ j \in renewed
<1> DEFINE Goal == age[j] >= Window \/ j \in renewed
<1>1. 0 < Park /\ Park \in Nat
  BY ConstantsAssumption
<1>2. wait[j] \in Int
  BY DEF TypeOK
<1>3. ASSUME wait' = wait PROVE Goal
  BY <1>2, <1>3
<1>4. ASSUME NEW J, Drop(J) PROVE Goal
  BY <1>1, <1>2, <1>4 DEF Drop
<1>5. ASSUME NEW p \in Endpoints, CreateEndpoint(p) \/ DeleteEndpoint(p) PROVE Goal
  BY <1>3, <1>4, <1>5 DEF CreateEndpoint, DeleteEndpoint, table
<1>6. ASSUME NEW e \in Events, SelectEndpoints(e) \/ InsertFails(e) PROVE Goal
  BY <1>3, <1>6 DEF SelectEndpoints, InsertFails, table
<1>7. ASSUME Insert PROVE Goal
  BY <1>3, <1>7 DEF Insert, InsertDelivery
<1>8. ASSUME NEW lost \in BOOLEAN, Fail(lost) PROVE Goal
  <2>1. CASE lost \/ status[Current] = "none"
    BY <1>3, <1>8, <2>1 DEF Fail, table
  <2>2. CASE ~(lost \/ status[Current] = "none")
    <3>1. wait' = [wait EXCEPT ![Current] = NextWait(Head(batch))] /\ At("fail")
      BY <1>8, <2>2 DEF Fail
    <3>2. Head(batch) \in Items /\ Current \in Jobs
      BY <3>1, CurrentInBatch DEF At
    <3>3. j = Current /\ NextWait(Head(batch)) = Park
      BY <1>1, <1>2, <3>1, <3>2 DEF TypeOK
    <3>4. Head(batch).age >= Window
      BY <3>2, <3>3, ConstantsAssumption DEF NextWait, Items
    <3>5. AsOld(Head(batch))
      <4>1. Head(batch) = batch[1] /\ 1 \in 1 .. Len(batch)
        BY <3>1 DEF At, TypeOK
      <4> QED
        BY <4>1 DEF AgesOK
    <3> QED
      BY <2>2, <3>3, <3>4, <3>5 DEF AsOld, Current
  <2> QED
    BY <2>1, <2>2
<1>9. ASSUME NEW lost \in BOOLEAN, Complete(lost) PROVE Goal
  BY <1>3, <1>9 DEF Complete, table
<1>10. CASE DueWebhooks \/ GetWebhookEndpoint \/ Post
  BY <1>3, <1>10 DEF DueWebhooks, GetWebhookEndpoint, Post, table
<1>11. CASE Cleanup
  BY <1>4, <1>11 DEF Cleanup
<1>12. CASE Crash
  <2>1. wait' = wait
    BY <1>12, Zenon DEF Crash, table
  <2> QED
    BY <1>3, <2>1
<1>13. CASE Tick
  <2>1. Later(wait[j]) < Park
    BY <1>1, <1>2, LaterBound
  <2> QED
    BY <1>1, <1>13, <2>1 DEF Tick
<1>14. CASE UNCHANGED vars
  BY <1>3, <1>14 DEF vars
<1>15. Dispatch => Goal
  BY <1>8, <1>9, <1>10 DEF Dispatch
<1> QED
  BY <1>5, <1>6, <1>7, <1>11, <1>12, <1>13, <1>14, <1>15 DEF Next

-----------------------------------------------------------------------------
WebhooksInv == DispatchInv /\ FanOK /\ AgesOK

LEMMA InitInv == Init => WebhooksInv
<1> SUFFICES ASSUME Init PROVE WebhooksInv
  OBVIOUS
<1>1. batch = <<>> /\ Len(batch) = 0
  BY DEF Init
<1>2. Distinct /\ HandOK /\ AgesOK /\ ~At("complete")
  BY <1>1 DEF Distinct, HandOK, AgesOK, InBatch, At
<1>3. FanOfJobs /\ FanOK
  BY DEF Init, FanOfJobs, FanOK
<1>4. RowsOK /\ DuplicateIsExplained
  BY DEF Init, RowsOK, DeliveredIsTaken, DuplicateIsExplained
<1>5. TakenOK
  BY <1>2 DEF Init, TakenOK
<1> QED
  BY <1>2, <1>3, <1>4, <1>5, InitTypeOK DEF WebhooksInv, DispatchInv

\* Every reachable state satisfies the invariant.
THEOREM Invariant == Spec => []WebhooksInv
<1>1. WebhooksInv /\ [Next]_vars => WebhooksInv'
  BY DispatchInductive, FanInductive, AgesInductive DEF WebhooksInv, DispatchInv
<1> QED
  BY <1>1, InitInv, PTL DEF Spec

\* Every variable keeps to its type, the batch to copies of deliveries, and what is
\* counted to the bounds of the schedule.
THEOREM TypeCorrect == Spec => []TypeOK
<1>1. WebhooksInv => TypeOK
  BY DEF WebhooksInv, DispatchInv
<1> QED
  BY <1>1, Invariant, PTL

\* CompleteWebhook(delivered) is called only of what the endpoint has processed, of
\* whatever age the dispatcher's copy is.
THEOREM DeliveredIsTakenCorrect == Spec => []DeliveredIsTaken
<1>1. WebhooksInv => DeliveredIsTaken
  BY DEF WebhooksInv, DispatchInv, RowsOK
<1> QED
  BY <1>1, Invariant, PTL

\* At-least-once, and no more than that without a reason: an event is processed
\* twice only after an ambiguous failure, or when its delivery was made again.
THEOREM DuplicateIsExplainedCorrect == Spec => []DuplicateIsExplained
<1>1. WebhooksInv => DuplicateIsExplained
  BY DEF WebhooksInv, DispatchInv
<1> QED
  BY <1>1, Invariant, PTL

\* The copies in a batch are never of a delivery already delivered: the dispatcher
\* is alone, and no batch names a delivery twice.
THEOREM NothingDeliveredInHandCorrect == Spec => []NothingDeliveredInHand
<1>1. WebhooksInv => NothingDeliveredInHand
  <2> SUFFICES ASSUME WebhooksInv, NEW i \in 1 .. Len(batch) PROVE status[batch[i].job] # "delivered"
    BY DEF NothingDeliveredInHand
  <2>1. batch[i] \in Items
    BY DEF WebhooksInv, DispatchInv, TypeOK
  <2> QED
    BY <2>1 DEF WebhooksInv, DispatchInv, HandOK, InBatch, Items
<1> QED
  BY <1>1, Invariant, PTL

\* An EnqueueEvent that nothing disturbed leaves no endpoint out, whatever earlier
\* ones of the event left behind.
THEOREM FanoutCompleteCorrect == Spec => []FanoutComplete
<1>1. WebhooksInv => FanoutComplete
  BY DEF WebhooksInv, FanOK, FanoutComplete
<1> QED
  BY <1>1, Invariant, PTL

\* A delivery is given up only after the window, or by the age of a copy of one that
\* was made again since.
THEOREM GivenUpAfterWindowCorrect == Spec => GivenUpAfterWindow
<1>1. WebhooksInv /\ [Next]_vars
        => [\A j \in Jobs : wait[j] < Park /\ wait'[j] = Park => age[j] >= Window \/ j \in renewed]_vars
  BY GivenUp DEF WebhooksInv, DispatchInv
<1> QED
  BY <1>1, Invariant, PTL DEF Spec, GivenUpAfterWindow

-----------------------------------------------------------------------------
(***************************************************************************)
(* The promise of Notices, step by step.                                   *)
(***************************************************************************)
LEMMA TableKept ==
  ASSUME UNCHANGED <<status, taken, again, unsure, made, renewed>>
  PROVE  UNCHANGED Promise!all
BY DEF Promise!all, Pending, Delivered, InDoubt

\* Whoever deletes rows withdraws their notices.
LEMMA DropMapped ==
  ASSUME NEW J, J \subseteq Jobs, Drop(J), UNCHANGED <<taken, again, unsure, made, renewed>>
  PROVE  Promise!Next
<1>1. \A j \in Jobs : status'[j] = IF j \in J THEN "none" ELSE status[j]
  BY DEF Drop
<1>2. Pending' = Pending \ J /\ Delivered' = Delivered \ J
  BY <1>1 DEF Pending, Delivered
<1>3. Promise!Withdraw(J)
  BY <1>2 DEF Promise!Withdraw, InDoubt
<1> QED
  BY <1>3 DEF Promise!Next

\* EnqueueEvent writes a notice down when there is no row of it.
LEMMA InsertMapped ==
  ASSUME TypeOK, FanOfJobs, NEW e \in Events, NEW p \in Endpoints, InsertDelivery(e, p)
  PROVE  Promise!Next \/ UNCHANGED Promise!all
<1> DEFINE j == <<e, p>>
<1>1. j \in Jobs
  BY DEF InsertDelivery, FanOfJobs
<1>2. UNCHANGED <<taken, again, unsure>>
  BY DEF InsertDelivery
<1>3. CASE status[j] = "none" /\ endpoint[p] = "live"
  <2>1. /\ status' = [status EXCEPT ![j] = "pending"]
        /\ made' = made \cup {j}
        /\ renewed' = IF j \in made THEN renewed \cup {j} ELSE renewed
    BY <1>3, Zenon DEF InsertDelivery
  <2> HIDE DEF j
  <2>2. \A k \in Jobs : status'[k] = IF k = j THEN "pending" ELSE status[k]
    BY <2>1 DEF TypeOK
  <2>3. j \notin Pending \cup Delivered
    BY <1>3 DEF Pending, Delivered
  <2>4. Pending' = Pending \cup {j} /\ Delivered' = Delivered
    BY <1>1, <1>3, <2>2 DEF Pending, Delivered
  <2>5. InDoubt' = IF j \in made THEN InDoubt \cup {j} ELSE InDoubt
    BY <1>2, <2>1 DEF InDoubt
  <2>6. Promise!Owe(j)
    BY <1>2, <2>1, <2>3, <2>4, <2>5 DEF Promise!Owe
  <2> QED
    BY <1>1, <2>6 DEF Promise!Next
<1>4. CASE ~(status[j] = "none" /\ endpoint[p] = "live")
  <2>1. UNCHANGED <<status, made, renewed>>
    BY <1>4, Zenon DEF InsertDelivery
  <2> QED
    BY <1>2, <2>1, TableKept
<1> QED
  BY <1>3, <1>4

\* What is posted was made, is not delivered, and if it was taken it is in doubt.
LEMMA PostMapped ==
  ASSUME DispatchInv, Post
  PROVE  Promise!Next \/ UNCHANGED Promise!all
<1> USE DEF DispatchInv
<1>1. PICK processed \in BOOLEAN, ok \in BOOLEAN :
        /\ taken' = IF processed THEN taken \cup {Current} ELSE taken
        /\ again' = IF processed /\ Current \in taken THEN again \cup {Current} ELSE again
        /\ unsure' = IF processed /\ ~ok THEN unsure \cup {Current} ELSE unsure
  BY DEF Post
<1>2. At("post") /\ UNCHANGED <<status, made, renewed>>
  BY DEF Post, table
<1>3. Current \in Jobs /\ InBatch(Current)
  BY <1>2, CurrentInBatch DEF At
<1>4. Current \in made \ Delivered
  BY <1>3 DEF HandOK, Delivered
<1>5. Current \in taken => Current \in InDoubt
  BY <1>2, <1>3 DEF TakenOK, Explained, InDoubt, At
<1>6. UNCHANGED <<Pending, Delivered>>
  BY <1>2 DEF Pending, Delivered
<1>7. CASE processed
  <2>1. InDoubt' \in {InDoubt, InDoubt \cup {Current}}
    BY <1>1, <1>2, <1>7 DEF InDoubt
  <2>2. Promise!Process(Current)
    BY <1>1, <1>2, <1>4, <1>5, <1>6, <1>7, <2>1 DEF Promise!Process
  <2> QED
    BY <1>3, <2>2 DEF Promise!Next
<1>8. CASE ~processed
  BY <1>1, <1>2, <1>8, TableKept
<1> QED
  BY <1>7, <1>8

\* What is written down as delivered is still owed and has been processed.
LEMMA CompleteMapped ==
  ASSUME DispatchInv, NEW lost \in BOOLEAN, Complete(lost)
  PROVE  Promise!Next \/ UNCHANGED Promise!all
<1> USE DEF DispatchInv
<1>1. At("complete") /\ UNCHANGED <<taken, again, made, renewed>>
  BY DEF Complete
<1>2. Current \in Jobs /\ InBatch(Current) /\ Current \in taken
  BY <1>1, CurrentInBatch DEF At, TakenOK
<1>3. CASE lost
  <2>1. status' = status /\ unsure' = unsure \cup {Current}
    BY <1>3 DEF Complete, table
  <2>2. UNCHANGED <<Pending, Delivered>> /\ InDoubt' = InDoubt \cup {Current}
    BY <1>1, <2>1 DEF Pending, Delivered, InDoubt
  <2>3. Promise!Doubt(Current)
    BY <1>1, <1>2, <2>2 DEF Promise!Doubt
  <2> QED
    BY <1>2, <2>3 DEF Promise!Next
<1>4. CASE ~lost /\ status[Current] = "none"
  <2>1. status' = status /\ unsure' = unsure
    BY <1>4 DEF Complete, table
  <2> QED
    BY <1>1, <2>1, TableKept
<1>5. CASE ~lost /\ status[Current] # "none"
  <2>1. status' = [status EXCEPT ![Current] = "delivered"] /\ unsure' = unsure
    BY <1>5 DEF Complete
  <2>2. status[Current] = "pending"
    BY <1>2, <1>5 DEF HandOK, TypeOK
  <2>3. \A j \in Jobs : status'[j] = IF j = Current THEN "delivered" ELSE status[j]
    BY <2>1 DEF TypeOK
  <2>4. Current \in Pending /\ Pending' = Pending \ {Current} /\ Delivered' = Delivered \cup {Current}
    BY <1>2, <2>2, <2>3 DEF Pending, Delivered
  <2>5. Promise!Settle(Current)
    BY <1>1, <1>2, <2>1, <2>4 DEF Promise!Settle, InDoubt
  <2> QED
    BY <1>2, <2>5 DEF Promise!Next
<1> QED
  BY <1>3, <1>4, <1>5

\* A death between the answer and its writing leaves a doubt, and nothing else.
LEMMA CrashMapped ==
  ASSUME DispatchInv, Crash
  PROVE  Promise!Next \/ UNCHANGED Promise!all
<1> USE DEF DispatchInv
<1>1. UNCHANGED <<status, taken, again, made, renewed>>
  BY Zenon DEF Crash, table
<1>2. unsure' = IF At("complete") THEN unsure \cup {Current} ELSE unsure
  BY Zenon DEF Crash
<1>3. CASE At("complete")
  <2>1. Current \in Jobs /\ Current \in taken
    BY <1>3, CurrentInBatch DEF At, TakenOK
  <2>2. UNCHANGED <<Pending, Delivered>> /\ InDoubt' = InDoubt \cup {Current}
    BY <1>1, <1>2, <1>3 DEF Pending, Delivered, InDoubt
  <2>3. Promise!Doubt(Current)
    BY <1>1, <2>1, <2>2 DEF Promise!Doubt
  <2> QED
    BY <2>1, <2>3 DEF Promise!Next
<1>4. CASE ~At("complete")
  BY <1>1, <1>2, <1>4, TableKept
<1> QED
  BY <1>3, <1>4

(***************************************************************************)
(* EnqueueEvent, the dispatcher, the cleanup, deletions and deaths keep    *)
(* the promise of Notices: every step is one it allows, or changes nothing *)
(* it speaks of; for any events, endpoints, batches and delays.            *)
(***************************************************************************)
THEOREM NoticesKept == Spec => NoticesArePromised
<1>1. Init => Promise!Init
  BY DEF Init, Promise!Init, Pending, Delivered, InDoubt
<1>2. DispatchInv /\ [Next]_vars => [Promise!Next]_(Promise!all)
  <2> SUFFICES ASSUME DispatchInv, [Next]_vars
               PROVE  Promise!Next \/ UNCHANGED Promise!all
    OBVIOUS
  <2> DEFINE Goal == Promise!Next \/ UNCHANGED Promise!all
  <2>1. ASSUME NEW p \in Endpoints, CreateEndpoint(p) PROVE Goal
    BY <2>1, TableKept DEF CreateEndpoint, table, history
  <2>2. ASSUME NEW p \in Endpoints, DeleteEndpoint(p) PROVE Goal
    BY <2>2, DropMapped DEF DeleteEndpoint, history
  <2>3. ASSUME NEW e \in Events, SelectEndpoints(e) \/ InsertFails(e) PROVE Goal
    BY <2>3, TableKept DEF SelectEndpoints, InsertFails, table, history
  <2>4. CASE Insert
    BY <2>4, InsertMapped DEF Insert, DispatchInv
  <2>5. CASE Dispatch
    <3>1. CASE DueWebhooks \/ GetWebhookEndpoint
      BY <3>1, TableKept DEF DueWebhooks, GetWebhookEndpoint, table, history
    <3>2. ASSUME NEW lost \in BOOLEAN, Fail(lost) PROVE Goal
      BY <3>2, TableKept DEF Fail, table, history
    <3> QED
      BY <2>5, <3>1, <3>2, PostMapped, CompleteMapped DEF Dispatch
  <2>6. CASE Cleanup
    BY <2>6, DropMapped DEF Cleanup, history
  <2>7. CASE Crash
    BY <2>7, CrashMapped
  <2>8. CASE Tick
    <3>1. UNCHANGED <<status, taken, again, unsure, made, renewed>>
      BY <2>8, Zenon DEF Tick, history
    <3> QED
      BY <3>1, TableKept
  <2>9. CASE UNCHANGED vars
    BY <2>9, TableKept DEF vars
  <2> QED
    BY <2>1, <2>2, <2>3, <2>4, <2>5, <2>6, <2>7, <2>8, <2>9 DEF Next
<1>3. WebhooksInv => DispatchInv
  BY DEF WebhooksInv
<1> QED
  BY <1>1, <1>2, <1>3, Invariant, PTL DEF Spec, NoticesArePromised, Promise!Spec

(***************************************************************************)
(* What the promise is worth: whoever keeps it writes down as delivered    *)
(* only what was processed, and has nothing processed twice without doubt. *)
(* The argument is about Notices alone.                                    *)
(***************************************************************************)
THEOREM PromiseMeansInDoubt == NoticesArePromised => []Promise!AgainOnlyInDoubt
<1> USE DEF Promise!AgainOnlyInDoubt
<1>1. Promise!Init => Promise!AgainOnlyInDoubt
  BY DEF Promise!Init
<1>2. Promise!AgainOnlyInDoubt /\ [Promise!Next]_(Promise!all) => Promise!AgainOnlyInDoubt'
  BY DEF Promise!Next, Promise!all, Promise!Owe, Promise!Process, Promise!Settle,
         Promise!Doubt, Promise!Withdraw
<1> QED
  BY <1>1, <1>2, PTL DEF NoticesArePromised, Promise!Spec
=============================================================================
