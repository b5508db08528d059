------------------------------ MODULE Webhooks ------------------------------
(***************************************************************************)
(* The outgoing webhooks: EnqueueEvent, which makes a delivery of an event *)
(* for every endpoint that wants it; the dispatcher, the one goroutine     *)
(* that posts the deliveries that are due and writes down what came of it; *)
(* and the deletion of endpoints, the retention cleanup, the passing of    *)
(* time and a process that dies in the middle of any of it.                *)
(*                                                                         *)
(* A delivery's id is its event's and its endpoint's (store.go:466), so a  *)
(* delivery is a pair.  Times are kept relative to the present, in ticks:  *)
(* how long until next_attempt_at, how long since created_at.              *)
(***************************************************************************)
EXTENDS Integers, Sequences, FiniteSets

CONSTANTS
  Events,       \* events of the mail server, by id
  Endpoints,    \* webhook endpoints, by id
  Wants,        \* the pairs of an event and an endpoint subscribed to its type
  Limit,        \* deliveries in a batch: 25
  Delay,        \* Delay[n]: until the next attempt, after n earlier ones
  LastAttempt,  \* from here on the delay is the longest: one hour
  Window,       \* age from which a failure is final: 24 hours
  Park,         \* delay after a final failure: 365 days
  Retention,    \* age from which the cleanup deletes a delivery
  MaxAnnounce,  \* bound on how often an event is announced
  MaxFaults     \* bound on the process's deaths and the dispatcher's failed statements

ASSUME ConstantsAssumption ==
  /\ Wants \subseteq Events \X Endpoints
  /\ IsFiniteSet(Wants)
  /\ Limit \in Nat \ {0} /\ LastAttempt \in Nat
  /\ Window \in Nat /\ Retention \in Nat /\ Park \in Nat
  /\ MaxAnnounce \in Nat /\ MaxFaults \in Nat
  /\ Delay \in [0 .. LastAttempt -> Nat \ {0}]
  /\ \A n \in 0 .. LastAttempt : Delay[n] < Park

VARIABLES
  endpoint,   \* "unborn", "live" or "deleted"
  status,     \* deliveries: "none", "pending" or "delivered" (delivered_at)
  attempt,    \* their attempt, up to LastAttempt
  wait,       \* their next_attempt_at, from now
  age,        \* their created_at, to now, up to MaxAge
  fan,        \* the EnqueueEvent of each event
  batch,      \* what is left of the dispatcher's batch: its own copies
  stage,      \* where dispatch is with the first of the batch
  announced,  \* how often each event was announced
  faults,     \* how often the process died or a statement of the dispatcher failed
  taken,      \* history: deliveries the endpoint has processed
  again,      \* history: those it has processed twice
  unsure,     \* history: those whose processing the database may not know of
  made,       \* history: deliveries that were created
  renewed     \* history: those created again after they were deleted

vars == <<endpoint, status, attempt, wait, age, fan, batch, stage, announced, faults, taken,
          again, unsure, made, renewed>>

Jobs   == Wants
MaxAge == IF Window > Retention THEN Window ELSE Retention + 1

Items == [job : Jobs, attempt : 0 .. LastAttempt, age : 0 .. MaxAge]

TypeOK ==
  /\ endpoint \in [Endpoints -> {"unborn", "live", "deleted"}]
  /\ status \in [Jobs -> {"none", "pending", "delivered"}]
  /\ attempt \in [Jobs -> 0 .. LastAttempt]
  /\ wait \in [Jobs -> Int]
  /\ age \in [Jobs -> 0 .. MaxAge]
  /\ fan \in [Events -> [all : SUBSET Endpoints, left : SUBSET Endpoints, calm : BOOLEAN]]
  /\ batch \in Seq(Items)
  /\ stage \in {"lookup", "post", "complete", "fail"}
  /\ announced \in [Events -> 0 .. MaxAnnounce]
  /\ faults \in 0 .. MaxFaults
  /\ taken \subseteq Jobs
  /\ again \subseteq Jobs
  /\ unsure \subseteq Jobs
  /\ made \subseteq Jobs
  /\ renewed \subseteq Jobs

Init ==
  /\ endpoint \in [Endpoints -> {"unborn", "live"}]
  /\ status = [j \in Jobs |-> "none"]
  /\ attempt = [j \in Jobs |-> 0]
  /\ wait = [j \in Jobs |-> 0]
  /\ age = [j \in Jobs |-> 0]
  /\ fan = [e \in Events |-> [all |-> {}, left |-> {}, calm |-> TRUE]]
  /\ batch = <<>>
  /\ stage = "lookup"
  /\ announced = [e \in Events |-> 0]
  /\ faults = 0
  /\ taken = {}
  /\ again = {}
  /\ unsure = {}
  /\ made = {}
  /\ renewed = {}

history == <<taken, again, unsure, made, renewed>>
table   == <<status, attempt, wait, age>>

-----------------------------------------------------------------------------
CreateEndpoint(p) ==
  /\ endpoint[p] = "unborn"
  /\ endpoint' = [endpoint EXCEPT ![p] = "live"]
  /\ UNCHANGED <<table, fan, batch, stage, announced, faults, history>>

\* The rows of deliveries J are deleted.
Drop(J) ==
  /\ status' = [j \in Jobs |-> IF j \in J THEN "none" ELSE status[j]]
  /\ attempt' = [j \in Jobs |-> IF j \in J THEN 0 ELSE attempt[j]]
  /\ wait' = [j \in Jobs |-> IF j \in J THEN 0 ELSE wait[j]]
  /\ age' = [j \in Jobs |-> IF j \in J THEN 0 ELSE age[j]]

\* The endpoint is deleted, and its deliveries with it (ON DELETE CASCADE).
DeleteEndpoint(p) ==
  /\ endpoint[p] = "live"
  /\ endpoint' = [endpoint EXCEPT ![p] = "deleted"]
  /\ Drop({j \in Jobs : j[2] = p})
  /\ fan' = [e \in Events |-> IF p \in fan[e].left THEN [fan[e] EXCEPT !.calm = FALSE] ELSE fan[e]]
  /\ UNCHANGED <<batch, stage, announced, faults, history>>

-----------------------------------------------------------------------------
(***************************************************************************)
(* EnqueueEvent: a SELECT of the endpoints, then one INSERT for each, with *)
(* the statements of others between them.  The mail server may repeat a    *)
(* telemetry request, and the event keeps its id.                          *)
(***************************************************************************)
SelectEndpoints(e) ==
  LET P == {p \in Endpoints : endpoint[p] = "live" /\ <<e, p>> \in Wants}
  IN  /\ announced[e] < MaxAnnounce
      /\ fan[e].left = {}
      /\ fan' = [fan EXCEPT ![e] = [all |-> P, left |-> P, calm |-> TRUE]]
      /\ announced' = [announced EXCEPT ![e] = @ + 1]
      /\ UNCHANGED <<endpoint, table, batch, stage, faults, history>>

\* Mistaken: a plain INSERT, which a row of the same id makes fail.
InsertAbortsOnDuplicate(e, p) == status[<<e, p>>] # "none" \/ endpoint[p] # "live"

\* A missing endpoint violates the foreign key, which OR IGNORE does not cover,
\* and the loop returns without having tried the rest.
InsertAborts(e, p) == status[<<e, p>>] = "none" /\ endpoint[p] # "live"

\* INSERT OR IGNORE: a row of the delivery's id is left as it is.
InsertDelivery(e, p) ==
  LET j == <<e, p>>
  IN  /\ p \in fan[e].left
      /\ IF status[j] = "none" /\ endpoint[p] = "live"
         THEN /\ status' = [status EXCEPT ![j] = "pending"]
              /\ made' = made \cup {j}
              /\ renewed' = IF j \in made THEN renewed \cup {j} ELSE renewed
         ELSE UNCHANGED <<status, made, renewed>>
      /\ fan' = [fan EXCEPT ![e].left = IF InsertAborts(e, p) THEN {} ELSE @ \ {p}]
      /\ UNCHANGED <<endpoint, attempt, wait, age, batch, stage, announced, faults, taken,
                     again, unsure>>

\* A statement of the loop fails: its client is gone, or the database says so.
InsertFails(e) ==
  /\ fan[e].left # {}
  /\ fan' = [fan EXCEPT ![e].left = {}, ![e].calm = FALSE]
  /\ UNCHANGED <<endpoint, table, batch, stage, announced, faults, history>>

-----------------------------------------------------------------------------
(***************************************************************************)
(* The dispatcher.                                                         *)
(***************************************************************************)
\* Mistaken: whether a delivery is delivered does not matter.
DueOrDelivered == {j \in Jobs : status[j] # "none" /\ wait[j] <= 0}

Due == {j \in Jobs : status[j] = "pending" /\ wait[j] <= 0}

Item(j) == [job |-> j, attempt |-> attempt[j], age |-> age[j]]

\* Mistaken: no ORDER BY.
UnorderedBatches(D) ==
  LET n == IF Cardinality(D) < Limit THEN Cardinality(D) ELSE Limit
  IN  {b \in [1 .. n -> D] : \A i, k \in 1 .. n : i < k => b[i] # b[k]}

\* The batches DueWebhooks can return of the deliveries D: the Limit earliest, in
\* the order of next_attempt_at. Deliveries due at the same time come in any order.
Batches(D) ==
  LET n == IF Cardinality(D) < Limit THEN Cardinality(D) ELSE Limit
  IN  {b \in [1 .. n -> D] :
         /\ \A i, k \in 1 .. n : i < k => b[i] # b[k] /\ wait[b[i]] <= wait[b[k]]
         /\ \A j \in D : (\E i \in 1 .. n : b[i] = j) \/ wait[b[n]] <= wait[j]}

DueWebhooks ==
  /\ batch = <<>>
  /\ Due # {}
  /\ \E b \in Batches(Due) : batch' = [i \in 1 .. Len(b) |-> Item(b[i])]
  /\ stage' = "lookup"
  /\ UNCHANGED <<endpoint, table, fan, announced, faults, history>>

At(s)     == batch # <<>> /\ stage = s
Current   == Head(batch).job
NextItem  == batch' = Tail(batch) /\ stage' = "lookup"

\* An error of a statement of the dispatcher, which is ignored.
Fault(lost) ==
  /\ lost => faults < MaxFaults
  /\ faults' = IF lost THEN faults + 1 ELSE faults

\* GetWebhookEndpoint: without its endpoint, or with an error, the delivery is
\* passed over.
GetWebhookEndpoint ==
  /\ At("lookup")
  /\ \E lost \in BOOLEAN :
       /\ Fault(lost)
       /\ IF ~lost /\ endpoint[Current[2]] = "live" THEN stage' = "post" /\ UNCHANGED batch
          ELSE NextItem
  /\ UNCHANGED <<endpoint, table, fan, announced, history>>

\* Mistaken: an answer is a success, whatever its status code.
PostAnyAnswer ==
  /\ At("post")
  /\ \E processed \in BOOLEAN, ok \in BOOLEAN :
       /\ stage' = IF ok THEN "complete" ELSE "fail"
       /\ taken' = IF processed THEN taken \cup {Current} ELSE taken
       /\ again' = IF processed /\ Current \in taken THEN again \cup {Current} ELSE again
       /\ unsure' = IF processed /\ ~ok THEN unsure \cup {Current} ELSE unsure
  /\ UNCHANGED <<endpoint, table, fan, batch, announced, faults, made, renewed>>

\* The URL is validated and the request made. The endpoint may have processed it
\* although the answer, or the end of the 10 seconds, is an error.
Post ==
  /\ At("post")
  /\ \E processed \in BOOLEAN, ok \in BOOLEAN :
       /\ ok => processed
       /\ stage' = IF ok THEN "complete" ELSE "fail"
       /\ taken' = IF processed THEN taken \cup {Current} ELSE taken
       /\ again' = IF processed /\ Current \in taken THEN again \cup {Current} ELSE again
       /\ unsure' = IF processed /\ ~ok THEN unsure \cup {Current} ELSE unsure
  /\ UNCHANGED <<endpoint, table, fan, batch, announced, faults, made, renewed>>

\* Mistaken: the delay is not bounded.
CountEveryAttempt(j) == [attempt EXCEPT ![j] = @ + 1]

CountAttempt(j) == [attempt EXCEPT ![j] = IF @ < LastAttempt THEN @ + 1 ELSE @]

\* CompleteWebhook(delivered): an UPDATE of a row that may be gone.
Complete(lost) ==
  /\ At("complete")
  /\ Fault(lost)
  /\ IF lost \/ status[Current] = "none" THEN UNCHANGED table
     ELSE /\ status' = [status EXCEPT ![Current] = "delivered"]
          /\ attempt' = CountAttempt(Current)
          /\ UNCHANGED <<wait, age>>
  /\ unsure' = IF lost THEN unsure \cup {Current} ELSE unsure
  /\ NextItem
  /\ UNCHANGED <<endpoint, fan, announced, taken, again, made, renewed>>

\* Mistaken: a delivery is given up once its delay cannot grow.
GiveUpAfterAttempts(item) == IF item.attempt >= LastAttempt THEN Park ELSE Delay[item.attempt]

\* Mistaken: a delivery is never given up.
NeverGiveUp(item) == Delay[item.attempt]

\* The next attempt comes after a delay that grows with the attempts of the copy,
\* or after a year once the copy is older than the window.
NextWait(item) == IF item.age >= Window THEN Park ELSE Delay[item.attempt]

\* fail.
Fail(lost) ==
  /\ At("fail")
  /\ Fault(lost)
  /\ IF lost \/ status[Current] = "none" THEN UNCHANGED table
     ELSE /\ wait' = [wait EXCEPT ![Current] = NextWait(Head(batch))]
          /\ attempt' = CountAttempt(Current)
          /\ UNCHANGED <<status, age>>
  /\ NextItem
  /\ UNCHANGED <<endpoint, fan, announced, history>>

-----------------------------------------------------------------------------
\* The cleanup deletes the deliveries that are old, whatever has become of them.
Cleanup ==
  LET Old == {j \in Jobs : status[j] # "none" /\ age[j] > Retention}
  IN  /\ Old # {}
      /\ Drop(Old)
      /\ UNCHANGED <<endpoint, fan, batch, stage, announced, faults, history>>

\* The process dies and is started again: the batch and the loops are forgotten.
Crash ==
  /\ faults < MaxFaults
  /\ batch # <<>> \/ \E e \in Events : fan[e].left # {}
  /\ faults' = faults + 1
  /\ batch' = <<>>
  /\ stage' = "lookup"
  /\ fan' = [e \in Events |->
               IF fan[e].left # {} THEN [fan[e] EXCEPT !.left = {}, !.calm = FALSE] ELSE fan[e]]
  /\ unsure' = IF At("complete") THEN unsure \cup {Current} ELSE unsure
  /\ UNCHANGED <<endpoint, table, announced, taken, again, made, renewed>>

\* How long ago, or how soon, a delivery is due after a tick. Of those that are
\* overdue only the order matters to DueWebhooks, so they are counted.
Later(w) ==
  IF w > 0 THEN w - 1
  ELSE -Cardinality({wait[j] : j \in {j \in Jobs : status[j] = "pending" /\ w <= wait[j] /\ wait[j] <= 0}})

Older(n) == IF n < MaxAge THEN n + 1 ELSE n

\* Time passes, but not within the few statements of an EnqueueEvent.
Tick ==
  /\ \A e \in Events : fan[e].left = {}
  /\ wait' = [j \in Jobs |-> IF status[j] = "pending" THEN Later(wait[j]) ELSE 0]
  /\ age' = [j \in Jobs |-> IF status[j] = "none" THEN 0 ELSE Older(age[j])]
  /\ batch' = [i \in 1 .. Len(batch) |-> [batch[i] EXCEPT !.age = Older(@)]]
  /\ UNCHANGED <<endpoint, status, attempt, fan, stage, announced, faults, history>>

Insert == \E e \in Events, p \in Endpoints : InsertDelivery(e, p)

Dispatch ==
  \/ DueWebhooks
  \/ GetWebhookEndpoint
  \/ Post
  \/ \E lost \in BOOLEAN : Complete(lost) \/ Fail(lost)

Next ==
  \/ \E p \in Endpoints : CreateEndpoint(p) \/ DeleteEndpoint(p)
  \/ \E e \in Events : SelectEndpoints(e) \/ InsertFails(e)
  \/ Insert
  \/ Dispatch
  \/ Cleanup
  \/ Crash
  \/ Tick

Spec == Init /\ [][Next]_vars

\* The dispatcher's loop runs as long as the process does, every request of it
\* ends within 10 seconds, and time passes.
FairSpec == Spec /\ WF_vars(Dispatch) /\ WF_vars(Insert) /\ WF_vars(Tick)

-----------------------------------------------------------------------------
(***************************************************************************)
(* delivered_at is set only of what the endpoint has processed.            *)
(***************************************************************************)
DeliveredIsTaken == \A j \in Jobs : status[j] = "delivered" => j \in taken

(***************************************************************************)
(* An endpoint processes an event twice only after an ambiguous failure,   *)
(* as docs/operations.md:43 has it: an answer that was lost, a process     *)
(* that died or a write that failed before the answer was written down; or *)
(* after the cleanup deleted the delivery and the mail server repeated the *)
(* event.                                                                  *)
(***************************************************************************)
DuplicateIsExplained == again \subseteq unsure \cup renewed

(***************************************************************************)
(* After an EnqueueEvent that nothing disturbed (no endpoint of its list   *)
(* deleted, no failure, no crash) every endpoint that was there and wants  *)
(* the event has a delivery, or had one, whatever an earlier and disturbed *)
(* EnqueueEvent of the event left out.                                     *)
(***************************************************************************)
FanoutComplete ==
  \A e \in Events :
    fan[e].left = {} /\ fan[e].calm => \A p \in fan[e].all : <<e, p>> \in made

(***************************************************************************)
(* The dispatcher has no delivery in hand that is known to be delivered,   *)
(* though its copy of the table is old by the time it comes to the last.   *)
(***************************************************************************)
NothingDeliveredInHand ==
  \A i \in 1 .. Len(batch) :
    status[batch[i].job] # "delivered"

(***************************************************************************)
(* A delivery is put off for a year only when it is older than the window. *)
(* A delivery deleted and created again while the dispatcher held a copy   *)
(* of the old one is the exception: it is put off by the copy's age.       *)
(***************************************************************************)
GivenUpAfterWindow ==
  [][\A j \in Jobs : wait[j] < Park /\ wait'[j] = Park => age[j] >= Window \/ j \in renewed]_vars

InBatch(j) == \E i \in 1 .. Len(batch) : batch[i].job = j

(***************************************************************************)
(* No starvation: a delivery that is due is taken up, though others that   *)
(* fail again and again become due again and a batch has no room for all.  *)
(***************************************************************************)
DueIsTakenUp == \A j \in Jobs : j \in Due ~> InBatch(j) \/ status[j] # "pending"

(***************************************************************************)
(* A delivery does not stay pending: it is delivered, given up or deleted. *)
(***************************************************************************)
PendingIsSettled == \A j \in Jobs : status[j] = "pending" ~> status[j] # "pending" \/ wait[j] > Delay[LastAttempt]
-----------------------------------------------------------------------------
\* What Notices speaks of: the rows that are pending and those delivered, and the
\* deliveries the endpoint may be sent again.
Pending   == {j \in Jobs : status[j] = "pending"}
Delivered == {j \in Jobs : status[j] = "delivered"}
InDoubt   == unsure \cup renewed

(***************************************************************************)
(* EnqueueEvent, the dispatcher and whoever deletes rows keep the promise  *)
(* of Notices: what is posted was made and is not delivered, at whatever   *)
(* time the batch was read; it is delivered only when its row is there     *)
(* still, pending, and its endpoint has processed it; and it is processed  *)
(* again only in doubt.                                                    *)
(***************************************************************************)
Promise == INSTANCE Notices
  WITH Notice    <- Jobs,
       owed      <- Pending,
       settled   <- Delivered,
       ever      <- made,
       processed <- taken,
       twice     <- again,
       doubt     <- InDoubt

NoticesArePromised == Promise!Spec
=============================================================================
