--------------------------- MODULE Subscriptions ---------------------------
(***************************************************************************)
(* The rows by which an application knows the Stripe subscriptions of one  *)
(* customer (src/packages/stripe/src/routes.ts and hooks.ts): requests     *)
(* read and write them around calls to Stripe, and Stripe's events bring   *)
(* them up to date.                                                        *)
(*                                                                         *)
(* There is one plan, with a free trial. Stripe changes subscriptions of   *)
(* its own accord: its customer pays or not, and uses the billing portal,  *)
(* which upgrade and cancel only open. Schedules, seats, prices and the    *)
(* making of the customer are left out. Errors of a handler of events are  *)
(* swallowed by it, and not modelled.                                      *)
(***************************************************************************)
EXTENDS Integers, Sequences, FiniteSets

CONSTANTS
  Requests,
  Foreign,      \* subscriptions that are made in Stripe's dashboard
  Deployments   \* the loads to consider

\* A request's checkout may become a subscription, which has the request's name.
Subs == Requests \cup Foreign
\* A row is made by a request, or by the event that a subscription was created,
\* which may come again (bound: two rows of one subscription).
RowIds == ({"upgrade"} \X Requests) \cup ({"webhook", "again"} \X Subs)
None == "none"
NoId == <<"none", None>>

Kinds == {"upgrade", "success", "cancel", "restore"}
Deployment ==
  [ops        : [Requests -> SUBSET Kinds],
   serial     : BOOLEAN,   \* events in their order; nothing between a handler's steps
   known      : SUBSET Foreign,   \* those that are active, and have a row, at the start
   made       : SUBSET Foreign,   \* those that are made later
   maxChanges : Nat]       \* changes that Stripe makes

ConstantsOK ==
  /\ Deployments \subseteq Deployment
  /\ Requests \cap Foreign = {} /\ None \notin Subs

VARIABLES
  deploy,    \* the load, chosen at the start
  rows,      \* the table subscription
  stripe,    \* the subscriptions that Stripe has
  events,    \* what Stripe has yet to tell
  hook,      \* the event that is being handled
  call,      \* the state of each request
  changes,
  harm       \* history: what has befallen a row that was still needed

vars == <<deploy, rows, stripe, events, hook, call, changes, harm>>

LiveStatus == {"active", "trialing"}
BornStatus == LiveStatus \cup {"past_due", "canceled"}
Row == [status : {"none", "deleted", "incomplete"} \cup BornStatus, sub : Subs \cup {None},
        trial : BOOLEAN, pending : BOOLEAN]
NoRow == [status |-> "none", sub |-> None, trial |-> FALSE, pending |-> FALSE]
\* home is the row that the metadata of the checkout names.
Sub == [status : {"none", "open"} \cup BornStatus, home : RowIds \cup {NoId},
        trial : BOOLEAN, pending : BOOLEAN]
Event == [kind : {"completed", "created", "updated", "deleted"}, sub : Subs,
          status : BornStatus, pending : BOOLEAN]
NoEvent == [kind |-> "none", sub |-> None, status |-> None, pending |-> FALSE]

Hook == [at : {"idle", "retrieve", "find", "others", "create", "write"},
         event : Event \cup {NoEvent},
         again : BOOLEAN,  \* it will be delivered again
         row : RowIds \cup {NoId}]
NoHook == [at |-> "idle", event |-> NoEvent, again |-> FALSE, row |-> NoId]

\* A second subscription was paid for with it, cancel deleted it, or a visit of the
\* success page gave it back to an earlier subscription.
Harms == {"shared", "deleted", "taken"}

Places == {"review", "list", "match", "adopt", "reserve", "judge", "open", "look", "fetch",
           "activate", "find", "check", "remove", "resync", "sync", "restore", "revive",
           "renew", "clear"}
Call == [at : {"idle", "done"} \cup Places, row : RowIds \cup {NoId}, sub : Subs \cup {None},
         status : BornStatus \cup {None}, pending : BOOLEAN, trial : BOOLEAN,
         known : SUBSET Subs,   \* history: live subscriptions with a row when it began
         trialed : BOOLEAN]     \* history: a trial had been told when it began
NoCall == [at |-> "idle", row |-> NoId, sub |-> None, status |-> None, pending |-> FALSE,
           trial |-> FALSE, known |-> {}, trialed |-> FALSE]
Done == [NoCall EXCEPT !.at = "done"]

Deleted == [NoRow EXCEPT !.status = "deleted"]
Exists(i) == i # NoId /\ rows[i] \notin {NoRow, Deleted}
All == {i \in RowIds : Exists(i)}
Linked(s) == {i \in All : rows[i].sub = s}
LiveRow(i) == rows[i].status \in LiveStatus
LiveSub(s) == stripe[s].status \in LiveStatus
LiveSubs == {s \in Subs : LiveSub(s)}
Born(s) == stripe[s].status \in BornStatus

At(r, pc) == call[r].at = pc
InFlight(r) == call[r].at \in Places
Become(r, c) == call' = [call EXCEPT ![r] = c]
Goto(r, pc) == Become(r, [call[r] EXCEPT !.at = pc])
End(r) == Become(r, Done)
Quiet == hook.at = "idle" /\ \A r \in Requests : ~InFlight(r)
Clear == deploy.serial => Quiet
Settled == Quiet /\ events = <<>>
\* Stripe has something to tell of s.
Untold(s) == hook.event.sub = s \/ \E i \in 1..Len(events) : events[i].sub = s
Over(s) == stripe[s].status = "canceled" /\ ~Untold(s)
RowOf(s) == IF stripe[s].home = NoId THEN <<"webhook", s>> ELSE stripe[s].home
\* The subscriptions that have the row i and are not over.
Owed(i) == {s \in Subs : Born(s) /\ ~Over(s) /\ RowOf(s) = i}

Init ==
  /\ deploy \in Deployments
  /\ rows = [i \in RowIds |->
               IF i[1] = "webhook" /\ i[2] \in deploy.known
                 THEN [NoRow EXCEPT !.status = "active", !.sub = i[2]] ELSE NoRow]
  /\ stripe = [s \in Subs |-> [status |-> IF s \in deploy.known THEN "active" ELSE "none",
                               home |-> NoId, trial |-> FALSE, pending |-> FALSE]]
  /\ events = <<>> /\ hook = NoHook
  /\ call = [r \in Requests |-> NoCall]
  /\ changes = 0 /\ harm = {}

-----------------------------------------------------------------------------
(* Stripe *)

Tell(kind, s) ==
  [kind |-> kind, sub |-> s, status |-> stripe'[s].status, pending |-> stripe'[s].pending]
ByStripe == Clear /\ UNCHANGED <<deploy, rows, hook, call>>
Counted == changes < deploy.maxChanges /\ changes' = changes + 1

\* The checkout is paid for. Its two events come in either order.
Pay(r) ==
  /\ ByStripe /\ UNCHANGED changes
  /\ harm' = harm \cup IF Owed(RowOf(r)) # {} THEN {"shared"} ELSE {}
  /\ stripe[r].status = "open"
  /\ stripe' = [stripe EXCEPT ![r].status = IF stripe[r].trial THEN "trialing" ELSE "active"]
  /\ \E both \in {<<"created", "completed">>, <<"completed", "created">>} :
       events' = events \o <<Tell(both[1], r), Tell(both[2], r)>>

Dashboard(s) ==
  /\ ByStripe /\ UNCHANGED <<changes, harm>>
  /\ s \in deploy.made /\ stripe[s].status = "none"
  /\ stripe' = [stripe EXCEPT ![s].status = "active"]
  /\ events' = Append(events, Tell("created", s))

\* A trial ends, a payment fails or comes late, the subscription ends.
Change(s) ==
  /\ ByStripe /\ Counted /\ UNCHANGED harm
  /\ Born(s) /\ stripe[s].status # "canceled"
  /\ \E status \in {"active", "past_due", "canceled"} \ {stripe[s].status} :
       /\ stripe' = [stripe EXCEPT ![s].status = status]
       /\ events' = Append(events, Tell(IF status = "canceled" THEN "deleted" ELSE "updated", s))

\* The portal sets the end of the period as the end of the subscription.
CancelLater(s) ==
  /\ ByStripe /\ Counted /\ UNCHANGED harm
  /\ LiveSub(s) /\ ~stripe[s].pending
  /\ stripe' = [stripe EXCEPT ![s].pending = TRUE]
  /\ events' = Append(events, Tell("updated", s))

-----------------------------------------------------------------------------
(* Events *)

Handled == hook' = NoHook
Without(i) == SubSeq(events, 1, i - 1) \o SubSeq(events, i + 1, Len(events))

\* An event is delivered until its answer arrives, in order if serial.
Receive ==
  /\ Clear /\ hook.at = "idle"
  /\ \E i \in 1..(IF deploy.serial /\ events # <<>> THEN 1 ELSE Len(events)), again \in BOOLEAN :
       /\ hook' = [NoHook EXCEPT !.at = IF events[i].kind = "completed" THEN "retrieve" ELSE "find",
                                 !.event = events[i], !.again = again]
       /\ events' = IF again THEN events ELSE Without(i)
  /\ UNCHANGED <<deploy, rows, stripe, call, changes, harm>>

\* The process dies in the middle of an event, which comes again.
Crash ==
  /\ hook.at # "idle" /\ hook.again
  /\ Handled
  /\ UNCHANGED <<deploy, rows, stripe, events, call, changes, harm>>

\* onCheckoutSessionCompleted goes by what Stripe says now.
Retrieve ==
  /\ hook.at = "retrieve"
  /\ LET s == hook.event.sub
     IN hook' = [hook EXCEPT !.at = "write", !.row = stripe[s].home,
                             !.event.status = stripe[s].status, !.event.pending = stripe[s].pending]
  /\ UNCHANGED <<deploy, rows, stripe, events, call, changes, harm>>

\* The row that the metadata names; without metadata, the one linked to it.
Named(s) ==
  IF stripe[s].home = NoId THEN Linked(s) ELSE {stripe[s].home} \cap All

NewRows(s) == {i \in {"webhook", "again"} \X {s} : rows[i] = NoRow}

\* onSubscriptionCreated
FindCreated ==
  /\ hook.at = "find" /\ hook.event.kind = "created"
  /\ IF Named(hook.event.sub) # {} \/ NewRows(hook.event.sub) = {} THEN Handled
     ELSE hook' = [hook EXCEPT !.at = "create"]
  /\ UNCHANGED <<deploy, rows, stripe, events, call, changes, harm>>

\* The row has no dates of an end, whatever Stripe has.
CreateRow ==
  /\ hook.at = "create"
  /\ LET s == hook.event.sub
         i == CHOOSE i \in NewRows(s) : i[1] = "webhook" \/ Cardinality(NewRows(s)) = 1
     IN rows' = [rows EXCEPT ![i] = [status |-> hook.event.status, sub |-> s,
                                     trial |-> stripe[s].trial, pending |-> FALSE]]
  /\ Handled
  /\ UNCHANGED <<deploy, stripe, events, call, changes, harm>>

\* onSubscriptionUpdated
FindUpdated ==
  /\ hook.at = "find" /\ hook.event.kind = "updated"
  /\ IF Named(hook.event.sub) = {}
       THEN hook' = [hook EXCEPT !.at = "others"]
       ELSE \E i \in Named(hook.event.sub) : hook' = [hook EXCEPT !.at = "write", !.row = i]
  /\ UNCHANGED <<deploy, rows, stripe, events, call, changes, harm>>

\* The customer's only row, or a live one of several.
Others ==
  /\ hook.at = "others"
  /\ LET found == IF Cardinality(All) = 1 THEN All ELSE {i \in All : LiveRow(i)}
     IN IF found = {} THEN Handled
        ELSE \E i \in found : hook' = [hook EXCEPT !.at = "write", !.row = i]
  /\ UNCHANGED <<deploy, rows, stripe, events, call, changes, harm>>

\* onSubscriptionDeleted goes by the link alone.
FindDeleted ==
  /\ hook.at = "find" /\ hook.event.kind = "deleted"
  /\ IF Linked(hook.event.sub) = {} THEN Handled
     ELSE \E i \in Linked(hook.event.sub) : hook' = [hook EXCEPT !.at = "write", !.row = i]
  /\ UNCHANGED <<deploy, rows, stripe, events, call, changes, harm>>

\* The row, if it is still there, shows the event. deleted does not link it.
Shown(i) ==
  LET e == hook.event
  IN [status |-> e.status, sub |-> IF e.kind = "deleted" THEN rows[i].sub ELSE e.sub,
      trial |-> rows[i].trial \/ stripe[e.sub].trial, pending |-> e.pending]

Write ==
  /\ hook.at = "write"
  /\ rows' = [i \in RowIds |-> IF i = hook.row /\ Exists(i) THEN Shown(i) ELSE rows[i]]
  /\ Handled
  /\ UNCHANGED <<deploy, stripe, events, call, changes, harm>>

-----------------------------------------------------------------------------
(* Requests *)

Quietly == UNCHANGED <<deploy, rows, stripe, events, hook, changes, harm>>
RowsAlone == UNCHANGED <<deploy, stripe, events, hook, changes, harm>>
Patch(i, row) == rows' = [rows EXCEPT ![i] = IF Exists(i) THEN row ELSE @]

First == [upgrade |-> "review", success |-> "look", cancel |-> "find", restore |-> "restore"]

\* success is for a checkout that was paid for.
Start(r) ==
  /\ At(r, "idle") /\ Clear
  /\ \E op \in deploy.ops[r], s \in Requests \cup {None} :
       /\ IF op = "success" THEN s # None /\ Born(s) ELSE s = None
       /\ Become(r, [NoCall EXCEPT
            !.at = First[op], !.sub = s,
            !.known = IF Settled THEN {q \in LiveSubs : \E i \in Linked(q) : LiveRow(i)} ELSE {},
            !.trialed = \E q \in Subs : Born(q) /\ stripe[q].trial /\ ~Untold(q)])
  /\ Quietly

\* upgradeSubscription, of a subscription that is named or of any.
Review(r) ==
  /\ At(r, "review")
  /\ \/ \E i \in All :
          /\ rows[i].sub # None
          /\ Become(r, [call[r] EXCEPT !.at = "list", !.sub = rows[i].sub,
                                       !.row = IF LiveRow(i) THEN i ELSE NoId])
     \/ LET live == {i \in All : LiveRow(i)}
            spare == {i \in All : rows[i].status = "incomplete"}
        IN IF live \cup spare = {} THEN Goto(r, "list")
           ELSE \E i \in (IF live # {} THEN live ELSE spare) :
                  Become(r, [call[r] EXCEPT !.at = "list", !.row = i, !.sub = rows[i].sub])
  /\ Quietly

\* Stripe's list of live subscriptions; one that is found is changed in the
\* portal, unless the plan would be the same.
List(r) ==
  /\ At(r, "list")
  /\ IF call[r].sub \in LiveSubs THEN Goto(r, "match") \/ End(r) ELSE Goto(r, "reserve")
  /\ Quietly

Match(r) ==
  /\ At(r, "match")
  /\ IF Linked(call[r].sub) = {} /\ call[r].row # NoId THEN Goto(r, "adopt") ELSE End(r)
  /\ Quietly

Adopt(r) ==
  /\ At(r, "adopt")
  /\ LET i == call[r].row IN Patch(i, [rows[i] EXCEPT !.sub = call[r].sub])
  /\ End(r)
  /\ RowsAlone

\* The row that the checkout is for: the one that was read, or a new one.
Reserve(r) ==
  /\ At(r, "reserve")
  /\ IF call[r].row # NoId
       THEN Goto(r, "judge") /\ UNCHANGED rows
       ELSE /\ rows' = [rows EXCEPT ![<<"upgrade", r>>] =
                          [NoRow EXCEPT !.status = "incomplete"]]
            /\ Become(r, [call[r] EXCEPT !.at = "judge", !.row = <<"upgrade", r>>])
  /\ RowsAlone

\* Faulty: only the row in hand is asked.
JudgeRow(r) ==
  /\ At(r, "judge")
  /\ LET i == call[r].row
     IN Become(r, [call[r] EXCEPT !.at = "open",
                     !.trial = ~rows[i].trial /\ rows[i].status # "trialing"])
  /\ Quietly

\* hasEverTrialed, in any row.
Judge(r) ==
  /\ At(r, "judge")
  /\ Become(r, [call[r] EXCEPT !.at = "open",
                  !.trial = \A i \in All : ~rows[i].trial /\ rows[i].status # "trialing"])
  /\ Quietly

Open(r) ==
  /\ At(r, "open")
  /\ stripe' = [stripe EXCEPT ![r].status = "open", ![r].home = call[r].row,
                              ![r].trial = call[r].trial]
  /\ End(r)
  /\ UNCHANGED <<deploy, rows, events, hook, changes, harm>>

\* subscriptionSuccess
Look(r) ==
  /\ At(r, "look")
  /\ LET i == stripe[call[r].sub].home
     IN IF ~Exists(i) \/ LiveRow(i) THEN End(r)
        ELSE Become(r, [call[r] EXCEPT !.at = "fetch", !.row = i])
  /\ Quietly

Fetch(r) ==
  /\ At(r, "fetch")
  /\ Become(r, [call[r] EXCEPT !.at = "activate", !.status = stripe[call[r].sub].status,
                               !.pending = stripe[call[r].sub].pending])
  /\ Quietly

Activate(r) ==
  /\ At(r, "activate")
  /\ LET i == call[r].row
     IN /\ Patch(i, [status |-> call[r].status, sub |-> call[r].sub, pending |-> call[r].pending,
                     trial |-> rows[i].trial \/ stripe[call[r].sub].trial])
        /\ harm' = harm \cup IF Exists(i) /\ Owed(i) \ {call[r].sub} # {} THEN {"taken"} ELSE {}
  /\ End(r)
  /\ UNCHANGED <<deploy, stripe, events, hook, changes>>

\* cancelSubscription, of a subscription that is named or of a live one.
Find(r) ==
  /\ At(r, "find")
  /\ LET found == {i \in All : rows[i].sub # None}
     IN IF found = {} THEN End(r)
        ELSE \E i \in found :
               Become(r, [call[r] EXCEPT !.at = "check", !.row = i, !.sub = rows[i].sub,
                                         !.pending = rows[i].pending])
  /\ Quietly

\* The portal refuses what is to be canceled already.
Check(r) ==
  /\ At(r, "check")
  /\ LET s == call[r].sub
     IN CASE ~LiveSub(s) -> Goto(r, "remove")
          [] LiveSub(s) /\ stripe[s].pending /\ ~call[r].pending -> Goto(r, "resync")
          [] OTHER -> End(r)
  /\ Quietly

\* A row is needed for its subscription and for those whose metadata names it, until
\* all is told of their end, and to show that there was a trial.
Needed(i) ==
  \/ rows[i].trial
  \/ \E s \in Subs : (rows[i].sub = s \/ RowOf(s) = i) /\ stripe[s].status # "none" /\ ~Over(s)
  \/ \E r \in Requests : call[r].at \in {"list", "reserve", "judge", "open"} /\ call[r].row = i

Remove(r) ==
  /\ At(r, "remove")
  /\ rows' = [rows EXCEPT ![call[r].row] = Deleted]
  /\ harm' = harm \cup IF Exists(call[r].row) /\ Needed(call[r].row) THEN {"deleted"} ELSE {}
  /\ End(r)
  /\ UNCHANGED <<deploy, stripe, events, hook, changes>>

Resync(r) ==
  /\ At(r, "resync")
  /\ Become(r, [call[r] EXCEPT !.at = "sync", !.pending = stripe[call[r].sub].pending])
  /\ Quietly

Sync(r) ==
  /\ At(r, "sync")
  /\ LET i == call[r].row IN Patch(i, [rows[i] EXCEPT !.pending = call[r].pending])
  /\ End(r)
  /\ RowsAlone

\* restoreSubscription
Restore(r) ==
  /\ At(r, "restore")
  /\ LET found == {i \in All : LiveRow(i) /\ rows[i].pending}
     IN IF found = {} THEN End(r)
        ELSE \E i \in found :
               Become(r, [call[r] EXCEPT !.at = "revive", !.row = i, !.sub = rows[i].sub])
  /\ Quietly

Revive(r) ==
  /\ At(r, "revive")
  /\ IF LiveSub(call[r].sub)
       THEN Become(r, [call[r] EXCEPT !.at = "renew", !.pending = stripe[call[r].sub].pending])
       ELSE End(r)
  /\ Quietly

\* What Stripe is asked to clear is what it said it had.
Renew(r) ==
  /\ At(r, "renew")
  /\ LET s == call[r].sub
         clears == call[r].pending /\ stripe[s].pending
     IN /\ stripe' = [stripe EXCEPT ![s].pending = @ /\ ~clears]
        /\ events' = IF clears THEN Append(events, Tell("updated", s)) ELSE events
  /\ Goto(r, "clear")
  /\ UNCHANGED <<deploy, rows, hook, changes, harm>>

ClearRow(r) ==
  /\ At(r, "clear")
  /\ LET i == call[r].row IN Patch(i, [rows[i] EXCEPT !.pending = FALSE])
  /\ End(r)
  /\ RowsAlone

-----------------------------------------------------------------------------
ByHook ==
  Receive \/ Crash \/ Retrieve \/ FindCreated \/ CreateRow \/ FindUpdated \/ Others
    \/ FindDeleted \/ Write

Step(r) ==
  \/ Review(r) \/ List(r) \/ Match(r) \/ Adopt(r) \/ Reserve(r) \/ Judge(r) \/ Open(r)
  \/ Look(r) \/ Fetch(r) \/ Activate(r)
  \/ Find(r) \/ Check(r) \/ Remove(r) \/ Resync(r) \/ Sync(r)
  \/ Restore(r) \/ Revive(r) \/ Renew(r) \/ ClearRow(r)

Idle == Settled /\ UNCHANGED vars

Next ==
  \/ \E r \in Requests : Start(r) \/ Step(r) \/ Pay(r)
  \/ \E s \in Subs : Dashboard(s) \/ Change(s) \/ CancelLater(s)
  \/ ByHook \/ Idle

Spec == Init /\ [][Next]_vars

-----------------------------------------------------------------------------
(* Properties *)

\* The state has its type.
TypeOK ==
  /\ deploy \in Deployments
  /\ rows \in [RowIds -> Row]
  /\ stripe \in [Subs -> Sub]
  /\ events \in Seq(Event)
  /\ hook \in Hook
  /\ call \in [Requests -> Call]
  /\ changes \in 0..deploy.maxChanges /\ harm \in SUBSET Harms

\* When all events are handled, every row shows what its subscription is, and
\* every subscription that has not ended has a row.
RowsMirror ==
  deploy.serial /\ Settled =>
    /\ \A i \in All :
         rows[i].sub # None =>
           /\ rows[i].status = stripe[rows[i].sub].status
           /\ rows[i].pending = stripe[rows[i].sub].pending
           /\ stripe[rows[i].sub].trial => rows[i].trial
    /\ \A s \in Subs : Born(s) /\ ~Over(s) => Linked(s) # {}

\* Beside a live subscription that the rows show no checkout is opened, but for a
\* request that names another, which is not live.
OneAtATime ==
  deploy.serial =>
    \A r \in Requests :
      At(r, "open") /\ call[r].sub \in call[r].known \cup {None} => call[r].known = {}

\* Who had a trial, and Stripe has told of it, is offered no other, in whatever
\* order and however often its events come, and whatever overlaps.
OneTrial ==
  \A r \in Requests : At(r, "open") /\ call[r].trialed => ~call[r].trial

\* The rows can be relied on while cancel deletes none that is needed, the customer
\* does not pay for one twice, and the success page of a subscription that has ended
\* does not take one from a later: those are the ways to lose track.
SubscriptionsSound ==
  /\ harm = {} => RowsMirror /\ OneAtATime
  /\ "deleted" \notin harm => OneTrial
=============================================================================
