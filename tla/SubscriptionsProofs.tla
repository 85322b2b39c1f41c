--------------------------- MODULE SubscriptionsProofs ---------------------------
(***************************************************************************)
(* Proofs about Subscriptions: its type invariant, that a trial is offered *)
(* once in whatever order the events come, and that the rows follow Stripe *)
(* when events come in order (SubscriptionsSound), whatever the customer   *)
(* and Stripe do.                                                          *)
(***************************************************************************)
EXTENDS Subscriptions, FiniteSetTheorems, SequenceTheorems, TLAPS

Busy == hook.at # "idle"
EventAt(j, kind, s) == events[j].kind = kind /\ events[j].sub = s
\* An event of this kind about s is waiting or being handled.
Coming(kind, s) ==
  \/ hook.event.kind = kind /\ hook.event.sub = s
  \/ \E j \in 1..Len(events) : EventAt(j, kind, s)

-----------------------------------------------------------------------------
(* What holds in any order of events *)

\* The state has its type, and what is handled or in hand is what a step can have
\* put there.
Handling ==
  /\ hook.at = "idle" => hook = NoHook
  /\ Busy => hook.event \in Event /\ Born(hook.event.sub)
  /\ hook.at = "retrieve" => hook.event.kind = "completed"
  /\ hook.at = "create" => hook.event.kind = "created"
  /\ hook.at = "others" => hook.event.kind = "updated"
  /\ hook.at = "write" => hook.event.kind # "created"
  /\ hook.event.kind = "deleted" => hook.event.status = "canceled"
  /\ Busy /\ hook.event.kind = "completed" =>
       /\ hook.event.sub \in Requests /\ hook.at \in {"retrieve", "write"}
       /\ hook.at = "write" => hook.row = stripe[hook.event.sub].home
  /\ Busy /\ hook.again =>
       \E j \in 1..Len(events) : EventAt(j, hook.event.kind, hook.event.sub)

Queued ==
  \A j \in 1..Len(events) :
    /\ Born(events[j].sub)
    /\ events[j].kind = "completed" => events[j].sub \in Requests
    /\ events[j].kind = "deleted" => events[j].status = "canceled"

\* A request makes its row, and its checkout, once.
Fresh ==
  \A r \in Requests :
    /\ call[r].at # "done" => stripe[r].status = "none"
    /\ call[r].at \in {"idle", "review", "list", "reserve"} => rows[<<"upgrade", r>>] = NoRow
    /\ stripe[r].status # "none" => stripe[r].home # NoId
Homes ==
  \A s \in Foreign : stripe[s].home = NoId /\ ~stripe[s].trial /\ stripe[s].status # "open"

\* A row that is in hand has been there.
HookHand ==
  /\ hook.row # NoId => rows[hook.row] # NoRow
  /\ hook.at = "create" => NewRows(hook.event.sub) # {}
  /\ hook.at = "write" => hook.row # NoId
CallHand(r) ==
  /\ call[r].row # NoId => rows[call[r].row] # NoRow
  /\ call[r].at = "review" => call[r].row = NoId /\ call[r].sub = None
  /\ call[r].at \in {"judge", "open", "adopt", "fetch", "activate", "check", "remove",
                     "resync", "sync", "revive", "renew", "clear"} => call[r].row # NoId
  /\ call[r].at \in {"look", "fetch", "activate"} => call[r].sub \in Requests
  /\ call[r].sub # None => Born(call[r].sub)
  /\ call[r].at = "activate" => call[r].status # None
  /\ call[r].at \in {"match", "adopt", "check", "remove", "resync", "sync", "revive",
                     "renew", "clear"} => call[r].sub # None
HomeHand == \A s \in Subs : stripe[s].home # NoId => rows[stripe[s].home] # NoRow
RowHand ==
  \A i \in RowIds :
    /\ rows[i].sub # None => Born(rows[i].sub)
    /\ LiveRow(i) => rows[i].sub # None
    /\ rows[i].status \in {"none", "deleted"} => ~Exists(i)
InHand == HookHand /\ (\A r \in Requests : CallHand(r)) /\ HomeHand /\ RowHand

Base == TypeOK /\ Handling /\ Queued /\ Fresh /\ Homes /\ InHand

\* A trial that has been told is shown by a row, and by none that goes.
TrialShown == \E i \in All : rows[i].trial
\* The row of a checkout stays until Stripe has told of its payment; then it shows
\* the trial.
HomeTrial(s) ==
  /\ stripe[s].status = "open" \/ Coming("completed", s) => Exists(stripe[s].home)
  /\ Born(s) /\ stripe[s].trial => TrialShown \/ Coming("completed", s)
CallTrial(r) ==
  /\ call[r].at \in {"list", "reserve"} => call[r].row = NoId \/ Exists(call[r].row)
  /\ call[r].at \in {"judge", "open"} => Exists(call[r].row)
  /\ InFlight(r) /\ call[r].trialed => TrialShown
  /\ At(r, "open") /\ call[r].trialed => ~call[r].trial
Trials == (\A s \in Requests : HomeTrial(s)) /\ (\A r \in Requests : CallTrial(r))

TrialInv == Base /\ ("deleted" \notin harm => Trials)

-----------------------------------------------------------------------------
(* What holds when events come in order *)

Early == {"created", "completed"}
Linking(s) == IF s \in Requests THEN "completed" ELSE "created"
Shows(i, s) ==
  /\ rows[i].status = stripe[s].status /\ rows[i].pending = stripe[s].pending
  /\ stripe[s].trial => rows[i].trial
LinkedTo(s) == Exists(RowOf(s)) /\ rows[RowOf(s)].sub = s
Due(s) == Born(s) /\ ~Over(s)
Current(e) == e.status = stripe[e.sub].status /\ e.pending = stripe[e.sub].pending

\* One thing at a time.
Alone ==
  /\ \A r \in Requests : InFlight(r) => ~Busy
  /\ \A r, q \in Requests : InFlight(r) /\ InFlight(q) => r = q

\* The last event about a subscription says what it is now, those of its start come
\* before the others, and that it was created is told once.
InQueue(j) ==
  /\ events[j].kind = "created" => ~events[j].pending
  /\ (\A k \in (j + 1)..Len(events) : events[k].sub # events[j].sub) => Current(events[j])
  /\ \A k \in (j + 1)..Len(events) : events[k].sub = events[j].sub =>
       /\ events[k].kind \in Early => events[j].kind \in Early
       /\ events[j].kind # "created" \/ events[k].kind # "created"
InTurn ==
  LET e == hook.event IN
  /\ e.kind = "created" => ~e.pending
  /\ (\A k \in 1..Len(events) : events[k].sub # e.sub) => Current(e)
  /\ \A k \in 1..Len(events) : events[k].sub = e.sub =>
       /\ events[k].kind \in Early => e.kind \in Early
       /\ e.kind = "created" /\ events[k].kind = "created" => events[k] = e
  /\ e.kind = "completed" /\ hook.at = "write" => Current(e)
InOrder ==
  /\ \A j \in 1..Len(events) : InQueue(j)
  /\ Busy => InTurn
  /\ \A s \in Subs : ~Born(s) => ~stripe[s].pending

\* What a request has in hand is still so.
StillSo(r) ==
  LET c == call[r] IN
  /\ c.at = "review" => \A s \in c.known : LiveSub(s) /\ \E i \in Linked(s) : LiveRow(i)
  /\ c.at \in {"list", "match"} /\ c.sub # None => Linked(c.sub) # {}
  /\ c.at = "list" /\ c.sub \in c.known \cup {None} => c.known = {} \/ c.sub \in LiveSubs
  /\ c.at # "adopt"
  /\ c.at \in {"reserve", "judge", "open"} /\ c.sub \in c.known \cup {None} => c.known = {}
  /\ c.at \in {"fetch", "activate"} => c.row = stripe[c.sub].home /\ Exists(c.row)
  /\ c.at = "activate" => /\ c.status = stripe[c.sub].status
                          /\ c.pending = stripe[c.sub].pending
  /\ c.at \in {"check", "remove", "resync", "sync", "revive", "renew", "clear"} =>
       Exists(c.row) /\ rows[c.row].sub = c.sub
  /\ c.at \in {"sync", "renew"} => c.pending = stripe[c.sub].pending
  /\ c.at \in {"renew", "clear"} => LiveSub(c.sub)
  /\ c.at = "clear" => ~stripe[c.sub].pending

\* A row belongs to its subscription, and to one that is not over; that one is linked
\* to it, or will be; and if the row does not show it, an event is to come that it will.
Late == {"completed", "updated", "deleted"}
RowLink(i) ==
  Exists(i) /\ rows[i].sub # None => Born(rows[i].sub) /\ RowOf(rows[i].sub) = i
SubLink(s) ==
  /\ s \in Requests /\ (stripe[s].status = "open" \/ Due(s)) => Exists(stripe[s].home)
  /\ s \in Foreign /\ rows[<<"webhook", s>>] # NoRow => Born(s)
  /\ s \in Foreign /\ Due(s) => rows[<<"webhook", s>>] = NoRow \/ LinkedTo(s)
  /\ Due(s) => LinkedTo(s) \/ Coming(Linking(s), s)
  /\ LinkedTo(s) => Shows(RowOf(s), s) \/ \E k \in Late : Coming(k, s)
OneDue == \A s, q \in Subs : Due(s) /\ Due(q) /\ RowOf(s) = RowOf(q) => s = q
Tied == (\A i \in RowIds : RowLink(i)) /\ (\A s \in Subs : SubLink(s)) /\ OneDue
HookLink ==
  /\ hook.at # "others"
  /\ hook.at = "create" => ~LinkedTo(hook.event.sub) /\ hook.event.sub \in Foreign
  /\ hook.at = "write" => Exists(hook.row) /\ hook.row = RowOf(hook.event.sub)
  /\ hook.at = "write" /\ hook.event.kind = "deleted" => LinkedTo(hook.event.sub)
Links == Tied /\ HookLink

SubscriptionsInv ==
  /\ TrialInv
  /\ deploy.serial => Alone /\ InOrder
  /\ deploy.serial /\ harm = {} => (\A r \in Requests : StillSo(r)) /\ Links

-----------------------------------------------------------------------------
(* The type *)

LEMMA Ids ==
  ASSUME ConstantsOK
  PROVE  /\ None \notin Subs /\ NoId \notin RowIds
         /\ \A r \in Requests : r \in Subs /\ <<"upgrade", r>> \in RowIds
         /\ \A s \in Subs : <<"webhook", s>> \in RowIds /\ <<"again", s>> \in RowIds
         /\ \A s \in Subs : s \in Requests \/ s \in Foreign
         /\ \A s \in Requests : s \notin Foreign
         /\ NoRow \in Row /\ Deleted \in Row /\ NoRow # Deleted
         /\ NoCall \in Call /\ Done \in Call /\ NoHook \in Hook
<1>1. NoRow \in Row
  BY DEF NoRow, Row
<1>2. Deleted \in Row /\ Deleted.status = "deleted"
  BY <1>1 DEF Deleted, Row, NoRow
<1>3. NoRow # Deleted
  BY <1>2 DEF NoRow
<1>4. NoCall \in Call
  BY DEF NoCall, Call
<1>5. Done \in Call
  BY <1>4 DEF Done, Call
<1>6. NoHook \in Hook
  BY DEF NoHook, Hook
<1>7. NoId \notin RowIds
  BY DEF NoId, RowIds
<1> QED BY <1>1, <1>2, <1>3, <1>4, <1>5, <1>6, <1>7 DEF ConstantsOK, Subs, RowIds

LEMMA Live ==
  /\ "active" \in LiveStatus /\ "trialing" \in LiveStatus /\ "none" \notin LiveStatus
  /\ "deleted" \notin LiveStatus /\ "incomplete" \notin LiveStatus
  /\ "none" \notin BornStatus /\ None \notin BornStatus /\ "open" \notin BornStatus
  /\ "incomplete" \notin BornStatus /\ "deleted" \notin BornStatus
  /\ LiveStatus \subseteq BornStatus /\ "canceled" \in BornStatus \ LiveStatus
  BY DEF LiveStatus, BornStatus, None

LEMMA NotRows ==
  /\ NoRow.status = "none" /\ NoRow.sub = None /\ ~NoRow.trial /\ ~NoRow.pending
  /\ Deleted.status = "deleted" /\ Deleted.sub = None /\ ~Deleted.trial /\ ~Deleted.pending
  BY DEF NoRow, Deleted

LEMMA NotCalls ==
  /\ NoCall.at = "idle" /\ NoCall.row = NoId /\ NoCall.sub = None /\ NoCall.status = None
  /\ NoCall.pending = FALSE /\ NoCall.trial = FALSE /\ NoCall.known = {}
  /\ NoCall.trialed = FALSE
  /\ Done.at = "done" /\ Done.row = NoId /\ Done.sub = None /\ Done.status = None
  /\ Done.pending = FALSE /\ Done.trial = FALSE /\ Done.known = {} /\ Done.trialed = FALSE
  BY DEF NoCall, Done

LEMMA NotHooks ==
  /\ NoHook.at = "idle" /\ NoHook.event = NoEvent /\ ~NoHook.again /\ NoHook.row = NoId
  /\ NoEvent.kind = "none" /\ NoEvent.sub = None /\ ~NoEvent.pending
  BY DEF NoHook, NoEvent

LEMMA DeployTyped ==
  ASSUME ConstantsOK, deploy \in Deployments
  PROVE  /\ deploy.ops \in [Requests -> SUBSET Kinds] /\ deploy.serial \in BOOLEAN
         /\ deploy.known \subseteq Foreign /\ deploy.made \subseteq Foreign
         /\ deploy.maxChanges \in Nat
  BY DEF ConstantsOK, Deployment

LEMMA Fields ==
  ASSUME TypeOK
  PROVE  /\ \A i \in RowIds :
              /\ rows[i].status \in {"none", "deleted", "incomplete"} \cup BornStatus
              /\ rows[i].sub \in Subs \cup {None}
              /\ rows[i].trial \in BOOLEAN /\ rows[i].pending \in BOOLEAN
         /\ \A s \in Subs :
              /\ stripe[s].status \in {"none", "open"} \cup BornStatus
              /\ stripe[s].home \in RowIds \cup {NoId}
              /\ stripe[s].trial \in BOOLEAN /\ stripe[s].pending \in BOOLEAN
         /\ \A r \in Requests :
              /\ call[r].at \in {"idle", "done"} \cup Places
              /\ call[r].row \in RowIds \cup {NoId} /\ call[r].sub \in Subs \cup {None}
              /\ call[r].status \in BornStatus \cup {None}
              /\ call[r].pending \in BOOLEAN /\ call[r].trial \in BOOLEAN
              /\ call[r].known \in SUBSET Subs /\ call[r].trialed \in BOOLEAN
         /\ \A j \in 1..Len(events) :
              /\ events[j] \in Event
              /\ events[j].kind \in {"completed", "created", "updated", "deleted"}
              /\ events[j].sub \in Subs /\ events[j].status \in BornStatus
              /\ events[j].pending \in BOOLEAN
         /\ hook.at \in {"idle", "retrieve", "find", "others", "create", "write"}
         /\ hook.event \in Event \cup {NoEvent} /\ hook.again \in BOOLEAN
         /\ hook.row \in RowIds \cup {NoId}
<1>1. \A i \in RowIds : rows[i] \in Row
  BY DEF TypeOK
<1>2. \A s \in Subs : stripe[s] \in Sub
  BY DEF TypeOK
<1>3. \A r \in Requests : call[r] \in Call
  BY DEF TypeOK
<1>4. \A j \in 1..Len(events) : events[j] \in Event
  BY DEF TypeOK
<1>5. hook \in Hook
  BY DEF TypeOK
<1>6. \A i \in RowIds :
              /\ rows[i].status \in {"none", "deleted", "incomplete"} \cup BornStatus
              /\ rows[i].sub \in Subs \cup {None}
              /\ rows[i].trial \in BOOLEAN /\ rows[i].pending \in BOOLEAN
  BY <1>1 DEF Row
<1>7. \A s \in Subs :
              /\ stripe[s].status \in {"none", "open"} \cup BornStatus
              /\ stripe[s].home \in RowIds \cup {NoId}
              /\ stripe[s].trial \in BOOLEAN /\ stripe[s].pending \in BOOLEAN
  BY <1>2 DEF Sub
<1>8. \A r \in Requests :
              /\ call[r].at \in {"idle", "done"} \cup Places
              /\ call[r].row \in RowIds \cup {NoId} /\ call[r].sub \in Subs \cup {None}
              /\ call[r].status \in BornStatus \cup {None}
              /\ call[r].pending \in BOOLEAN /\ call[r].trial \in BOOLEAN
              /\ call[r].known \in SUBSET Subs /\ call[r].trialed \in BOOLEAN
  BY <1>3 DEF Call
<1>9. \A j \in 1..Len(events) :
              /\ events[j].kind \in {"completed", "created", "updated", "deleted"}
              /\ events[j].sub \in Subs /\ events[j].status \in BornStatus
              /\ events[j].pending \in BOOLEAN
  BY <1>4 DEF Event
<1>10. /\ hook.at \in {"idle", "retrieve", "find", "others", "create", "write"}
       /\ hook.event \in Event \cup {NoEvent} /\ hook.again \in BOOLEAN
       /\ hook.row \in RowIds \cup {NoId}
  BY <1>5 DEF Hook
<1> QED BY <1>4, <1>6, <1>7, <1>8, <1>9, <1>10


\* One field of a call is set.
LEMMA SetAt ==
  ASSUME NEW c \in Call, NEW v \in {"idle", "done"} \cup Places
  PROVE  LET d == [c EXCEPT !.at = v] IN
         /\ d \in Call /\ d.at = v
         /\ d.row = c.row /\ d.sub = c.sub /\ d.status = c.status
         /\ d.pending = c.pending /\ d.trial = c.trial
         /\ d.known = c.known /\ d.trialed = c.trialed
  BY DEF Call

LEMMA SetRow ==
  ASSUME NEW c \in Call, NEW v \in RowIds \cup {NoId}
  PROVE  LET d == [c EXCEPT !.row = v] IN
         /\ d \in Call /\ d.row = v
         /\ d.at = c.at /\ d.sub = c.sub /\ d.status = c.status
         /\ d.pending = c.pending /\ d.trial = c.trial
         /\ d.known = c.known /\ d.trialed = c.trialed
  BY DEF Call

LEMMA SetSub ==
  ASSUME NEW c \in Call, NEW v \in Subs \cup {None}
  PROVE  LET d == [c EXCEPT !.sub = v] IN
         /\ d \in Call /\ d.sub = v
         /\ d.at = c.at /\ d.row = c.row /\ d.status = c.status
         /\ d.pending = c.pending /\ d.trial = c.trial
         /\ d.known = c.known /\ d.trialed = c.trialed
  BY DEF Call

LEMMA SetStatus ==
  ASSUME NEW c \in Call, NEW v \in BornStatus \cup {None}
  PROVE  LET d == [c EXCEPT !.status = v] IN
         /\ d \in Call /\ d.status = v
         /\ d.at = c.at /\ d.row = c.row /\ d.sub = c.sub
         /\ d.pending = c.pending /\ d.trial = c.trial
         /\ d.known = c.known /\ d.trialed = c.trialed
  BY DEF Call

LEMMA SetPending ==
  ASSUME NEW c \in Call, NEW v \in BOOLEAN
  PROVE  LET d == [c EXCEPT !.pending = v] IN
         /\ d \in Call /\ d.pending = v
         /\ d.at = c.at /\ d.row = c.row /\ d.sub = c.sub
         /\ d.status = c.status /\ d.trial = c.trial
         /\ d.known = c.known /\ d.trialed = c.trialed
  BY DEF Call

LEMMA SetTrial ==
  ASSUME NEW c \in Call, NEW v \in BOOLEAN
  PROVE  LET d == [c EXCEPT !.trial = v] IN
         /\ d \in Call /\ d.trial = v
         /\ d.at = c.at /\ d.row = c.row /\ d.sub = c.sub
         /\ d.status = c.status /\ d.pending = c.pending
         /\ d.known = c.known /\ d.trialed = c.trialed
  BY DEF Call

LEMMA SetKnown ==
  ASSUME NEW c \in Call, NEW v \in SUBSET Subs
  PROVE  LET d == [c EXCEPT !.known = v] IN
         /\ d \in Call /\ d.known = v
         /\ d.at = c.at /\ d.row = c.row /\ d.sub = c.sub
         /\ d.status = c.status /\ d.pending = c.pending
         /\ d.trial = c.trial /\ d.trialed = c.trialed
  BY DEF Call

LEMMA SetTrialed ==
  ASSUME NEW c \in Call, NEW v \in BOOLEAN
  PROVE  LET d == [c EXCEPT !.trialed = v] IN
         /\ d \in Call /\ d.trialed = v
         /\ d.at = c.at /\ d.row = c.row /\ d.sub = c.sub
         /\ d.status = c.status /\ d.pending = c.pending
         /\ d.trial = c.trial /\ d.known = c.known
  BY DEF Call

-----------------------------------------------------------------------------
(* What the steps of a request do, without the records it is written with *)

\* Only the request r moved.
Moved(r) ==
  /\ call' \in [Requests -> Call]
  /\ \A q \in Requests : q # r => call'[q] = call[q]
\* It goes on with what it had.
Went(r, pc) ==
  /\ Moved(r)
  /\ call'[r].at = pc /\ call'[r].row = call[r].row /\ call'[r].sub = call[r].sub
  /\ call'[r].status = call[r].status /\ call'[r].pending = call[r].pending
  /\ call'[r].trial = call[r].trial /\ call'[r].known = call[r].known
  /\ call'[r].trialed = call[r].trialed
Ended(r) == Moved(r) /\ call'[r] = Done

LEMMA BecomeDoes ==
  ASSUME TypeOK, NEW r \in Requests, NEW d \in Call, Become(r, d)
  PROVE  Moved(r) /\ call'[r] = d
  BY DEF TypeOK, Become, Moved

LEMMA EndDoes ==
  ASSUME ConstantsOK, TypeOK, NEW r \in Requests, End(r)
  PROVE  Ended(r)
  BY Ids, BecomeDoes DEF End, Ended

LEMMA GotoDoes ==
  ASSUME TypeOK, NEW r \in Requests, NEW pc \in Places, Goto(r, pc)
  PROVE  Went(r, pc)
<1> DEFINE d == [call[r] EXCEPT !.at = pc]
<1>1. call[r] \in Call
  BY DEF TypeOK
<1>2. /\ d \in Call /\ d.at = pc
      /\ d.row = call[r].row /\ d.sub = call[r].sub /\ d.status = call[r].status
      /\ d.pending = call[r].pending /\ d.trial = call[r].trial
      /\ d.known = call[r].known /\ d.trialed = call[r].trialed
  BY <1>1, SetAt
<1>3. Become(r, d)
  BY DEF Goto
<1> HIDE DEF d
<1> QED BY <1>2, <1>3, BecomeDoes DEF Went

LEMMA StartDoes ==
  ASSUME ConstantsOK, TypeOK, NEW r \in Requests, Start(r)
  PROVE  /\ call[r].at = "idle" /\ Clear /\ Moved(r) /\ Quietly
         /\ call'[r].at \in {"review", "look", "find", "restore"}
         /\ IF call'[r].at = "look" THEN call'[r].sub \in Requests /\ Born(call'[r].sub)
            ELSE call'[r].sub = None
         /\ call'[r].row = NoId /\ ~call'[r].trial /\ ~call'[r].pending
         /\ call'[r].known = IF Settled THEN {q \in LiveSubs : \E i \in Linked(q) : LiveRow(i)}
                             ELSE {}
         /\ call'[r].trialed = \E q \in Subs : Born(q) /\ stripe[q].trial /\ ~Untold(q)
<1> DEFINE K == IF Settled THEN {q \in LiveSubs : \E i \in Linked(q) : LiveRow(i)} ELSE {}
           T == \E q \in Subs : Born(q) /\ stripe[q].trial /\ ~Untold(q)
<1>1. PICK op \in deploy.ops[r], s \in Requests \cup {None} :
        /\ IF op = "success" THEN s # None /\ Born(s) ELSE s = None
        /\ Become(r, [NoCall EXCEPT !.at = First[op], !.sub = s, !.known = K, !.trialed = T])
  BY DEF Start
<1> DEFINE a == [NoCall EXCEPT !.at = First[op]]
           b == [a EXCEPT !.sub = s]
           c == [b EXCEPT !.known = K]
           d == [c EXCEPT !.trialed = T]
<1>2. op \in Kinds
  BY DeployTyped DEF TypeOK
<1>3. /\ First[op] \in {"review", "look", "find", "restore"}
      /\ First[op] = "look" <=> op = "success"
  BY <1>2 DEF First, Kinds
<1>4. NoCall \in Call /\ s \in Subs \cup {None}
  BY Ids DEF Subs
<1>5. First[op] \in {"idle", "done"} \cup Places
  BY <1>3 DEF Places
<1>6. K \in SUBSET Subs /\ T \in BOOLEAN
  BY DEF LiveSubs
<1>7. Become(r, d)
  BY <1>1
<1> HIDE DEF K, T
<1>8. a \in Call /\ a.at = First[op] /\ a.row = NoId /\ ~a.trial /\ ~a.pending
  BY <1>4, <1>5, SetAt, NotCalls
<1> HIDE DEF a
<1>9. b \in Call /\ b.at = First[op] /\ b.row = NoId /\ ~b.trial /\ ~b.pending /\ b.sub = s
  BY <1>4, <1>8, SetSub
<1> HIDE DEF b
<1>10. /\ c \in Call /\ c.at = First[op] /\ c.row = NoId /\ ~c.trial /\ ~c.pending /\ c.sub = s
       /\ c.known = K
  BY <1>6, <1>9, SetKnown
<1> HIDE DEF c
<1>11. /\ d \in Call /\ d.at = First[op] /\ d.row = NoId /\ ~d.trial /\ ~d.pending /\ d.sub = s
       /\ d.known = K /\ d.trialed = T
  BY <1>6, <1>10, SetTrialed
<1> HIDE DEF d
<1>12. Moved(r) /\ call'[r] = d
  BY <1>7, <1>11, BecomeDoes
<1>13. call[r].at = "idle" /\ Clear /\ Quietly
  BY DEF Start, At
<1>14. IF call'[r].at = "look" THEN call'[r].sub \in Requests /\ Born(call'[r].sub)
       ELSE call'[r].sub = None
  BY <1>1, <1>3, <1>11, <1>12
<1>15. /\ call'[r].at \in {"review", "look", "find", "restore"}
       /\ call'[r].row = NoId /\ ~call'[r].trial /\ ~call'[r].pending
  BY <1>3, <1>11, <1>12
<1>16. call'[r].known = K /\ call'[r].trialed = T
  BY <1>11, <1>12
<1> QED BY <1>12, <1>13, <1>14, <1>15, <1>16 DEF K, T

LEMMA ReviewDoes ==
  ASSUME ConstantsOK, TypeOK, NEW r \in Requests, Review(r)
  PROVE  /\ call[r].at = "review" /\ Moved(r) /\ Quietly
         /\ call'[r].at = "list"
         /\ call'[r].known = call[r].known /\ call'[r].trialed = call[r].trialed
         /\ \/ \E i \in All : /\ rows[i].sub # None /\ call'[r].sub = rows[i].sub
                              /\ call'[r].row = IF LiveRow(i) THEN i ELSE NoId
            \/ /\ \A i \in All : ~LiveRow(i)
               /\ call'[r].sub = call[r].sub /\ call'[r].row = call[r].row
            \/ \E i \in All : /\ LiveRow(i) \/ \A j \in All : ~LiveRow(j)
                              /\ call'[r].sub = rows[i].sub /\ call'[r].row = i
<1> DEFINE live == {i \in All : LiveRow(i)}
           spare == {i \in All : rows[i].status = "incomplete"}
<1>1. call[r].at = "review" /\ Quietly /\ call[r] \in Call
  BY DEF Review, At, TypeOK
<1>2. ASSUME NEW i \in All,
             Become(r, [call[r] EXCEPT !.at = "list", !.sub = rows[i].sub,
                                       !.row = IF LiveRow(i) THEN i ELSE NoId])
      PROVE  /\ Moved(r) /\ call'[r].at = "list"
             /\ call'[r].known = call[r].known /\ call'[r].trialed = call[r].trialed
             /\ call'[r].sub = rows[i].sub
             /\ call'[r].row = IF LiveRow(i) THEN i ELSE NoId
  <2> DEFINE a == [call[r] EXCEPT !.at = "list"]
             b == [a EXCEPT !.sub = rows[i].sub]
             d == [b EXCEPT !.row = IF LiveRow(i) THEN i ELSE NoId]
  <2>1. i \in RowIds /\ rows[i].sub \in Subs \cup {None}
    BY Fields DEF All
  <2>2. (IF LiveRow(i) THEN i ELSE NoId) \in RowIds \cup {NoId}
    BY <2>1
  <2>3. Become(r, d)
    BY <1>2
  <2>4. a \in Call /\ a.at = "list" /\ a.known = call[r].known /\ a.trialed = call[r].trialed
    BY <1>1, SetAt DEF Places
  <2> HIDE DEF a
  <2>5. /\ b \in Call /\ b.at = "list" /\ b.known = call[r].known
        /\ b.trialed = call[r].trialed /\ b.sub = rows[i].sub
    BY <2>1, <2>4, SetSub
  <2> HIDE DEF b
  <2>6. /\ d \in Call /\ d.at = "list" /\ d.known = call[r].known
        /\ d.trialed = call[r].trialed /\ d.sub = rows[i].sub
        /\ d.row = IF LiveRow(i) THEN i ELSE NoId
    BY <2>2, <2>5, SetRow
  <2> HIDE DEF d
  <2> QED BY <2>3, <2>6, BecomeDoes
<1>3. ASSUME NEW i \in All,
             Become(r, [call[r] EXCEPT !.at = "list", !.row = i, !.sub = rows[i].sub])
      PROVE  /\ Moved(r) /\ call'[r].at = "list"
             /\ call'[r].known = call[r].known /\ call'[r].trialed = call[r].trialed
             /\ call'[r].sub = rows[i].sub /\ call'[r].row = i
  <2> DEFINE a == [call[r] EXCEPT !.at = "list"]
             b == [a EXCEPT !.row = i]
             d == [b EXCEPT !.sub = rows[i].sub]
  <2>1. i \in RowIds /\ rows[i].sub \in Subs \cup {None}
    BY Fields DEF All
  <2>3. Become(r, d)
    BY <1>3
  <2>4. a \in Call /\ a.at = "list" /\ a.known = call[r].known /\ a.trialed = call[r].trialed
    BY <1>1, SetAt DEF Places
  <2> HIDE DEF a
  <2>5. /\ b \in Call /\ b.at = "list" /\ b.known = call[r].known
        /\ b.trialed = call[r].trialed /\ b.row = i
    BY <2>1, <2>4, SetRow
  <2> HIDE DEF b
  <2>6. /\ d \in Call /\ d.at = "list" /\ d.known = call[r].known
        /\ d.trialed = call[r].trialed /\ d.row = i /\ d.sub = rows[i].sub
    BY <2>1, <2>5, SetSub
  <2> HIDE DEF d
  <2> QED BY <2>3, <2>6, BecomeDoes
<1>4. \/ \E i \in All :
          /\ rows[i].sub # None
          /\ Become(r, [call[r] EXCEPT !.at = "list", !.sub = rows[i].sub,
                                       !.row = IF LiveRow(i) THEN i ELSE NoId])
      \/ live \cup spare = {} /\ Goto(r, "list")
      \/ \E i \in (IF live # {} THEN live ELSE spare) :
           Become(r, [call[r] EXCEPT !.at = "list", !.row = i, !.sub = rows[i].sub])
  BY DEF Review
<1>5. CASE \E i \in All :
          /\ rows[i].sub # None
          /\ Become(r, [call[r] EXCEPT !.at = "list", !.sub = rows[i].sub,
                                       !.row = IF LiveRow(i) THEN i ELSE NoId])
  BY <1>1, <1>2, <1>5
<1>6. CASE live \cup spare = {} /\ Goto(r, "list")
  <2>1. Went(r, "list")
    BY <1>6, GotoDoes DEF Places
  <2>2. \A i \in All : ~LiveRow(i)
    BY <1>6
  <2> QED BY <1>1, <2>1, <2>2 DEF Went
<1>7. CASE \E i \in (IF live # {} THEN live ELSE spare) :
             Become(r, [call[r] EXCEPT !.at = "list", !.row = i, !.sub = rows[i].sub])
  <2>1. PICK i \in (IF live # {} THEN live ELSE spare) :
             Become(r, [call[r] EXCEPT !.at = "list", !.row = i, !.sub = rows[i].sub])
    BY <1>7
  <2>2. i \in All /\ (LiveRow(i) \/ \A j \in All : ~LiveRow(j))
    BY <2>1
  <2> QED BY <1>1, <1>3, <2>1, <2>2
<1> QED BY <1>4, <1>5, <1>6, <1>7

LEMMA ListDoes ==
  ASSUME ConstantsOK, TypeOK, NEW r \in Requests, List(r)
  PROVE  /\ call[r].at = "list" /\ Quietly
         /\ \/ Went(r, "match") /\ LiveSub(call[r].sub) /\ call[r].sub \in Subs
            \/ Ended(r)
            \/ Went(r, "reserve") /\ call[r].sub \notin LiveSubs
  BY GotoDoes, EndDoes DEF List, At, Places, LiveSubs

LEMMA MatchDoes ==
  ASSUME ConstantsOK, TypeOK, NEW r \in Requests, Match(r)
  PROVE  /\ call[r].at = "match" /\ Quietly
         /\ \/ Went(r, "adopt") /\ Linked(call[r].sub) = {} /\ call[r].row # NoId
            \/ Ended(r)
  BY GotoDoes, EndDoes DEF Match, At, Places

\* The row i, if it is there, becomes v.
Rewritten(i, v) ==
  /\ rows' \in [RowIds -> Row]
  /\ \A j \in RowIds : rows'[j] = IF j = i /\ Exists(i) THEN v ELSE rows[j]

LEMMA PatchDoes ==
  ASSUME TypeOK, NEW i, NEW v, i \in RowIds => v \in Row, Patch(i, v)
  PROVE  Rewritten(i, v)
<1>1. CASE i \in RowIds
  BY <1>1 DEF Patch, TypeOK, Rewritten
<1>2. CASE i \notin RowIds
  BY <1>2 DEF Patch, TypeOK, Rewritten
<1> QED BY <1>1, <1>2

\* One field of a row is set.
LEMMA RowFields ==
  ASSUME NEW w \in Row
  PROVE  /\ \A v \in Subs \cup {None} :
              LET d == [w EXCEPT !.sub = v] IN
              /\ d \in Row /\ d.sub = v
              /\ d.status = w.status /\ d.trial = w.trial /\ d.pending = w.pending
         /\ \A v \in BOOLEAN :
              LET d == [w EXCEPT !.pending = v] IN
              /\ d \in Row /\ d.pending = v
              /\ d.status = w.status /\ d.trial = w.trial /\ d.sub = w.sub
  BY DEF Row

LEMMA AdoptDoes ==
  ASSUME ConstantsOK, TypeOK, NEW r \in Requests, Adopt(r)
  PROVE  /\ call[r].at = "adopt" /\ Ended(r) /\ RowsAlone
         /\ Rewritten(call[r].row, [rows[call[r].row] EXCEPT !.sub = call[r].sub])
<1>1. call[r].sub \in Subs \cup {None}
  BY Fields
<1>2. call[r].row \in RowIds =>
        [rows[call[r].row] EXCEPT !.sub = call[r].sub] \in Row
  BY <1>1, RowFields DEF TypeOK
<1> QED BY <1>2, PatchDoes, EndDoes DEF Adopt, At

LEMMA ReserveDoes ==
  ASSUME ConstantsOK, TypeOK, NEW r \in Requests, Reserve(r)
  PROVE  /\ call[r].at = "reserve" /\ RowsAlone
         /\ \/ call[r].row # NoId /\ Went(r, "judge") /\ UNCHANGED rows
            \/ /\ call[r].row = NoId /\ Moved(r)
               /\ call'[r].at = "judge" /\ call'[r].row = <<"upgrade", r>>
               /\ call'[r].sub = call[r].sub /\ call'[r].known = call[r].known
               /\ call'[r].trialed = call[r].trialed
               /\ rows' \in [RowIds -> Row]
               /\ \A j \in RowIds : j # <<"upgrade", r>> => rows'[j] = rows[j]
               /\ rows'[<<"upgrade", r>>].status = "incomplete"
               /\ rows'[<<"upgrade", r>>].sub = None /\ ~rows'[<<"upgrade", r>>].trial
<1>1. call[r].at = "reserve" /\ RowsAlone /\ call[r] \in Call
  BY DEF Reserve, At, TypeOK
<1>2. CASE call[r].row # NoId
  BY <1>1, <1>2, GotoDoes DEF Reserve, Places
<1>3. CASE call[r].row = NoId
  <2> DEFINE a == [call[r] EXCEPT !.at = "judge"]
             d == [a EXCEPT !.row = <<"upgrade", r>>]
             v == [NoRow EXCEPT !.status = "incomplete"]
  <2>1. <<"upgrade", r>> \in RowIds /\ NoRow \in Row
    BY Ids
  <2>2. Become(r, d)
    BY <1>3 DEF Reserve
  <2>3. rows' = [rows EXCEPT ![<<"upgrade", r>>] = v]
    BY <1>3 DEF Reserve
  <2>4. /\ a \in Call /\ a.at = "judge" /\ a.sub = call[r].sub /\ a.known = call[r].known
        /\ a.trialed = call[r].trialed
    BY <1>1, SetAt DEF Places
  <2> HIDE DEF a
  <2>5. /\ d \in Call /\ d.at = "judge" /\ d.sub = call[r].sub /\ d.known = call[r].known
        /\ d.trialed = call[r].trialed /\ d.row = <<"upgrade", r>>
    BY <2>1, <2>4, SetRow
  <2> HIDE DEF d
  <2>6. v \in Row /\ v.status = "incomplete" /\ v.sub = None /\ ~v.trial
    BY <2>1, NotRows DEF Row
  <2> HIDE DEF v
  <2>7. /\ rows' \in [RowIds -> Row] /\ rows'[<<"upgrade", r>>] = v
        /\ \A j \in RowIds : j # <<"upgrade", r>> => rows'[j] = rows[j]
    BY <2>1, <2>3, <2>6 DEF TypeOK
  <2>8. Moved(r) /\ call'[r] = d
    BY <2>2, <2>5, BecomeDoes
  <2> QED BY <1>1, <1>3, <2>5, <2>6, <2>7, <2>8
<1> QED BY <1>2, <1>3

LEMMA JudgeDoes ==
  ASSUME ConstantsOK, TypeOK, NEW r \in Requests, Judge(r)
  PROVE  /\ call[r].at = "judge" /\ Quietly /\ Moved(r)
         /\ call'[r].at = "open" /\ call'[r].row = call[r].row /\ call'[r].sub = call[r].sub
         /\ call'[r].known = call[r].known /\ call'[r].trialed = call[r].trialed
         /\ call'[r].trial = \A i \in All : ~rows[i].trial /\ rows[i].status # "trialing"
<1> DEFINE t == \A i \in All : ~rows[i].trial /\ rows[i].status # "trialing"
           a == [call[r] EXCEPT !.at = "open"]
           d == [a EXCEPT !.trial = t]
<1>1. call[r].at = "judge" /\ Quietly /\ call[r] \in Call
  BY DEF Judge, At, TypeOK
<1>2. Become(r, d)
  BY DEF Judge
<1>3. t \in BOOLEAN
  OBVIOUS
<1> HIDE DEF t
<1>4. /\ a \in Call /\ a.at = "open" /\ a.row = call[r].row /\ a.sub = call[r].sub
      /\ a.known = call[r].known /\ a.trialed = call[r].trialed
  BY <1>1, SetAt DEF Places
<1> HIDE DEF a
<1>5. /\ d \in Call /\ d.at = "open" /\ d.row = call[r].row /\ d.sub = call[r].sub
      /\ d.known = call[r].known /\ d.trialed = call[r].trialed /\ d.trial = t
  BY <1>3, <1>4, SetTrial
<1> HIDE DEF d
<1>6. Moved(r) /\ call'[r] = d
  BY <1>2, <1>5, BecomeDoes
<1> QED BY <1>1, <1>5, <1>6 DEF t

\* Only what Stripe has of s changed, and not its home.
StripeMoved(s) ==
  /\ stripe' \in [Subs -> Sub]
  /\ \A q \in Subs : q # s => stripe'[q] = stripe[q]

LEMMA OpenDoes ==
  ASSUME ConstantsOK, TypeOK, NEW r \in Requests, Open(r)
  PROVE  /\ call[r].at = "open" /\ Ended(r) /\ StripeMoved(r)
         /\ UNCHANGED <<deploy, rows, events, hook, changes, harm>>
         /\ stripe'[r].status = "open" /\ stripe'[r].home = call[r].row
         /\ stripe'[r].trial = call[r].trial /\ stripe'[r].pending = stripe[r].pending
<1> DEFINE w == stripe[r]
           a == [w EXCEPT !.status = "open"]
           b == [a EXCEPT !.home = call[r].row]
           d == [b EXCEPT !.trial = call[r].trial]
<1>1. r \in Subs /\ w \in Sub /\ stripe \in [Subs -> Sub]
  BY Ids DEF TypeOK
<1>2. call[r].row \in RowIds \cup {NoId} /\ call[r].trial \in BOOLEAN
  BY Fields
<1>3. stripe' = [stripe EXCEPT ![r].status = "open", ![r].home = call[r].row,
                              ![r].trial = call[r].trial]
  BY DEF Open
<1> DEFINE A == [stripe EXCEPT ![r].status = "open"]
           B == [A EXCEPT ![r].home = call[r].row]
           D == [B EXCEPT ![r].trial = call[r].trial]
<1>4. stripe' = D
  BY <1>3
<1>5. a \in Sub /\ a.status = "open" /\ a.pending = w.pending
  BY <1>1 DEF Sub
<1>6. A = [stripe EXCEPT ![r] = a]
  OBVIOUS
<1>7. A \in [Subs -> Sub] /\ A[r] = a /\ \A q \in Subs : q # r => A[q] = stripe[q]
  BY <1>1, <1>5, <1>6
<1> HIDE DEF a, A, w
<1>8. b \in Sub /\ b.status = "open" /\ b.pending = w.pending /\ b.home = call[r].row
  BY <1>2, <1>5 DEF Sub
<1>9. B = [A EXCEPT ![r] = b]
  BY <1>7
<1>10. B \in [Subs -> Sub] /\ B[r] = b /\ \A q \in Subs : q # r => B[q] = stripe[q]
  BY <1>1, <1>7, <1>8, <1>9
<1> HIDE DEF b, B
<1>11. /\ d \in Sub /\ d.status = "open" /\ d.pending = w.pending /\ d.home = call[r].row
       /\ d.trial = call[r].trial
  BY <1>2, <1>8 DEF Sub
<1>12. D = [B EXCEPT ![r] = d]
  BY <1>10
<1>13. D \in [Subs -> Sub] /\ D[r] = d /\ \A q \in Subs : q # r => D[q] = stripe[q]
  BY <1>1, <1>10, <1>11, <1>12
<1> HIDE DEF d, D
<1>14. Ended(r) /\ call[r].at = "open" /\ UNCHANGED <<deploy, rows, events, hook, changes, harm>>
  BY EndDoes DEF Open, At
<1> QED BY <1>4, <1>11, <1>13, <1>14 DEF StripeMoved, w

LEMMA LookDoes ==
  ASSUME ConstantsOK, TypeOK, InHand, NEW r \in Requests, Look(r)
  PROVE  /\ call[r].at = "look" /\ Quietly
         /\ \/ Ended(r)
            \/ /\ Moved(r) /\ call'[r].at = "fetch" /\ call'[r].sub = call[r].sub
               /\ call'[r].row = stripe[call[r].sub].home /\ Exists(call'[r].row)
               /\ call'[r].known = call[r].known /\ call'[r].trialed = call[r].trialed
<1> DEFINE i == stripe[call[r].sub].home
<1>1. call[r].at = "look" /\ Quietly /\ call[r] \in Call /\ call[r].sub \in Subs
  BY DEF Look, At, TypeOK, InHand, CallHand, Subs
<1>2. CASE End(r)
  BY <1>1, <1>2, EndDoes
<1>3. CASE Exists(i) /\ Become(r, [call[r] EXCEPT !.at = "fetch", !.row = i])
  <2> DEFINE a == [call[r] EXCEPT !.at = "fetch"]
             d == [a EXCEPT !.row = i]
  <2>1. i \in RowIds \cup {NoId}
    BY <1>1, Fields
  <2>2. Become(r, d)
    BY <1>3
  <2>3. /\ a \in Call /\ a.at = "fetch" /\ a.sub = call[r].sub /\ a.known = call[r].known
        /\ a.trialed = call[r].trialed
    BY <1>1, SetAt DEF Places
  <2> HIDE DEF a
  <2>4. /\ d \in Call /\ d.at = "fetch" /\ d.sub = call[r].sub /\ d.known = call[r].known
        /\ d.trialed = call[r].trialed /\ d.row = i
    BY <2>1, <2>3, SetRow
  <2> HIDE DEF d
  <2> QED BY <1>1, <1>3, <2>2, <2>4, BecomeDoes
<1> QED BY <1>2, <1>3 DEF Look

LEMMA FetchDoes ==
  ASSUME ConstantsOK, TypeOK, InHand, NEW r \in Requests, Fetch(r)
  PROVE  /\ call[r].at = "fetch" /\ Quietly /\ Moved(r)
         /\ call'[r].at = "activate" /\ call'[r].sub = call[r].sub
         /\ call'[r].row = call[r].row
         /\ call'[r].status = stripe[call[r].sub].status
         /\ call'[r].pending = stripe[call[r].sub].pending
         /\ call'[r].known = call[r].known /\ call'[r].trialed = call[r].trialed
<1> DEFINE w == stripe[call[r].sub]
           a == [call[r] EXCEPT !.at = "activate"]
           b == [a EXCEPT !.status = w.status]
           d == [b EXCEPT !.pending = w.pending]
<1>1. call[r].at = "fetch" /\ Quietly /\ call[r] \in Call
  BY DEF Fetch, At, TypeOK
<1>2. call[r].sub \in Subs /\ Born(call[r].sub) /\ None \notin Subs
  BY <1>1, Ids DEF InHand, CallHand, Subs
<1>3. w.status \in BornStatus /\ w.pending \in BOOLEAN
  BY <1>2, Fields DEF Born
<1>4. Become(r, d)
  BY DEF Fetch
<1> HIDE DEF w
<1>5. /\ a \in Call /\ a.at = "activate" /\ a.sub = call[r].sub /\ a.row = call[r].row
      /\ a.known = call[r].known /\ a.trialed = call[r].trialed
  BY <1>1, SetAt DEF Places
<1> HIDE DEF a
<1>6. /\ b \in Call /\ b.at = "activate" /\ b.sub = call[r].sub /\ b.row = call[r].row
      /\ b.known = call[r].known /\ b.trialed = call[r].trialed /\ b.status = w.status
  BY <1>3, <1>5, SetStatus
<1> HIDE DEF b
<1>7. /\ d \in Call /\ d.at = "activate" /\ d.sub = call[r].sub /\ d.row = call[r].row
      /\ d.known = call[r].known /\ d.trialed = call[r].trialed /\ d.status = w.status
      /\ d.pending = w.pending
  BY <1>3, <1>6, SetPending
<1> HIDE DEF d
<1>8. Moved(r) /\ call'[r] = d
  BY <1>4, <1>7, BecomeDoes
<1> QED BY <1>1, <1>7, <1>8 DEF w

LEMMA ActivateDoes ==
  ASSUME ConstantsOK, TypeOK, InHand, NEW r \in Requests, Activate(r)
  PROVE  /\ call[r].at = "activate" /\ Ended(r)
         /\ UNCHANGED <<deploy, stripe, events, hook, changes>>
         /\ harm' = harm \cup IF Exists(call[r].row) /\ Owed(call[r].row) \ {call[r].sub} # {}
                             THEN {"taken"} ELSE {}
         /\ \E v \in Row :
              /\ Rewritten(call[r].row, v)
              /\ v.status = call[r].status /\ v.sub = call[r].sub
              /\ v.pending = call[r].pending
              /\ v.trial = (rows[call[r].row].trial \/ stripe[call[r].sub].trial)
<1> DEFINE i == call[r].row
           v == [status |-> call[r].status, sub |-> call[r].sub, pending |-> call[r].pending,
                 trial |-> rows[i].trial \/ stripe[call[r].sub].trial]
<1>1. call[r].at = "activate" /\ UNCHANGED <<deploy, stripe, events, hook, changes>>
  BY DEF Activate, At
<1>2. i \in RowIds /\ call[r].sub \in Subs /\ call[r].pending \in BOOLEAN
  BY <1>1, Fields, Ids DEF InHand, CallHand
<1>3. rows[i].trial \in BOOLEAN /\ stripe[call[r].sub].trial \in BOOLEAN
  BY <1>2, Fields
<1>4. call[r].status \in BornStatus \cup {None}
  BY Fields
<1>5. v \in Row
  BY <1>2, <1>3, <1>4 DEF Row, None
<1>6. Patch(i, v)
  BY DEF Activate
<1>7. Rewritten(i, v)
  BY <1>5, <1>6, PatchDoes
<1>8. /\ v.status = call[r].status /\ v.sub = call[r].sub /\ v.pending = call[r].pending
      /\ v.trial = (rows[i].trial \/ stripe[call[r].sub].trial)
  OBVIOUS
<1>9. harm' = harm \cup IF Exists(i) /\ Owed(i) \ {call[r].sub} # {} THEN {"taken"} ELSE {}
  BY DEF Activate
<1>10. Ended(r)
  BY EndDoes DEF Activate
<1> HIDE DEF v
<1> QED BY <1>1, <1>5, <1>7, <1>8, <1>9, <1>10

LEMMA FindDoes ==
  ASSUME ConstantsOK, TypeOK, NEW r \in Requests, Find(r)
  PROVE  /\ call[r].at = "find" /\ Quietly
         /\ \/ Ended(r)
            \/ \E i \in All :
                 /\ rows[i].sub # None
                 /\ Moved(r) /\ call'[r].at = "check" /\ call'[r].row = i
                 /\ call'[r].sub = rows[i].sub
                 /\ call'[r].known = call[r].known /\ call'[r].trialed = call[r].trialed
<1>1. call[r].at = "find" /\ Quietly /\ call[r] \in Call
  BY DEF Find, At, TypeOK
<1>2. CASE End(r)
  BY <1>1, <1>2, EndDoes
<1>3. ASSUME NEW i \in All, rows[i].sub # None,
             Become(r, [call[r] EXCEPT !.at = "check", !.row = i, !.sub = rows[i].sub,
                                       !.pending = rows[i].pending])
      PROVE  /\ Moved(r) /\ call'[r].at = "check" /\ call'[r].row = i
             /\ call'[r].sub = rows[i].sub
             /\ call'[r].known = call[r].known /\ call'[r].trialed = call[r].trialed
  <2> DEFINE a == [call[r] EXCEPT !.at = "check"]
             b == [a EXCEPT !.row = i]
             c == [b EXCEPT !.sub = rows[i].sub]
             d == [c EXCEPT !.pending = rows[i].pending]
  <2>1. /\ i \in RowIds /\ rows[i].sub \in Subs \cup {None}
        /\ rows[i].pending \in BOOLEAN
    BY Fields DEF All
  <2>2. Become(r, d)
    BY <1>3
  <2>3. a \in Call /\ a.at = "check" /\ a.known = call[r].known /\ a.trialed = call[r].trialed
    BY <1>1, SetAt DEF Places
  <2> HIDE DEF a
  <2>4. /\ b \in Call /\ b.at = "check" /\ b.known = call[r].known
        /\ b.trialed = call[r].trialed /\ b.row = i
    BY <2>1, <2>3, SetRow
  <2> HIDE DEF b
  <2>5. /\ c \in Call /\ c.at = "check" /\ c.known = call[r].known
        /\ c.trialed = call[r].trialed /\ c.row = i /\ c.sub = rows[i].sub
    BY <2>1, <2>4, SetSub
  <2> HIDE DEF c
  <2>6. /\ d \in Call /\ d.at = "check" /\ d.known = call[r].known
        /\ d.trialed = call[r].trialed /\ d.row = i /\ d.sub = rows[i].sub
    BY <2>1, <2>5, SetPending
  <2> HIDE DEF d
  <2> QED BY <2>2, <2>6, BecomeDoes
<1>4. \/ End(r)
      \/ \E i \in {i \in All : rows[i].sub # None} :
           Become(r, [call[r] EXCEPT !.at = "check", !.row = i, !.sub = rows[i].sub,
                                     !.pending = rows[i].pending])
  BY DEF Find
<1> QED BY <1>1, <1>2, <1>3, <1>4

LEMMA CheckDoes ==
  ASSUME ConstantsOK, TypeOK, NEW r \in Requests, Check(r)
  PROVE  /\ call[r].at = "check" /\ Quietly
         /\ Went(r, "remove") \/ Went(r, "resync") \/ Ended(r)
  BY GotoDoes, EndDoes DEF Check, At, Places

LEMMA RemoveDoes ==
  ASSUME ConstantsOK, TypeOK, InHand, NEW r \in Requests, Remove(r)
  PROVE  /\ call[r].at = "remove" /\ Ended(r)
         /\ UNCHANGED <<deploy, stripe, events, hook, changes>>
         /\ harm' = harm \cup IF Exists(call[r].row) /\ Needed(call[r].row)
                             THEN {"deleted"} ELSE {}
         /\ call[r].row \in RowIds /\ rows' \in [RowIds -> Row]
         /\ rows'[call[r].row] = Deleted
         /\ \A j \in RowIds : j # call[r].row => rows'[j] = rows[j]
<1>1. call[r].at = "remove" /\ UNCHANGED <<deploy, stripe, events, hook, changes>>
  BY DEF Remove, At
<1>2. call[r].row \in RowIds
  BY <1>1, Fields DEF InHand, CallHand
<1>3. rows' = [rows EXCEPT ![call[r].row] = Deleted]
  BY DEF Remove
<1> QED BY <1>1, <1>2, <1>3, Ids, EndDoes DEF Remove, TypeOK

LEMMA ResyncDoes ==
  ASSUME ConstantsOK, TypeOK, InHand, NEW r \in Requests, Resync(r)
  PROVE  /\ call[r].at = "resync" /\ Quietly /\ Moved(r)
         /\ call'[r].at = "sync" /\ call'[r].row = call[r].row /\ call'[r].sub = call[r].sub
         /\ call'[r].pending = stripe[call[r].sub].pending
         /\ call'[r].known = call[r].known /\ call'[r].trialed = call[r].trialed
<1> DEFINE v == stripe[call[r].sub].pending
           a == [call[r] EXCEPT !.at = "sync"]
           d == [a EXCEPT !.pending = v]
<1>1. call[r].at = "resync" /\ Quietly /\ call[r] \in Call
  BY DEF Resync, At, TypeOK
<1>2. call[r].sub \in Subs
  BY <1>1, Fields DEF InHand, CallHand
<1>3. v \in BOOLEAN
  BY <1>2, Fields
<1>4. Become(r, d)
  BY DEF Resync
<1> HIDE DEF v
<1>5. /\ a \in Call /\ a.at = "sync" /\ a.sub = call[r].sub /\ a.row = call[r].row
      /\ a.known = call[r].known /\ a.trialed = call[r].trialed
  BY <1>1, SetAt DEF Places
<1> HIDE DEF a
<1>6. /\ d \in Call /\ d.at = "sync" /\ d.sub = call[r].sub /\ d.row = call[r].row
      /\ d.known = call[r].known /\ d.trialed = call[r].trialed /\ d.pending = v
  BY <1>3, <1>5, SetPending
<1> HIDE DEF d
<1>7. Moved(r) /\ call'[r] = d
  BY <1>4, <1>6, BecomeDoes
<1> QED BY <1>1, <1>6, <1>7 DEF v

\* The row in hand gets the pending end p.
PendingSet(i, p) ==
  \E v \in Row :
    /\ Rewritten(i, v)
    /\ v.status = rows[i].status /\ v.sub = rows[i].sub /\ v.trial = rows[i].trial
    /\ v.pending = p

LEMMA PendingDoes ==
  ASSUME ConstantsOK, TypeOK, NEW i \in RowIds, NEW p \in BOOLEAN,
         Patch(i, [rows[i] EXCEPT !.pending = p])
  PROVE  PendingSet(i, p)
<1> DEFINE v == [rows[i] EXCEPT !.pending = p]
<1>1. rows[i] \in Row
  BY DEF TypeOK
<1>2. /\ v \in Row /\ v.pending = p
      /\ v.status = rows[i].status /\ v.trial = rows[i].trial /\ v.sub = rows[i].sub
  BY <1>1, RowFields
<1>3. Patch(i, v)
  OBVIOUS
<1> HIDE DEF v
<1> QED BY <1>2, <1>3, PatchDoes DEF PendingSet

LEMMA SyncDoes ==
  ASSUME ConstantsOK, TypeOK, InHand, NEW r \in Requests, Sync(r)
  PROVE  /\ call[r].at = "sync" /\ Ended(r) /\ RowsAlone /\ call[r].row \in RowIds
         /\ PendingSet(call[r].row, call[r].pending)
<1>1. call[r].at = "sync" /\ RowsAlone /\ Ended(r)
  BY EndDoes DEF Sync, At
<1>2. call[r].row \in RowIds /\ call[r].pending \in BOOLEAN
  BY <1>1, Fields DEF InHand, CallHand
<1> QED BY <1>1, <1>2, PendingDoes DEF Sync

LEMMA RestoreDoes ==
  ASSUME ConstantsOK, TypeOK, NEW r \in Requests, Restore(r)
  PROVE  /\ call[r].at = "restore" /\ Quietly
         /\ \/ Ended(r)
            \/ \E i \in All :
                 /\ LiveRow(i)
                 /\ Moved(r) /\ call'[r].at = "revive" /\ call'[r].row = i
                 /\ call'[r].sub = rows[i].sub
                 /\ call'[r].known = call[r].known /\ call'[r].trialed = call[r].trialed
<1>1. call[r].at = "restore" /\ Quietly /\ call[r] \in Call
  BY DEF Restore, At, TypeOK
<1>2. CASE End(r)
  BY <1>1, <1>2, EndDoes
<1>3. ASSUME NEW i \in All,
             Become(r, [call[r] EXCEPT !.at = "revive", !.row = i, !.sub = rows[i].sub])
      PROVE  /\ Moved(r) /\ call'[r].at = "revive" /\ call'[r].row = i
             /\ call'[r].sub = rows[i].sub
             /\ call'[r].known = call[r].known /\ call'[r].trialed = call[r].trialed
  <2> DEFINE a == [call[r] EXCEPT !.at = "revive"]
             b == [a EXCEPT !.row = i]
             c == [b EXCEPT !.sub = rows[i].sub]
  <2>1. i \in RowIds /\ rows[i].sub \in Subs \cup {None}
    BY Fields DEF All
  <2>2. Become(r, c)
    BY <1>3
  <2>3. a \in Call /\ a.at = "revive" /\ a.known = call[r].known /\ a.trialed = call[r].trialed
    BY <1>1, SetAt DEF Places
  <2> HIDE DEF a
  <2>4. /\ b \in Call /\ b.at = "revive" /\ b.known = call[r].known
        /\ b.trialed = call[r].trialed /\ b.row = i
    BY <2>1, <2>3, SetRow
  <2> HIDE DEF b
  <2>5. /\ c \in Call /\ c.at = "revive" /\ c.known = call[r].known
        /\ c.trialed = call[r].trialed /\ c.row = i /\ c.sub = rows[i].sub
    BY <2>1, <2>4, SetSub
  <2> HIDE DEF c
  <2> QED BY <2>2, <2>5, BecomeDoes
<1>4. \/ End(r)
      \/ \E i \in {i \in All : LiveRow(i) /\ rows[i].pending} :
           Become(r, [call[r] EXCEPT !.at = "revive", !.row = i, !.sub = rows[i].sub])
  BY DEF Restore
<1> QED BY <1>1, <1>2, <1>3, <1>4

LEMMA ReviveDoes ==
  ASSUME ConstantsOK, TypeOK, InHand, NEW r \in Requests, Revive(r)
  PROVE  /\ call[r].at = "revive" /\ Quietly
         /\ \/ Ended(r)
            \/ /\ LiveSub(call[r].sub)
               /\ Moved(r) /\ call'[r].at = "renew" /\ call'[r].row = call[r].row
               /\ call'[r].sub = call[r].sub
               /\ call'[r].pending = stripe[call[r].sub].pending
               /\ call'[r].known = call[r].known /\ call'[r].trialed = call[r].trialed
<1> DEFINE v == stripe[call[r].sub].pending
           a == [call[r] EXCEPT !.at = "renew"]
           d == [a EXCEPT !.pending = v]
<1>1. call[r].at = "revive" /\ Quietly /\ call[r] \in Call
  BY DEF Revive, At, TypeOK
<1>2. call[r].sub \in Subs
  BY <1>1, Fields DEF InHand, CallHand
<1>3. v \in BOOLEAN
  BY <1>2, Fields
<1>4. End(r) \/ (LiveSub(call[r].sub) /\ Become(r, d))
  BY DEF Revive
<1> HIDE DEF v
<1>5. /\ a \in Call /\ a.at = "renew" /\ a.sub = call[r].sub /\ a.row = call[r].row
      /\ a.known = call[r].known /\ a.trialed = call[r].trialed
  BY <1>1, SetAt DEF Places
<1> HIDE DEF a
<1>6. /\ d \in Call /\ d.at = "renew" /\ d.sub = call[r].sub /\ d.row = call[r].row
      /\ d.known = call[r].known /\ d.trialed = call[r].trialed /\ d.pending = v
  BY <1>3, <1>5, SetPending
<1> HIDE DEF d
<1>7. CASE End(r)
  BY <1>1, <1>7, EndDoes
<1>8. CASE LiveSub(call[r].sub) /\ Become(r, d)
  <2>1. Moved(r) /\ call'[r] = d
    BY <1>6, <1>8, BecomeDoes
  <2> QED BY <1>1, <1>6, <1>8, <2>1 DEF v
<1> QED BY <1>4, <1>7, <1>8

\* Stripe has another event to tell, about s, as s is now.
Told(kind, s) ==
  /\ events' \in Seq(Event) /\ Len(events') = Len(events) + 1
  /\ \A j \in 1..Len(events) : events'[j] = events[j]
  /\ LET e == events'[Len(events) + 1] IN
     /\ e.kind = kind /\ e.sub = s
     /\ e.status = stripe'[s].status /\ e.pending = stripe'[s].pending

LEMMA TellDoes ==
  ASSUME stripe' \in [Subs -> Sub], NEW s \in Subs, stripe'[s].status \in BornStatus,
         NEW kind \in {"completed", "created", "updated", "deleted"}
  PROVE  /\ Tell(kind, s) \in Event
         /\ Tell(kind, s).kind = kind /\ Tell(kind, s).sub = s
         /\ Tell(kind, s).status = stripe'[s].status
         /\ Tell(kind, s).pending = stripe'[s].pending
<1>1. stripe'[s].pending \in BOOLEAN
  BY DEF Sub
<1> QED BY <1>1 DEF Tell, Event

LEMMA ToldDoes ==
  ASSUME TypeOK, stripe' \in [Subs -> Sub], NEW s \in Subs, stripe'[s].status \in BornStatus,
         NEW kind \in {"completed", "created", "updated", "deleted"},
         events' = Append(events, Tell(kind, s))
  PROVE  Told(kind, s)
<1> DEFINE e == Tell(kind, s)
<1>1. /\ e \in Event /\ e.kind = kind /\ e.sub = s
      /\ e.status = stripe'[s].status /\ e.pending = stripe'[s].pending
  BY TellDoes
<1>2. events \in Seq(Event)
  BY DEF TypeOK
<1>3. events' = Append(events, e)
  OBVIOUS
<1> HIDE DEF e
<1>4. /\ events' \in Seq(Event) /\ Len(events') = Len(events) + 1
      /\ \A j \in 1..Len(events) : events'[j] = events[j]
      /\ events'[Len(events) + 1] = e
  BY <1>1, <1>2, <1>3
<1> QED BY <1>1, <1>4 DEF Told

LEMMA SubFields ==
  ASSUME NEW w \in Sub
  PROVE  /\ \A v \in {"none", "open"} \cup BornStatus :
              LET d == [w EXCEPT !.status = v] IN
              /\ d \in Sub /\ d.status = v
              /\ d.home = w.home /\ d.trial = w.trial /\ d.pending = w.pending
         /\ \A v \in BOOLEAN :
              LET d == [w EXCEPT !.pending = v] IN
              /\ d \in Sub /\ d.pending = v
              /\ d.home = w.home /\ d.trial = w.trial /\ d.status = w.status
  BY DEF Sub

\* Of what Stripe has of s, the status changed, or the pending end.
StatusSet(s, v) ==
  /\ StripeMoved(s)
  /\ stripe'[s].status = v /\ stripe'[s].pending = stripe[s].pending
  /\ stripe'[s].home = stripe[s].home /\ stripe'[s].trial = stripe[s].trial
EndSet(s, v) ==
  /\ StripeMoved(s)
  /\ stripe'[s].pending = v /\ stripe'[s].status = stripe[s].status
  /\ stripe'[s].home = stripe[s].home /\ stripe'[s].trial = stripe[s].trial

LEMMA StatusDoes ==
  ASSUME TypeOK, NEW s \in Subs, NEW v \in {"none", "open"} \cup BornStatus,
         stripe' = [stripe EXCEPT ![s].status = v]
  PROVE  StatusSet(s, v)
<1> DEFINE w == stripe[s]
           d == [w EXCEPT !.status = v]
<1>1. w \in Sub
  BY DEF TypeOK
<1>2. /\ d \in Sub /\ d.status = v
      /\ d.home = w.home /\ d.trial = w.trial /\ d.pending = w.pending
  BY <1>1, SubFields
<1>3. stripe' = [stripe EXCEPT ![s] = d]
  OBVIOUS
<1> HIDE DEF d
<1> QED BY <1>2, <1>3 DEF StatusSet, StripeMoved, TypeOK

LEMMA EndSetDoes ==
  ASSUME TypeOK, NEW s \in Subs, NEW v \in BOOLEAN,
         stripe' = [stripe EXCEPT ![s].pending = v]
  PROVE  EndSet(s, v)
<1> DEFINE w == stripe[s]
           d == [w EXCEPT !.pending = v]
<1>1. w \in Sub
  BY DEF TypeOK
<1>2. /\ d \in Sub /\ d.pending = v
      /\ d.home = w.home /\ d.trial = w.trial /\ d.status = w.status
  BY <1>1, SubFields
<1>3. stripe' = [stripe EXCEPT ![s] = d]
  OBVIOUS
<1> HIDE DEF d
<1> QED BY <1>2, <1>3 DEF EndSet, StripeMoved, TypeOK

LEMMA RenewDoes ==
  ASSUME ConstantsOK, TypeOK, InHand, NEW r \in Requests, Renew(r)
  PROVE  /\ call[r].at = "renew" /\ Went(r, "clear") /\ call[r].sub \in Subs
         /\ UNCHANGED <<deploy, rows, hook, changes, harm>>
         /\ \/ /\ EndSet(call[r].sub, FALSE) /\ Told("updated", call[r].sub)
               /\ call[r].pending /\ stripe[call[r].sub].pending
            \/ /\ UNCHANGED <<stripe, events>>
               /\ ~(call[r].pending /\ stripe[call[r].sub].pending)
<1> DEFINE s == call[r].sub
           clears == call[r].pending /\ stripe[s].pending
<1>1. /\ call[r].at = "renew" /\ Went(r, "clear")
      /\ UNCHANGED <<deploy, rows, hook, changes, harm>>
  BY GotoDoes DEF Renew, At, Places
<1>2. s \in Subs /\ Born(s)
  BY <1>1, Fields DEF InHand, CallHand
<1>3. stripe' = [stripe EXCEPT ![s].pending = @ /\ ~clears]
  BY DEF Renew
<1>4. events' = IF clears THEN Append(events, Tell("updated", s)) ELSE events
  BY DEF Renew
<1>5. stripe[s] \in Sub /\ stripe \in [Subs -> Sub] /\ stripe[s].pending \in BOOLEAN
  BY <1>2, Fields DEF TypeOK
<1>6. CASE clears
  <2>1. stripe' = [stripe EXCEPT ![s].pending = FALSE]
    BY <1>2, <1>3, <1>5, <1>6
  <2>2. EndSet(s, FALSE)
    BY <1>2, <2>1, EndSetDoes
  <2>3. stripe' \in [Subs -> Sub] /\ stripe'[s].status \in BornStatus
    BY <1>2, <2>2 DEF EndSet, StripeMoved, Born
  <2>4. events' = Append(events, Tell("updated", s))
    BY <1>4, <1>6
  <2>5. Told("updated", s)
    BY <1>2, <2>3, <2>4, ToldDoes
  <2> QED BY <1>1, <1>2, <1>6, <2>2, <2>5
<1>7. CASE ~clears
  <2>1. stripe' = [stripe EXCEPT ![s].pending = stripe[s].pending]
    BY <1>2, <1>3, <1>5, <1>7
  <2>2. stripe'[s] = stripe[s]
    BY <1>2, <1>5, <2>1 DEF Sub
  <2>3. stripe' = stripe
    BY <1>2, <1>5, <2>1, <2>2
  <2> QED BY <1>1, <1>2, <1>4, <1>7, <2>3
<1> QED BY <1>6, <1>7

LEMMA ClearRowDoes ==
  ASSUME ConstantsOK, TypeOK, InHand, NEW r \in Requests, ClearRow(r)
  PROVE  /\ call[r].at = "clear" /\ Ended(r) /\ RowsAlone /\ call[r].row \in RowIds
         /\ PendingSet(call[r].row, FALSE)
<1>1. call[r].at = "clear" /\ RowsAlone /\ Ended(r)
  BY EndDoes DEF ClearRow, At
<1>2. call[r].row \in RowIds
  BY <1>1, Fields DEF InHand, CallHand
<1> QED BY <1>1, <1>2, PendingDoes DEF ClearRow

-----------------------------------------------------------------------------
(* What Stripe does *)

LEMMA PayDoes ==
  ASSUME ConstantsOK, TypeOK, NEW r \in Requests, Pay(r)
  PROVE  /\ ByStripe /\ UNCHANGED changes /\ stripe[r].status = "open"
         /\ harm' = harm \cup IF Owed(RowOf(r)) # {} THEN {"shared"} ELSE {}
         /\ StatusSet(r, IF stripe[r].trial THEN "trialing" ELSE "active")
         /\ events' \in Seq(Event) /\ Len(events') = Len(events) + 2
         /\ \A j \in 1..Len(events) : events'[j] = events[j]
         /\ LET e == events'[Len(events) + 1]
                f == events'[Len(events) + 2]
            IN /\ \/ e.kind = "created" /\ f.kind = "completed"
                  \/ e.kind = "completed" /\ f.kind = "created"
               /\ e.sub = r /\ f.sub = r
               /\ e.status = stripe'[r].status /\ e.pending = stripe'[r].pending
               /\ f.status = stripe'[r].status /\ f.pending = stripe'[r].pending
<1> DEFINE v == IF stripe[r].trial THEN "trialing" ELSE "active"
<1>1. /\ ByStripe /\ UNCHANGED changes /\ stripe[r].status = "open"
      /\ harm' = harm \cup IF Owed(RowOf(r)) # {} THEN {"shared"} ELSE {}
  BY DEF Pay
<1>2. r \in Subs /\ v \in BornStatus
  BY Ids DEF BornStatus, LiveStatus
<1>3. StatusSet(r, v)
  BY <1>2, StatusDoes DEF Pay
<1>4. PICK both \in {<<"created", "completed">>, <<"completed", "created">>} :
        events' = events \o <<Tell(both[1], r), Tell(both[2], r)>>
  BY DEF Pay
<1>5. stripe' \in [Subs -> Sub] /\ stripe'[r].status \in BornStatus
  BY <1>2, <1>3 DEF StatusSet, StripeMoved
<1> DEFINE e == Tell(both[1], r)
           f == Tell(both[2], r)
<1>6. /\ both[1] \in {"completed", "created"} /\ both[2] \in {"completed", "created"}
      /\ both[1] # both[2]
  BY <1>4
<1>7. /\ e \in Event /\ e.kind = both[1] /\ e.sub = r
      /\ e.status = stripe'[r].status /\ e.pending = stripe'[r].pending
  BY <1>2, <1>5, <1>6, TellDoes
<1>8. /\ f \in Event /\ f.kind = both[2] /\ f.sub = r
      /\ f.status = stripe'[r].status /\ f.pending = stripe'[r].pending
  BY <1>2, <1>5, <1>6, TellDoes
<1>9. events \in Seq(Event)
  BY DEF TypeOK
<1>10. events' = events \o <<e, f>>
  BY <1>4
<1> HIDE DEF e, f
<1>11. /\ events' \in Seq(Event) /\ Len(events') = Len(events) + 2
       /\ \A j \in 1..Len(events) : events'[j] = events[j]
       /\ events'[Len(events) + 1] = e /\ events'[Len(events) + 2] = f
  BY <1>7, <1>8, <1>9, <1>10
<1> HIDE DEF v
<1> QED BY <1>1, <1>3, <1>6, <1>7, <1>8, <1>11 DEF v

LEMMA DashboardDoes ==
  ASSUME ConstantsOK, TypeOK, NEW s \in Subs, Dashboard(s)
  PROVE  /\ ByStripe /\ UNCHANGED <<changes, harm>> /\ stripe[s].status = "none"
         /\ s \in Foreign /\ StatusSet(s, "active") /\ Told("created", s)
<1>1. /\ ByStripe /\ UNCHANGED <<changes, harm>> /\ stripe[s].status = "none"
      /\ s \in Foreign
  BY DeployTyped DEF Dashboard, TypeOK
<1>2. StatusSet(s, "active")
  BY StatusDoes DEF Dashboard, BornStatus, LiveStatus
<1>3. stripe' \in [Subs -> Sub] /\ stripe'[s].status \in BornStatus
  BY <1>2 DEF StatusSet, StripeMoved, BornStatus, LiveStatus
<1>4. Told("created", s)
  BY <1>3, ToldDoes DEF Dashboard
<1> QED BY <1>1, <1>2, <1>4

LEMMA ChangeDoes ==
  ASSUME ConstantsOK, TypeOK, NEW s \in Subs, Change(s)
  PROVE  /\ ByStripe /\ Counted /\ UNCHANGED harm
         /\ Born(s) /\ stripe[s].status # "canceled"
         /\ \E v \in BornStatus :
              StatusSet(s, v) /\ Told(IF v = "canceled" THEN "deleted" ELSE "updated", s)
<1>1. /\ ByStripe /\ Counted /\ UNCHANGED harm
      /\ Born(s) /\ stripe[s].status # "canceled"
  BY DEF Change
<1>2. PICK v \in {"active", "past_due", "canceled"} :
        /\ stripe' = [stripe EXCEPT ![s].status = v]
        /\ events' = Append(events, Tell(IF v = "canceled" THEN "deleted" ELSE "updated", s))
  BY DEF Change
<1>3. v \in BornStatus
  BY DEF BornStatus, LiveStatus
<1>4. StatusSet(s, v)
  BY <1>2, <1>3, StatusDoes
<1>5. stripe' \in [Subs -> Sub] /\ stripe'[s].status \in BornStatus
  BY <1>3, <1>4 DEF StatusSet, StripeMoved
<1>6. Told(IF v = "canceled" THEN "deleted" ELSE "updated", s)
  BY <1>2, <1>5, ToldDoes
<1> QED BY <1>1, <1>3, <1>4, <1>6

LEMMA CancelLaterDoes ==
  ASSUME ConstantsOK, TypeOK, NEW s \in Subs, CancelLater(s)
  PROVE  /\ ByStripe /\ Counted /\ UNCHANGED harm /\ LiveSub(s)
         /\ EndSet(s, TRUE) /\ Told("updated", s)
<1>1. ByStripe /\ Counted /\ UNCHANGED harm /\ LiveSub(s)
  BY DEF CancelLater
<1>2. EndSet(s, TRUE)
  BY EndSetDoes DEF CancelLater
<1>3. stripe' \in [Subs -> Sub] /\ stripe'[s].status \in BornStatus
  BY <1>1, <1>2 DEF EndSet, StripeMoved, LiveSub, BornStatus
<1>4. Told("updated", s)
  BY <1>3, ToldDoes DEF CancelLater
<1> QED BY <1>1, <1>2, <1>4

-----------------------------------------------------------------------------
(* What the handlers of events do *)

HooksAlone == UNCHANGED <<deploy, rows, stripe, events, call, changes, harm>>
\* The handler goes on with its event, and the row i.
HookWent(pc, i) ==
  /\ hook' \in Hook /\ hook'.at = pc /\ hook'.row = i
  /\ hook'.event = hook.event /\ hook'.again = hook.again

LEMMA HookAt ==
  ASSUME NEW h \in Hook,
         NEW v \in {"idle", "retrieve", "find", "others", "create", "write"}
  PROVE  LET d == [h EXCEPT !.at = v] IN
         /\ d \in Hook /\ d.at = v
         /\ d.event = h.event /\ d.again = h.again /\ d.row = h.row
  BY DEF Hook

LEMMA HookEvent ==
  ASSUME NEW h \in Hook, NEW v \in Event \cup {NoEvent}
  PROVE  LET d == [h EXCEPT !.event = v] IN
         /\ d \in Hook /\ d.event = v
         /\ d.at = h.at /\ d.again = h.again /\ d.row = h.row
  BY DEF Hook

LEMMA HookAgain ==
  ASSUME NEW h \in Hook, NEW v \in BOOLEAN
  PROVE  LET d == [h EXCEPT !.again = v] IN
         /\ d \in Hook /\ d.again = v
         /\ d.at = h.at /\ d.event = h.event /\ d.row = h.row
  BY DEF Hook

LEMMA HookRow ==
  ASSUME NEW h \in Hook, NEW v \in RowIds \cup {NoId}
  PROVE  LET d == [h EXCEPT !.row = v] IN
         /\ d \in Hook /\ d.row = v
         /\ d.at = h.at /\ d.event = h.event /\ d.again = h.again
  BY DEF Hook

LEMMA Joined ==
  ASSUME NEW a \in Seq(Event), NEW b \in Seq(Event)
  PROVE  /\ a \o b \in Seq(Event) /\ Len(a \o b) = Len(a) + Len(b)
         /\ \A j \in 1..(Len(a) + Len(b)) :
              (a \o b)[j] = IF j <= Len(a) THEN a[j] ELSE b[j - Len(a)]
  OBVIOUS

LEMMA WithoutDoes ==
  ASSUME events \in Seq(Event), NEW i \in 1..Len(events)
  PROVE  /\ Without(i) \in Seq(Event) /\ Len(Without(i)) = Len(events) - 1
         /\ \A j \in 1..(Len(events) - 1) :
              Without(i)[j] = IF j < i THEN events[j] ELSE events[j + 1]
<1> DEFINE a == SubSeq(events, 1, i - 1)
           b == SubSeq(events, i + 1, Len(events))
<1>1. /\ a \in Seq(Event) /\ Len(a) = i - 1
      /\ \A j \in 1..(i - 1) : a[j] = events[j]
  OBVIOUS
<1>2. /\ b \in Seq(Event) /\ Len(b) = Len(events) - i
      /\ \A j \in 1..(Len(events) - i) : b[j] = events[i + j]
  OBVIOUS
<1> HIDE DEF a, b
<1>3. /\ a \o b \in Seq(Event) /\ Len(a \o b) = Len(events) - 1
      /\ \A j \in 1..(Len(events) - 1) :
           (a \o b)[j] = IF j <= Len(a) THEN a[j] ELSE b[j - Len(a)]
  <2>1. Len(a) + Len(b) = Len(events) - 1 /\ Len(events) \in Nat
    BY <1>1, <1>2
  <2>2. a \o b \in Seq(Event) /\ Len(a \o b) = Len(a) + Len(b)
    BY <1>1, <1>2, Joined
  <2>3. \A j \in 1..(Len(a) + Len(b)) :
          (a \o b)[j] = IF j <= Len(a) THEN a[j] ELSE b[j - Len(a)]
    BY <1>1, <1>2, Joined
  <2> QED BY <2>1, <2>2, <2>3
<1>4. ASSUME NEW j \in 1..(Len(events) - 1)
      PROVE  (a \o b)[j] = IF j < i THEN events[j] ELSE events[j + 1]
  <2>1. CASE j < i
    <3>1. j \in 1..(i - 1) /\ j <= Len(a)
      BY <1>1, <2>1
    <3> QED BY <1>1, <1>3, <2>1, <3>1
  <2>2. CASE ~(j < i)
    <3> DEFINE k == j - (i - 1)
    <3>1. k \in 1..(Len(events) - i) /\ i + k = j + 1 /\ ~(j <= Len(a)) /\ j - Len(a) = k
      BY <1>1, <2>2
    <3> HIDE DEF k
    <3>2. (a \o b)[j] = b[k]
      BY <1>3, <3>1
    <3>3. b[k] = events[j + 1]
      BY <1>2, <3>1
    <3> QED BY <2>2, <3>2, <3>3
  <2> QED BY <2>1, <2>2
<1>5. Without(i) = a \o b
  BY DEF Without, a, b
<1> QED BY <1>3, <1>4, <1>5

LEMMA ReceiveDoes ==
  ASSUME ConstantsOK, TypeOK, Receive
  PROVE  /\ hook.at = "idle" /\ Clear /\ UNCHANGED <<deploy, rows, stripe, call, changes, harm>>
         /\ hook' \in Hook /\ hook'.row = NoId
         /\ \E i \in 1..Len(events) :
              /\ deploy.serial => i = 1
              /\ hook'.event = events[i]
              /\ hook'.at = IF events[i].kind = "completed" THEN "retrieve" ELSE "find"
              /\ \/ hook'.again /\ events' = events
                 \/ /\ ~hook'.again
                    /\ events' \in Seq(Event) /\ Len(events') = Len(events) - 1
                    /\ \A j \in 1..(Len(events) - 1) :
                         events'[j] = IF j < i THEN events[j] ELSE events[j + 1]
<1>1. hook.at = "idle" /\ Clear /\ UNCHANGED <<deploy, rows, stripe, call, changes, harm>>
  BY DEF Receive
<1>2. PICK i \in 1..(IF deploy.serial /\ events # <<>> THEN 1 ELSE Len(events)),
           again \in BOOLEAN :
        /\ hook' = [NoHook EXCEPT !.at = IF events[i].kind = "completed" THEN "retrieve" ELSE "find",
                                  !.event = events[i], !.again = again]
        /\ events' = IF again THEN events ELSE Without(i)
  BY DEF Receive
<1>3. events \in Seq(Event) /\ Len(events) \in Nat
  BY DEF TypeOK
<1>4. i \in 1..Len(events) /\ (deploy.serial => i = 1)
  <2>1. CASE deploy.serial /\ events # <<>>
    BY <1>3, <2>1
  <2>2. CASE deploy.serial /\ events = <<>>
    BY <1>3, <2>2
  <2>3. CASE ~deploy.serial
    BY <2>3
  <2> QED BY <2>1, <2>2, <2>3
<1> DEFINE pc == IF events[i].kind = "completed" THEN "retrieve" ELSE "find"
           a == [NoHook EXCEPT !.at = pc]
           b == [a EXCEPT !.event = events[i]]
           d == [b EXCEPT !.again = again]
<1>5. hook' = d
  BY <1>2
<1>6. NoHook \in Hook /\ pc \in {"retrieve", "find"} /\ events[i] \in Event
  BY <1>3, <1>4, Ids
<1>7. pc = IF events[i].kind = "completed" THEN "retrieve" ELSE "find"
  OBVIOUS
<1> HIDE DEF pc
<1>8. a \in Hook /\ a.at = pc /\ a.row = NoId
  <2>1. NoHook.row = NoId /\ pc \in {"idle", "retrieve", "find", "others", "create", "write"}
    BY <1>6 DEF NoHook
  <2> QED BY <1>6, <2>1, HookAt
<1> HIDE DEF a
<1>9. b \in Hook /\ b.at = pc /\ b.row = NoId /\ b.event = events[i]
  BY <1>6, <1>8, HookEvent
<1> HIDE DEF b
<1>10. d \in Hook /\ d.at = pc /\ d.row = NoId /\ d.event = events[i] /\ d.again = again
  BY <1>2, <1>9, HookAgain
<1> HIDE DEF d
<1>11. \/ hook'.again /\ events' = events
       \/ /\ ~hook'.again
          /\ events' \in Seq(Event) /\ Len(events') = Len(events) - 1
          /\ \A j \in 1..(Len(events) - 1) :
               events'[j] = IF j < i THEN events[j] ELSE events[j + 1]
  <2>1. CASE again
    BY <1>2, <1>5, <1>10, <2>1
  <2>2. CASE ~again
    <3>1. events' = Without(i) /\ hook'.again = FALSE
      BY <1>2, <1>5, <1>10, <2>2
    <3> QED BY <1>3, <1>4, <3>1, WithoutDoes
  <2> QED BY <1>2, <2>1, <2>2
<1> QED BY <1>1, <1>4, <1>5, <1>7, <1>10, <1>11

LEMMA CrashDoes ==
  ASSUME Crash
  PROVE  Busy /\ hook.again /\ hook' = NoHook /\ HooksAlone
  BY DEF Crash, Handled, HooksAlone, Busy

LEMMA RetrieveDoes ==
  ASSUME ConstantsOK, TypeOK, Handling, Retrieve
  PROVE  /\ hook.at = "retrieve" /\ HooksAlone
         /\ hook.event.sub \in Requests /\ hook.event.kind = "completed"
         /\ hook' \in Hook /\ hook'.at = "write" /\ hook'.again = hook.again
         /\ hook'.row = stripe[hook.event.sub].home
         /\ hook'.event \in Event
         /\ hook'.event.kind = hook.event.kind /\ hook'.event.sub = hook.event.sub
         /\ hook'.event.status = stripe[hook.event.sub].status
         /\ hook'.event.pending = stripe[hook.event.sub].pending
<1> DEFINE s == hook.event.sub
           w == stripe[s]
           a == [hook EXCEPT !.at = "write"]
           b == [a EXCEPT !.row = w.home]
           c == [b EXCEPT !.event.status = w.status]
           d == [c EXCEPT !.event.pending = w.pending]
<1>1. hook.at = "retrieve" /\ HooksAlone
  BY DEF Retrieve, HooksAlone
<1>2. /\ hook.event \in Event /\ hook.event.kind = "completed"
      /\ s \in Requests /\ Born(s) /\ hook \in Hook
  BY <1>1 DEF Handling, Busy, TypeOK
<1>3. s \in Subs
  BY <1>2, Ids
<1>4. w.home \in RowIds \cup {NoId} /\ w.status \in BornStatus /\ w.pending \in BOOLEAN
  BY <1>2, <1>3, Fields DEF Born
<1>5. hook' = d
  BY DEF Retrieve
<1>6. a \in Hook /\ a.at = "write" /\ a.event = hook.event /\ a.again = hook.again
  BY <1>2, HookAt
<1> HIDE DEF a, w
<1>7. /\ b \in Hook /\ b.at = "write" /\ b.event = hook.event /\ b.again = hook.again
      /\ b.row = w.home
  BY <1>4, <1>6, HookRow
<1> HIDE DEF b
<1> DEFINE e == [b.event EXCEPT !.status = w.status]
<1>8. /\ e \in Event /\ e.kind = hook.event.kind /\ e.sub = s /\ e.status = w.status
  BY <1>2, <1>4, <1>7 DEF Event
<1>9. c = [b EXCEPT !.event = e]
  OBVIOUS
<1> HIDE DEF c, e
<1>10. /\ c \in Hook /\ c.at = "write" /\ c.event = e /\ c.again = hook.again
       /\ c.row = w.home
  BY <1>7, <1>8, <1>9, HookEvent
<1> DEFINE f == [c.event EXCEPT !.pending = w.pending]
<1>11. /\ f \in Event /\ f.kind = hook.event.kind /\ f.sub = s /\ f.status = w.status
       /\ f.pending = w.pending
  BY <1>4, <1>8, <1>10 DEF Event
<1>12. d = [c EXCEPT !.event = f]
  OBVIOUS
<1> HIDE DEF d, f
<1>13. /\ d \in Hook /\ d.at = "write" /\ d.event = f /\ d.again = hook.again
       /\ d.row = w.home
  BY <1>10, <1>11, <1>12, HookEvent
<1> QED BY <1>1, <1>2, <1>5, <1>11, <1>13 DEF w

LEMMA HookGoes ==
  ASSUME TypeOK, NEW pc \in {"idle", "retrieve", "find", "others", "create", "write"}
  PROVE  /\ hook' = [hook EXCEPT !.at = pc] => HookWent(pc, hook.row)
         /\ \A i \in RowIds : hook' = [hook EXCEPT !.at = pc, !.row = i] => HookWent(pc, i)
<1>1. hook \in Hook
  BY DEF TypeOK
<1>2. ASSUME hook' = [hook EXCEPT !.at = pc] PROVE HookWent(pc, hook.row)
  BY <1>1, <1>2, HookAt DEF HookWent
<1>3. ASSUME NEW i \in RowIds, hook' = [hook EXCEPT !.at = pc, !.row = i]
      PROVE  HookWent(pc, i)
  <2> DEFINE a == [hook EXCEPT !.at = pc]
             d == [a EXCEPT !.row = i]
  <2>1. a \in Hook /\ a.at = pc /\ a.event = hook.event /\ a.again = hook.again
    BY <1>1, HookAt
  <2>2. hook' = d
    BY <1>3
  <2> HIDE DEF a
  <2>3. /\ d \in Hook /\ d.at = pc /\ d.event = hook.event /\ d.again = hook.again /\ d.row = i
    BY <2>1, HookRow
  <2> HIDE DEF d
  <2> QED BY <2>2, <2>3 DEF HookWent
<1> QED BY <1>2, <1>3

LEMMA FindCreatedDoes ==
  ASSUME ConstantsOK, TypeOK, FindCreated
  PROVE  /\ hook.at = "find" /\ hook.event.kind = "created" /\ HooksAlone
         /\ \/ /\ hook' = NoHook
               /\ Named(hook.event.sub) # {} \/ NewRows(hook.event.sub) = {}
            \/ /\ HookWent("create", hook.row)
               /\ Named(hook.event.sub) = {} /\ NewRows(hook.event.sub) # {}
  BY HookGoes DEF FindCreated, HooksAlone, Handled

LEMMA FindUpdatedDoes ==
  ASSUME ConstantsOK, TypeOK, FindUpdated
  PROVE  /\ hook.at = "find" /\ hook.event.kind = "updated" /\ HooksAlone
         /\ \/ HookWent("others", hook.row) /\ Named(hook.event.sub) = {}
            \/ \E i \in Named(hook.event.sub) : i \in All /\ HookWent("write", i)
<1>1. hook.at = "find" /\ hook.event.kind = "updated" /\ HooksAlone
  BY DEF FindUpdated, HooksAlone
<1>2. \A i \in Named(hook.event.sub) : i \in All /\ i \in RowIds
  BY DEF Named, Linked, All
<1> QED BY <1>1, <1>2, HookGoes DEF FindUpdated

LEMMA OthersDoes ==
  ASSUME ConstantsOK, TypeOK, Others
  PROVE  /\ hook.at = "others" /\ HooksAlone
         /\ hook' = NoHook \/ \E i \in All : HookWent("write", i)
<1>1. hook.at = "others" /\ HooksAlone
  BY DEF Others, HooksAlone
<1> DEFINE found == IF Cardinality(All) = 1 THEN All ELSE {i \in All : LiveRow(i)}
<1>2. \A i \in found : i \in All /\ i \in RowIds
  BY DEF All
<1>3. hook' = NoHook \/ \E i \in found : hook' = [hook EXCEPT !.at = "write", !.row = i]
  BY DEF Others, Handled
<1> HIDE DEF found
<1> QED BY <1>1, <1>2, <1>3, HookGoes

LEMMA FindDeletedDoes ==
  ASSUME ConstantsOK, TypeOK, FindDeleted
  PROVE  /\ hook.at = "find" /\ hook.event.kind = "deleted" /\ HooksAlone
         /\ \/ hook' = NoHook /\ Linked(hook.event.sub) = {}
            \/ \E i \in Linked(hook.event.sub) : i \in All /\ HookWent("write", i)
<1>1. hook.at = "find" /\ hook.event.kind = "deleted" /\ HooksAlone
  BY DEF FindDeleted, HooksAlone
<1>2. \A i \in Linked(hook.event.sub) : i \in All /\ i \in RowIds
  BY DEF Linked, All
<1> QED BY <1>1, <1>2, HookGoes DEF FindDeleted, Handled

\* A new row is one of two, and the first if it is free.
LEMMA NewRowIs ==
  ASSUME ConstantsOK, NEW s \in Subs
  PROVE  /\ \A i \in NewRows(s) : /\ i \in RowIds /\ rows[i] = NoRow
                                /\ i \in {<<"webhook", s>>, <<"again", s>>}
         /\ NewRows(s) # {} =>
              \E i \in NewRows(s) : i[1] = "webhook" \/ Cardinality(NewRows(s)) = 1
<1>1. \A i \in NewRows(s) : /\ i \in RowIds /\ rows[i] = NoRow
                            /\ i \in {<<"webhook", s>>, <<"again", s>>}
  BY DEF NewRows, RowIds
<1>2. ASSUME NewRows(s) # {}
      PROVE  \E i \in NewRows(s) : i[1] = "webhook" \/ Cardinality(NewRows(s)) = 1
  <2>1. CASE <<"webhook", s>> \in NewRows(s)
    BY <2>1
  <2>2. CASE <<"webhook", s>> \notin NewRows(s)
    <3>1. NewRows(s) = {<<"again", s>>}
      BY <1>1, <1>2, <2>2
    <3>2. Cardinality(NewRows(s)) = 1
      BY <3>1, FS_Singleton
    <3> QED BY <1>2, <3>2
  <2> QED BY <2>1, <2>2
<1> QED BY <1>1, <1>2

LEMMA CreateRowDoes ==
  ASSUME ConstantsOK, TypeOK, Handling, InHand, CreateRow
  PROVE  /\ hook.at = "create" /\ hook' = NoHook
         /\ UNCHANGED <<deploy, stripe, events, call, changes, harm>>
         /\ hook.event \in Event /\ hook.event.sub \in Subs
         /\ rows' \in [RowIds -> Row]
         /\ \E i \in NewRows(hook.event.sub) :
              /\ i[1] = "webhook" \/ Cardinality(NewRows(hook.event.sub)) = 1
              /\ i \in RowIds /\ rows[i] = NoRow
              /\ i \in {<<"webhook", hook.event.sub>>, <<"again", hook.event.sub>>}
              /\ \A j \in RowIds : j # i => rows'[j] = rows[j]
              /\ rows'[i].status = hook.event.status /\ rows'[i].sub = hook.event.sub
              /\ rows'[i].trial = stripe[hook.event.sub].trial /\ ~rows'[i].pending
<1> DEFINE s == hook.event.sub
           i == CHOOSE j \in NewRows(s) : j[1] = "webhook" \/ Cardinality(NewRows(s)) = 1
           v == [status |-> hook.event.status, sub |-> s, trial |-> stripe[s].trial,
                 pending |-> FALSE]
<1>1. /\ hook.at = "create" /\ hook' = NoHook
      /\ UNCHANGED <<deploy, stripe, events, call, changes, harm>>
  BY DEF CreateRow, Handled
<1>2. hook.event \in Event
  BY <1>1 DEF Handling, Busy
<1>3. s \in Subs /\ hook.event.status \in BornStatus
  BY <1>2 DEF Event
<1>4. NewRows(s) # {}
  BY <1>1 DEF InHand, HookHand
<1>5. i \in NewRows(s) /\ (i[1] = "webhook" \/ Cardinality(NewRows(s)) = 1)
  BY <1>3, <1>4, NewRowIs
<1>6. rows' = [rows EXCEPT ![i] = v]
  BY DEF CreateRow
<1>7. stripe[s].trial \in BOOLEAN
  BY <1>3, Fields
<1>8. v \in Row
  BY <1>3, <1>7 DEF Row
<1>9. v.status = hook.event.status /\ v.sub = s /\ v.trial = stripe[s].trial /\ ~v.pending
  OBVIOUS
<1> HIDE DEF i, v
<1>10. /\ i \in RowIds /\ rows[i] = NoRow
       /\ i \in {<<"webhook", s>>, <<"again", s>>}
  BY <1>3, <1>5, NewRowIs
<1>11. /\ rows' \in [RowIds -> Row] /\ rows'[i] = v
       /\ \A j \in RowIds : j # i => rows'[j] = rows[j]
  BY <1>6, <1>8, <1>10 DEF TypeOK
<1> HIDE DEF s
<1>12. \E k \in NewRows(s) :
              /\ k[1] = "webhook" \/ Cardinality(NewRows(s)) = 1
              /\ k \in RowIds /\ rows[k] = NoRow
              /\ k \in {<<"webhook", s>>, <<"again", s>>}
              /\ \A j \in RowIds : j # k => rows'[j] = rows[j]
              /\ rows'[k].status = hook.event.status /\ rows'[k].sub = s
              /\ rows'[k].trial = stripe[s].trial /\ ~rows'[k].pending
  BY <1>5, <1>9, <1>10, <1>11
<1> QED BY <1>1, <1>2, <1>3, <1>11, <1>12 DEF s

LEMMA WriteDoes ==
  ASSUME ConstantsOK, TypeOK, Handling, InHand, Write
  PROVE  /\ hook.at = "write" /\ hook' = NoHook
         /\ UNCHANGED <<deploy, stripe, events, call, changes, harm>>
         /\ hook.event \in Event /\ hook.event.sub \in Subs /\ hook.row \in RowIds
         /\ \E v \in Row :
              /\ Rewritten(hook.row, v)
              /\ v.status = hook.event.status /\ v.pending = hook.event.pending
              /\ v.sub = IF hook.event.kind = "deleted" THEN rows[hook.row].sub
                         ELSE hook.event.sub
              /\ v.trial = (rows[hook.row].trial \/ stripe[hook.event.sub].trial)
<1> DEFINE e == hook.event
           i == hook.row
           v == [status |-> e.status, sub |-> IF e.kind = "deleted" THEN rows[i].sub ELSE e.sub,
                 trial |-> rows[i].trial \/ stripe[e.sub].trial, pending |-> e.pending]
<1>1. /\ hook.at = "write" /\ hook' = NoHook
      /\ UNCHANGED <<deploy, stripe, events, call, changes, harm>>
  BY DEF Write, Handled
<1>2. e \in Event
  BY <1>1 DEF Handling, Busy
<1>3. e.sub \in Subs /\ e.status \in BornStatus /\ e.pending \in BOOLEAN
  BY <1>2 DEF Event
<1>4. rows' = [j \in RowIds |-> IF j = i /\ Exists(j) THEN Shown(j) ELSE rows[j]]
  BY DEF Write
<1>5. Shown(i) = v
  BY DEF Shown
<1>6. ASSUME i \in RowIds PROVE v \in Row
  <2>1. rows[i].sub \in Subs \cup {None} /\ rows[i].trial \in BOOLEAN
    BY <1>6, Fields
  <2>2. stripe[e.sub].trial \in BOOLEAN
    BY <1>3, Fields
  <2> QED BY <1>3, <2>1, <2>2 DEF Row
<1>7. /\ v.status = e.status /\ v.pending = e.pending
      /\ v.sub = IF e.kind = "deleted" THEN rows[i].sub ELSE e.sub
      /\ v.trial = (rows[i].trial \/ stripe[e.sub].trial)
  OBVIOUS
<1> HIDE DEF v
<1>8. \A j \in RowIds : rows'[j] = IF j = i /\ Exists(i) THEN v ELSE rows[j]
  BY <1>4, <1>5
<1>9. i \in RowIds
  BY <1>1, Fields DEF InHand, HookHand
<1>10. rows' \in [RowIds -> Row]
  BY <1>4, <1>5, <1>6, <1>9 DEF TypeOK
<1> QED BY <1>1, <1>2, <1>3, <1>6, <1>7, <1>8, <1>9, <1>10 DEF Rewritten

-----------------------------------------------------------------------------
(* Base: what a step leaves of it *)

\* What Stripe has told of stays, and its events wait for their turn.
Grown ==
  /\ stripe' \in [Subs -> Sub]
  /\ \A s \in Subs : Born(s) => Born(s)' /\ stripe'[s].home = stripe[s].home
EventsGrow ==
  /\ events' \in Seq(Event) /\ Len(events') >= Len(events)
  /\ \A j \in 1..Len(events) : events'[j] = events[j]
RowsStay == \A i \in RowIds : rows[i] # NoRow => rows'[i] # NoRow
\* The places of a request before it has a row of its own.
Before == {"idle", "review", "list", "reserve"}

LEMMA HandlingKept ==
  ASSUME ConstantsOK, TypeOK, Handling, UNCHANGED hook, Grown, EventsGrow
  PROVE  Handling'
<1>1. Busy => hook.event \in Event /\ hook.event.sub \in Subs
  BY DEF Handling, Event
<1>2. Busy => Born(hook.event.sub)' /\ stripe'[hook.event.sub].home = stripe[hook.event.sub].home
  BY <1>1 DEF Handling, Grown
<1>3. \A j \in 1..Len(events) : j \in 1..Len(events') /\ events'[j] = events[j]
  BY DEF EventsGrow, TypeOK
<1> QED BY <1>1, <1>2, <1>3 DEF Handling, Busy, EventAt

LEMMA QueuedKept ==
  ASSUME TypeOK, Queued, UNCHANGED events, Grown
  PROVE  Queued'
  BY Fields DEF Queued, Grown

LEMMA QueuedTold ==
  ASSUME TypeOK, Queued, Grown, NEW s \in Subs, NEW kind, Told(kind, s),
         stripe'[s].status \in BornStatus, kind # "completed", kind = "deleted" => stripe'[s].status = "canceled"
  PROVE  Queued' /\ EventsGrow
<1>1. Len(events) \in Nat /\ Len(events') = Len(events) + 1 /\ events' \in Seq(Event)
  BY DEF TypeOK, Told
<1>2. \A j \in 1..Len(events') : j \in 1..Len(events) \/ j = Len(events) + 1
  BY <1>1
<1>3. \A j \in 1..Len(events) : events'[j] = events[j] /\ events[j].sub \in Subs
  BY Fields DEF Told
<1>4. LET e == events'[Len(events) + 1] IN
      e.kind = kind /\ e.sub = s /\ e.status = stripe'[s].status
  BY DEF Told
<1>5. EventsGrow
  BY <1>1, <1>3 DEF EventsGrow
<1> QED BY <1>2, <1>3, <1>4, <1>5 DEF Queued, Grown, Born

LEMMA HookHandKept ==
  ASSUME TypeOK, Handling, HookHand, UNCHANGED hook, RowsStay,
         \A i \in RowIds : rows[i] = NoRow /\ i[1] # "upgrade" => rows'[i] = NoRow
  PROVE  HookHand'
<1>1. hook.at = "create" => NewRows(hook.event.sub)' # {}
  <2> SUFFICES ASSUME hook.at = "create" PROVE NewRows(hook.event.sub)' # {}
    OBVIOUS
  <2>1. PICK i \in {"webhook", "again"} \X {hook.event.sub} : rows[i] = NoRow
    BY DEF HookHand, NewRows
  <2>2. hook.event.sub \in Subs
    BY DEF Handling, Busy, Event
  <2>3. i \in RowIds /\ i[1] # "upgrade"
    BY <2>1, <2>2 DEF RowIds
  <2>4. rows'[i] = NoRow
    BY <2>1, <2>3
  <2> QED BY <2>1, <2>4 DEF NewRows
<1>2. hook.row # NoId => hook.row \in RowIds
  BY Fields
<1> QED BY <1>1, <1>2 DEF HookHand, RowsStay

LEMMA CallHandKept ==
  ASSUME ConstantsOK, TypeOK, NEW r \in Requests, CallHand(r), call'[r] = call[r], RowsStay,
         Grown
  PROVE  CallHand(r)'
<1>1. call[r].row # NoId => call[r].row \in RowIds
  BY Fields
<1>2. call[r].sub # None => call[r].sub \in Subs
  BY Fields
<1> QED BY <1>1, <1>2 DEF CallHand, RowsStay, Grown

LEMMA HomeHandKept ==
  ASSUME TypeOK, HomeHand, RowsStay, \A s \in Subs : stripe'[s].home = stripe[s].home
  PROVE  HomeHand'
  BY Fields DEF HomeHand, RowsStay

LEMMA RowHandKept ==
  ASSUME TypeOK, RowHand, UNCHANGED rows, Grown
  PROVE  RowHand'
  BY Fields DEF RowHand, Grown, LiveRow, Exists

\* A step of the request r that leaves Stripe alone.
LEMMA RequestBase ==
  ASSUME ConstantsOK, Base, NEW r \in Requests, Moved(r),
         UNCHANGED <<deploy, stripe, events, hook, changes>>,
         harm' \in SUBSET Harms, rows' \in [RowIds -> Row], RowsStay,
         \A i \in RowIds : rows[i] = NoRow /\ i # <<"upgrade", r>> => rows'[i] = NoRow,
         call'[r].at \in Before =>
           call[r].at \in Before /\ rows'[<<"upgrade", r>>] = rows[<<"upgrade", r>>],
         call[r].at # "done", CallHand(r)', RowHand'
  PROVE  Base'
<1>1. TypeOK'
  BY DEF TypeOK, Base, Moved
<1>2. TypeOK
  BY DEF Base
<1>3. Grown /\ EventsGrow
  BY DEF Grown, EventsGrow, Base, TypeOK, Born
<1>4. Handling' /\ Queued'
  BY <1>2, <1>3, HandlingKept, QueuedKept DEF Base
<1>5. Fresh'
  <2> SUFFICES ASSUME NEW q \in Requests
               PROVE  /\ call'[q].at # "done" => stripe'[q].status = "none"
                      /\ call'[q].at \in Before => rows'[<<"upgrade", q>>] = NoRow
                      /\ stripe'[q].status # "none" => stripe'[q].home # NoId
    BY DEF Fresh, Before
  <2>1. <<"upgrade", q>> \in RowIds
    BY Ids
  <2>2. CASE q = r
    BY <2>1, <2>2 DEF Base, Fresh, Before
  <2>3. CASE q # r
    <3>1. call'[q] = call[q] /\ (q # r => <<"upgrade", q>> # <<"upgrade", r>>)
      BY <2>3 DEF Moved
    <3> QED BY <2>1, <2>3, <3>1 DEF Base, Fresh, Before
  <2> QED BY <2>2, <2>3
<1>6. Homes'
  BY DEF Base, Homes
<1>7. HookHand' /\ HomeHand'
  <2>1. \A i \in RowIds : i[1] # "upgrade" => i # <<"upgrade", r>>
    OBVIOUS
  <2> QED BY <1>2, <2>1, HookHandKept, HomeHandKept DEF Base, InHand
<1>8. \A q \in Requests : CallHand(q)'
  BY <1>2, <1>3, CallHandKept DEF Base, InHand, Moved
<1> QED BY <1>1, <1>4, <1>5, <1>6, <1>7, <1>8 DEF Base, InHand

\* A step of the request r that only reads.
LEMMA ReadBase ==
  ASSUME ConstantsOK, Base, NEW r \in Requests, Moved(r), Quietly,
         call'[r].at \in Before => call[r].at \in Before,
         call[r].at # "done", CallHand(r)'
  PROVE  Base'
<1>1. TypeOK /\ UNCHANGED <<deploy, stripe, events, hook, changes>>
  BY DEF Base, Quietly
<1>2. harm' \in SUBSET Harms /\ rows' \in [RowIds -> Row] /\ RowsStay
  BY <1>1 DEF Quietly, TypeOK, RowsStay
<1>3. RowHand'
  <2>1. Grown
    BY <1>1 DEF Grown, TypeOK, Born
  <2> QED BY <1>1, <2>1, RowHandKept DEF Base, InHand, Quietly
<1> QED BY <1>1, <1>2, <1>3, RequestBase DEF Quietly

\* A step of Stripe, by which s changed.
LEMMA StripeBase ==
  ASSUME ConstantsOK, Base, NEW s \in Subs, StripeMoved(s), ByStripe,
         changes' \in 0..deploy.maxChanges, harm' \in SUBSET Harms,
         stripe'[s].home = stripe[s].home, stripe'[s].trial = stripe[s].trial,
         stripe[s].status \notin BornStatus \cup {"open"} => s \in Foreign,
         Born(s)', EventsGrow, Queued'
  PROVE  Base'
<1>1. UNCHANGED <<deploy, rows, hook, call>> /\ TypeOK
  BY DEF ByStripe, Base
<1>2. TypeOK'
  BY <1>1 DEF TypeOK, StripeMoved, EventsGrow
<1>3. Grown
  BY DEF Grown, StripeMoved, Born
<1>4. Handling'
  BY <1>1, <1>3, HandlingKept DEF Base
<1>5. Fresh'
  <2> SUFFICES ASSUME NEW q \in Requests
               PROVE  /\ call'[q].at # "done" => stripe'[q].status = "none"
                      /\ stripe'[q].status # "none" => stripe'[q].home # NoId
    BY <1>1 DEF Fresh, Base
  <2>1. q \in Subs /\ q \notin Foreign
    BY Ids
  <2>2. CASE q = s
    <3>1. stripe[q].status # "none"
      BY <2>1, <2>2 DEF BornStatus, LiveStatus
    <3> QED BY <1>1, <2>1, <2>2, <3>1 DEF Base, Fresh
  <2>3. CASE q # s
    BY <1>1, <2>1, <2>3 DEF Base, Fresh, StripeMoved
  <2> QED BY <2>2, <2>3
<1>6. Homes'
  <2> SUFFICES ASSUME NEW q \in Foreign
               PROVE  stripe'[q].home = NoId /\ ~stripe'[q].trial /\ stripe'[q].status # "open"
    BY DEF Homes
  <2>1. q \in Subs
    BY DEF Subs
  <2>2. stripe'[s].status # "open"
    BY DEF Born, BornStatus, LiveStatus
  <2> QED BY <2>1, <2>2 DEF Base, Homes, StripeMoved
<1>7. RowsStay
  BY <1>1 DEF RowsStay
<1>8. HookHand' /\ HomeHand' /\ RowHand'
  BY <1>1, <1>3, <1>7, HookHandKept, HomeHandKept, RowHandKept DEF Base, InHand, StripeMoved
<1>9. \A q \in Requests : CallHand(q)'
  BY <1>1, <1>3, <1>7, CallHandKept DEF Base, InHand
<1> QED BY <1>2, <1>4, <1>5, <1>6, <1>8, <1>9 DEF Base, InHand

\* A step of the handler that only reads.
LEMMA HookBase ==
  ASSUME ConstantsOK, Base, UNCHANGED <<deploy, rows, stripe, call, changes, harm>>,
         events' \in Seq(Event), hook' \in Hook, Handling', Queued', HookHand'
  PROVE  Base'
<1>1. TypeOK'
  BY DEF Base, TypeOK
<1>2. Fresh' /\ Homes'
  BY DEF Base, Fresh, Homes
<1>3. HomeHand' /\ RowHand'
  BY DEF Base, InHand, HomeHand, RowHand, Born, LiveRow, Exists
<1>4. \A q \in Requests : CallHand(q)'
  BY DEF Base, InHand, CallHand, Born
<1> QED BY <1>1, <1>2, <1>3, <1>4 DEF Base, InHand

LEMMA StartBase ==
  ASSUME ConstantsOK, Base, NEW r \in Requests, Start(r) PROVE Base'
<1>1. TypeOK
  BY DEF Base
<1>2. /\ call[r].at = "idle" /\ Moved(r) /\ Quietly
      /\ call'[r].at \in {"review", "look", "find", "restore"} /\ call'[r].row = NoId
      /\ IF call'[r].at = "look" THEN call'[r].sub \in Requests /\ Born(call'[r].sub)
         ELSE call'[r].sub = None
  BY <1>1, StartDoes
<1>3. CallHand(r)'
  BY <1>2 DEF CallHand, Quietly, Born
<1> QED BY <1>2, <1>3, ReadBase DEF Before

LEMMA ReviewBase ==
  ASSUME ConstantsOK, Base, NEW r \in Requests, Review(r) PROVE Base'
<1>1. TypeOK /\ CallHand(r) /\ RowHand
  BY DEF Base, InHand
<1>2. call[r].at = "review" /\ Moved(r) /\ Quietly /\ call'[r].at = "list"
  BY <1>1, ReviewDoes
<1>3. /\ call'[r].row = NoId \/ (call'[r].row \in RowIds /\ rows[call'[r].row] # NoRow)
      /\ call'[r].sub = None \/ Born(call'[r].sub)
  <2>1. \A i \in All : i \in RowIds /\ rows[i] # NoRow /\ (rows[i].sub = None \/ Born(rows[i].sub))
    BY <1>1 DEF All, Exists, RowHand
  <2>2. CASE \E i \in All : /\ rows[i].sub # None /\ call'[r].sub = rows[i].sub
                            /\ call'[r].row = IF LiveRow(i) THEN i ELSE NoId
    BY <2>1, <2>2
  <2>3. CASE call'[r].sub = call[r].sub /\ call'[r].row = call[r].row
    BY <1>1, <1>2, <2>3 DEF CallHand
  <2>4. CASE \E i \in All : call'[r].sub = rows[i].sub /\ call'[r].row = i
    BY <2>1, <2>4
  <2> QED BY <1>1, <2>2, <2>3, <2>4, ReviewDoes
<1>4. CallHand(r)'
  BY <1>2, <1>3 DEF CallHand, Quietly, Born
<1> QED BY <1>2, <1>4, ReadBase DEF Before

LEMMA ListBase ==
  ASSUME ConstantsOK, Base, NEW r \in Requests, List(r) PROVE Base'
<1>1. TypeOK /\ CallHand(r)
  BY DEF Base, InHand
<1>2. /\ call[r].at = "list" /\ Quietly /\ Moved(r)
      /\ \/ Went(r, "match") /\ call[r].sub \in Subs
         \/ Ended(r)
         \/ Went(r, "reserve")
  BY <1>1, ListDoes DEF Went, Ended
<1>3. CallHand(r)' /\ call'[r].at \in {"match", "done", "reserve"}
  BY <1>1, <1>2, Ids, NotCalls DEF CallHand, Quietly, Born, Went, Ended
<1> QED BY <1>2, <1>3, ReadBase DEF Before

LEMMA MatchBase ==
  ASSUME ConstantsOK, Base, NEW r \in Requests, Match(r) PROVE Base'
<1>1. TypeOK /\ CallHand(r)
  BY DEF Base, InHand
<1>2. /\ call[r].at = "match" /\ Quietly /\ Moved(r)
      /\ \/ Went(r, "adopt") /\ call[r].row # NoId
         \/ Ended(r)
  BY <1>1, MatchDoes DEF Went, Ended
<1>3. CallHand(r)' /\ call'[r].at \in {"adopt", "done"}
  BY <1>1, <1>2, NotCalls DEF CallHand, Quietly, Born, Went, Ended
<1> QED BY <1>2, <1>3, ReadBase DEF Before

LEMMA JudgeBase ==
  ASSUME ConstantsOK, Base, NEW r \in Requests, Judge(r) PROVE Base'
<1>1. TypeOK /\ CallHand(r)
  BY DEF Base, InHand
<1>2. /\ call[r].at = "judge" /\ Quietly /\ Moved(r)
      /\ call'[r].at = "open" /\ call'[r].row = call[r].row /\ call'[r].sub = call[r].sub
  BY <1>1, JudgeDoes
<1>3. CallHand(r)'
  BY <1>1, <1>2 DEF CallHand, Quietly, Born
<1> QED BY <1>2, <1>3, ReadBase DEF Before

LEMMA LookBase ==
  ASSUME ConstantsOK, Base, NEW r \in Requests, Look(r) PROVE Base'
<1>1. TypeOK /\ CallHand(r) /\ InHand
  BY DEF Base, InHand
<1>2. /\ call[r].at = "look" /\ Quietly /\ Moved(r)
      /\ \/ Ended(r)
         \/ /\ call'[r].at = "fetch" /\ call'[r].sub = call[r].sub
            /\ Exists(call'[r].row)
  BY <1>1, LookDoes DEF Ended
<1>3. CallHand(r)' /\ call'[r].at \in {"fetch", "done"}
  BY <1>1, <1>2, NotCalls DEF CallHand, Quietly, Born, Ended, Exists
<1> QED BY <1>2, <1>3, ReadBase DEF Before

LEMMA FetchBase ==
  ASSUME ConstantsOK, Base, NEW r \in Requests, Fetch(r) PROVE Base'
<1>1. TypeOK /\ CallHand(r) /\ InHand
  BY DEF Base, InHand
<1>2. /\ call[r].at = "fetch" /\ Quietly /\ Moved(r)
      /\ call'[r].at = "activate" /\ call'[r].sub = call[r].sub /\ call'[r].row = call[r].row
      /\ call'[r].status = stripe[call[r].sub].status
  BY <1>1, FetchDoes
<1>3. CallHand(r)'
  BY <1>1, <1>2, Live, Ids DEF CallHand, Quietly, Born
<1> QED BY <1>2, <1>3, ReadBase DEF Before

LEMMA FindBase ==
  ASSUME ConstantsOK, Base, NEW r \in Requests, Find(r) PROVE Base'
<1>1. TypeOK /\ CallHand(r) /\ RowHand
  BY DEF Base, InHand
<1>2. /\ call[r].at = "find" /\ Quietly /\ Moved(r)
      /\ \/ Ended(r)
         \/ \E i \in All : /\ rows[i].sub # None /\ call'[r].at = "check"
                           /\ call'[r].row = i /\ call'[r].sub = rows[i].sub
  BY <1>1, FindDoes DEF Ended
<1>3. \A i \in All : /\ i \in RowIds /\ rows[i] # NoRow /\ i # NoId
                     /\ rows[i].sub = None \/ Born(rows[i].sub)
  BY <1>1 DEF All, Exists, RowHand
<1>4. CallHand(r)' /\ call'[r].at \in {"check", "done"}
  BY <1>1, <1>2, <1>3, NotCalls DEF CallHand, Quietly, Born, Ended
<1> QED BY <1>2, <1>4, ReadBase DEF Before

LEMMA CheckBase ==
  ASSUME ConstantsOK, Base, NEW r \in Requests, Check(r) PROVE Base'
<1>1. TypeOK /\ CallHand(r)
  BY DEF Base, InHand
<1>2. /\ call[r].at = "check" /\ Quietly /\ Moved(r)
      /\ Went(r, "remove") \/ Went(r, "resync") \/ Ended(r)
  BY <1>1, CheckDoes DEF Went, Ended
<1>3. CallHand(r)' /\ call'[r].at \in {"remove", "resync", "done"}
  BY <1>1, <1>2, NotCalls DEF CallHand, Quietly, Born, Went, Ended
<1> QED BY <1>2, <1>3, ReadBase DEF Before

LEMMA ResyncBase ==
  ASSUME ConstantsOK, Base, NEW r \in Requests, Resync(r) PROVE Base'
<1>1. TypeOK /\ CallHand(r) /\ InHand
  BY DEF Base, InHand
<1>2. /\ call[r].at = "resync" /\ Quietly /\ Moved(r)
      /\ call'[r].at = "sync" /\ call'[r].sub = call[r].sub /\ call'[r].row = call[r].row
  BY <1>1, ResyncDoes
<1>3. CallHand(r)'
  BY <1>1, <1>2 DEF CallHand, Quietly, Born
<1> QED BY <1>2, <1>3, ReadBase DEF Before

LEMMA RestoreBase ==
  ASSUME ConstantsOK, Base, NEW r \in Requests, Restore(r) PROVE Base'
<1>1. TypeOK /\ CallHand(r) /\ RowHand
  BY DEF Base, InHand
<1>2. /\ call[r].at = "restore" /\ Quietly /\ Moved(r)
      /\ \/ Ended(r)
         \/ \E i \in All : /\ LiveRow(i) /\ call'[r].at = "revive"
                           /\ call'[r].row = i /\ call'[r].sub = rows[i].sub
  BY <1>1, RestoreDoes DEF Ended
<1>3. \A i \in All : /\ i \in RowIds /\ rows[i] # NoRow /\ i # NoId
                     /\ rows[i].sub = None \/ Born(rows[i].sub)
                     /\ LiveRow(i) => rows[i].sub # None
  BY <1>1 DEF All, Exists, RowHand
<1>4. CallHand(r)' /\ call'[r].at \in {"revive", "done"}
  BY <1>1, <1>2, <1>3, NotCalls DEF CallHand, Quietly, Born, Ended
<1> QED BY <1>2, <1>4, ReadBase DEF Before

LEMMA ReviveBase ==
  ASSUME ConstantsOK, Base, NEW r \in Requests, Revive(r) PROVE Base'
<1>1. TypeOK /\ CallHand(r) /\ InHand
  BY DEF Base, InHand
<1>2. /\ call[r].at = "revive" /\ Quietly /\ Moved(r)
      /\ \/ Ended(r)
         \/ /\ call'[r].at = "renew" /\ call'[r].sub = call[r].sub
            /\ call'[r].row = call[r].row
  BY <1>1, ReviveDoes DEF Ended
<1>3. CallHand(r)' /\ call'[r].at \in {"renew", "done"}
  BY <1>1, <1>2, NotCalls DEF CallHand, Quietly, Born, Ended
<1> QED BY <1>2, <1>3, ReadBase DEF Before

\* Requests that write rows. A row that is rewritten was there, and is.
LEMMA RewrittenBase ==
  ASSUME ConstantsOK, Base, NEW i \in RowIds, NEW v \in Row, Rewritten(i, v),
         Exists(i) => v.status \notin {"none", "deleted"}, v.sub # None => Born(v.sub),
         v.status \in LiveStatus => v.sub # None, UNCHANGED stripe
  PROVE  /\ rows' \in [RowIds -> Row] /\ RowsStay /\ RowHand'
         /\ \A j \in RowIds : rows[j] = NoRow => rows'[j] = NoRow
<1>1. Exists(i) => v # NoRow
  BY NotRows
<1>2. \A j \in RowIds : rows'[j] = rows[j] \/ (rows'[j] = v /\ j = i /\ Exists(i))
  BY DEF Rewritten
<1>3. \A j \in RowIds : rows'[j] = rows[j] => (Exists(j)' <=> Exists(j))
  BY DEF Exists
<1>4. RowHand
  BY DEF Base, InHand
<1>5. RowHand'
  <2> SUFFICES ASSUME NEW j \in RowIds
               PROVE  /\ rows'[j].sub # None => Born(rows[j].sub)'
                      /\ LiveRow(j)' => rows'[j].sub # None
                      /\ rows'[j].status \in {"none", "deleted"} => ~Exists(j)'
    BY DEF RowHand
  <2>1. CASE rows'[j] = rows[j]
    BY <1>3, <1>4, <2>1 DEF RowHand, LiveRow, Born
  <2>2. CASE rows'[j] = v /\ Exists(i)
    BY <2>2 DEF LiveRow, Born
  <2> QED BY <1>2, <2>1, <2>2
<1>6. rows' \in [RowIds -> Row]
  BY DEF Rewritten
<1>7. RowsStay /\ \A j \in RowIds : rows[j] = NoRow => rows'[j] = NoRow
  BY <1>1, <1>2 DEF RowsStay, Exists
<1> QED BY <1>5, <1>6, <1>7

LEMMA EndedHand ==
  ASSUME NEW r \in Requests, Ended(r)
  PROVE  CallHand(r)' /\ call'[r].at = "done" /\ Moved(r)
  BY NotCalls DEF CallHand, Ended

LEMMA AdoptBase ==
  ASSUME ConstantsOK, Base, NEW r \in Requests, Adopt(r) PROVE Base'
<1> DEFINE i == call[r].row
           v == [rows[i] EXCEPT !.sub = call[r].sub]
<1>1. TypeOK /\ CallHand(r) /\ InHand /\ RowHand
  BY DEF Base, InHand
<1>2. call[r].at = "adopt" /\ Ended(r) /\ RowsAlone /\ Rewritten(i, v)
  BY <1>1, AdoptDoes
<1>3. /\ i \in RowIds /\ rows[i] \in Row
      /\ call[r].sub \in Subs /\ Born(call[r].sub) /\ call[r].sub # None
  BY <1>1, <1>2, Fields DEF CallHand, TypeOK
<1>4. v \in Row /\ v.sub = call[r].sub /\ v.status = rows[i].status
  BY <1>3, RowFields
<1> HIDE DEF v
<1>5. Exists(i) => v.status \notin {"none", "deleted"}
  BY <1>1, <1>3, <1>4 DEF RowHand
<1>6. /\ rows' \in [RowIds -> Row] /\ RowsStay /\ RowHand'
      /\ \A j \in RowIds : rows[j] = NoRow => rows'[j] = NoRow
  BY <1>2, <1>3, <1>4, <1>5, RewrittenBase DEF RowsAlone
<1> QED BY <1>1, <1>2, <1>6, EndedHand, RequestBase DEF RowsAlone, Before, TypeOK

LEMMA ReserveBase ==
  ASSUME ConstantsOK, Base, NEW r \in Requests, Reserve(r) PROVE Base'
<1> DEFINE i == <<"upgrade", r>>
<1>1. TypeOK /\ CallHand(r) /\ RowHand /\ Fresh
  BY DEF Base, InHand
<1>2. call[r].at = "reserve" /\ RowsAlone
  BY <1>1, ReserveDoes
<1>3. CASE call[r].row # NoId /\ Went(r, "judge") /\ UNCHANGED rows
  <2>1. CallHand(r)' /\ Moved(r) /\ call'[r].at = "judge" /\ Quietly
    BY <1>1, <1>2, <1>3 DEF CallHand, Went, RowsAlone, Quietly, Born
  <2> QED BY <1>2, <2>1, ReadBase DEF Before
<1>4. CASE /\ call[r].row = NoId /\ Moved(r)
           /\ call'[r].at = "judge" /\ call'[r].row = i /\ call'[r].sub = call[r].sub
           /\ rows' \in [RowIds -> Row]
           /\ \A j \in RowIds : j # i => rows'[j] = rows[j]
           /\ rows'[i].status = "incomplete" /\ rows'[i].sub = None
  <2>1. i \in RowIds /\ rows'[i] # NoRow
    BY <1>4, NotRows, Ids
  <2>2. CallHand(r)'
    BY <1>1, <1>2, <1>4, <2>1, Ids DEF CallHand, RowsAlone, Born
  <2>3. RowsStay
    BY <1>4, <2>1 DEF RowsStay
  <2>4. RowHand'
    BY <1>1, <1>2, <1>4, Live DEF RowHand, LiveRow, Exists, Born, RowsAlone
  <2> QED BY <1>1, <1>2, <1>4, <2>2, <2>3, <2>4, RequestBase DEF RowsAlone, Before, TypeOK
<1> QED BY <1>1, <1>3, <1>4, ReserveDoes

LEMMA ActivateBase ==
  ASSUME ConstantsOK, Base, NEW r \in Requests, Activate(r) PROVE Base'
<1> DEFINE i == call[r].row
<1>1. TypeOK /\ CallHand(r) /\ InHand
  BY DEF Base, InHand
<1>2. /\ call[r].at = "activate" /\ Ended(r)
      /\ UNCHANGED <<deploy, stripe, events, hook, changes>>
      /\ harm' \in SUBSET Harms
  BY <1>1, ActivateDoes DEF TypeOK, Harms
<1>3. i \in RowIds /\ call[r].sub \in Subs /\ Born(call[r].sub) /\ call[r].sub # None
  BY <1>1, <1>2, Fields, Ids DEF CallHand
<1>4. call[r].status \in BornStatus
  BY <1>1, <1>2, Fields DEF CallHand
<1>5. PICK v \in Row : Rewritten(i, v) /\ v.status = call[r].status /\ v.sub = call[r].sub
  BY <1>1, ActivateDoes
<1>6. /\ rows' \in [RowIds -> Row] /\ RowsStay /\ RowHand'
      /\ \A j \in RowIds : rows[j] = NoRow => rows'[j] = NoRow
  BY <1>2, <1>3, <1>4, <1>5, RewrittenBase, Live
<1> QED BY <1>2, <1>6, EndedHand, RequestBase DEF Before

LEMMA RemoveBase ==
  ASSUME ConstantsOK, Base, NEW r \in Requests, Remove(r) PROVE Base'
<1> DEFINE i == call[r].row
<1>1. TypeOK /\ CallHand(r) /\ InHand /\ RowHand
  BY DEF Base, InHand
<1>2. /\ call[r].at = "remove" /\ Ended(r)
      /\ UNCHANGED <<deploy, stripe, events, hook, changes>>
      /\ harm' \in SUBSET Harms /\ i \in RowIds /\ rows' \in [RowIds -> Row]
      /\ rows'[i] = Deleted /\ \A j \in RowIds : j # i => rows'[j] = rows[j]
  BY <1>1, RemoveDoes DEF TypeOK, Harms
<1>3. rows[i] # NoRow
  BY <1>1, <1>2 DEF CallHand
<1>4. RowsStay
  BY <1>2, Ids DEF RowsStay
<1>5. RowHand'
  BY <1>1, <1>2, Live, NotRows DEF RowHand, LiveRow, Exists, Born
<1> QED BY <1>2, <1>3, <1>4, <1>5, EndedHand, RequestBase DEF Before

\* Sync, and the end of restore, set the pending end of a row.
LEMMA PendingBase ==
  ASSUME ConstantsOK, Base, NEW i \in RowIds, NEW p, PendingSet(i, p), UNCHANGED stripe
  PROVE  /\ rows' \in [RowIds -> Row] /\ RowsStay /\ RowHand'
         /\ \A j \in RowIds : rows[j] = NoRow => rows'[j] = NoRow
<1>1. RowHand
  BY DEF Base, InHand
<1>2. PICK v \in Row : Rewritten(i, v) /\ v.status = rows[i].status /\ v.sub = rows[i].sub
  BY DEF PendingSet
<1> QED BY <1>1, <1>2, RewrittenBase DEF RowHand, LiveRow

LEMMA SyncBase ==
  ASSUME ConstantsOK, Base, NEW r \in Requests, Sync(r) PROVE Base'
<1>1. TypeOK /\ InHand
  BY DEF Base
<1>2. /\ call[r].at = "sync" /\ Ended(r) /\ RowsAlone /\ call[r].row \in RowIds
      /\ PendingSet(call[r].row, call[r].pending)
  BY <1>1, SyncDoes
<1>3. /\ rows' \in [RowIds -> Row] /\ RowsStay /\ RowHand'
      /\ \A j \in RowIds : rows[j] = NoRow => rows'[j] = NoRow
  BY <1>2, PendingBase DEF RowsAlone
<1> QED BY <1>1, <1>2, <1>3, EndedHand, RequestBase DEF RowsAlone, Before, TypeOK

LEMMA ClearRowBase ==
  ASSUME ConstantsOK, Base, NEW r \in Requests, ClearRow(r) PROVE Base'
<1>1. TypeOK /\ InHand
  BY DEF Base
<1>2. /\ call[r].at = "clear" /\ Ended(r) /\ RowsAlone /\ call[r].row \in RowIds
      /\ PendingSet(call[r].row, FALSE)
  BY <1>1, ClearRowDoes
<1>3. /\ rows' \in [RowIds -> Row] /\ RowsStay /\ RowHand'
      /\ \A j \in RowIds : rows[j] = NoRow => rows'[j] = NoRow
  BY <1>2, PendingBase DEF RowsAlone
<1> QED BY <1>1, <1>2, <1>3, EndedHand, RequestBase DEF RowsAlone, Before, TypeOK

\* What Stripe does.
LEMMA PayBase ==
  ASSUME ConstantsOK, Base, NEW r \in Requests, Pay(r) PROVE Base'
<1> DEFINE n == Len(events)
           e == events'[n + 1]
           f == events'[n + 2]
<1>1. TypeOK /\ r \in Subs /\ r \notin Foreign
  BY Ids DEF Base
<1>2. /\ ByStripe /\ UNCHANGED changes /\ stripe[r].status = "open"
      /\ StatusSet(r, IF stripe[r].trial THEN "trialing" ELSE "active")
      /\ harm' = harm \cup IF Owed(RowOf(r)) # {} THEN {"shared"} ELSE {}
  BY <1>1, PayDoes
<1>9. harm' \in SUBSET Harms
  BY <1>1, <1>2 DEF TypeOK, Harms
<1>3. /\ events' \in Seq(Event) /\ Len(events') = n + 2
      /\ \A j \in 1..n : events'[j] = events[j]
      /\ e.sub = r /\ f.sub = r
      /\ e.kind \in {"created", "completed"} /\ f.kind \in {"created", "completed"}
  BY <1>1, PayDoes
<1>4. Grown /\ Born(r)'
  BY <1>1, <1>2, Live DEF Grown, StatusSet, StripeMoved, Born
<1>5. n \in Nat
  BY <1>1 DEF TypeOK
<1>6. \A j \in 1..Len(events') : j \in 1..n \/ j = n + 1 \/ j = n + 2
  BY <1>3, <1>5
<1>7. EventsGrow
  BY <1>3, <1>5 DEF EventsGrow
<1> HIDE DEF e, f, n
<1>8. Queued'
  <2> SUFFICES ASSUME NEW j \in 1..Len(events')
               PROVE  /\ Born(events[j].sub)'
                      /\ events'[j].kind = "completed" => events'[j].sub \in Requests
                      /\ events'[j].kind = "deleted" => events'[j].status = "canceled"
    BY DEF Queued
  <2>1. CASE j \in 1..n
    <3>1. events[j].sub \in Subs /\ events'[j] = events[j]
      BY <1>1, <1>3, <2>1, Fields DEF n
    <3> QED BY <1>4, <2>1, <3>1 DEF Grown, Base, Queued, n
  <2>2. CASE j = n + 1
    BY <1>3, <1>4, <2>2 DEF e
  <2>3. CASE j = n + 2
    BY <1>3, <1>4, <2>3 DEF f
  <2> QED BY <1>6, <2>1, <2>2, <2>3
<1> QED BY <1>1, <1>2, <1>4, <1>7, <1>8, <1>9, StripeBase, Live DEF StatusSet, TypeOK

LEMMA ToldBase ==
  ASSUME ConstantsOK, Base, NEW s \in Subs, NEW kind, Told(kind, s), StripeMoved(s),
         ByStripe, changes' \in 0..deploy.maxChanges, UNCHANGED harm,
         stripe'[s].home = stripe[s].home, stripe'[s].trial = stripe[s].trial,
         stripe[s].status \notin BornStatus \cup {"open"} => s \in Foreign, Born(s)',
         kind # "completed", kind = "deleted" => stripe'[s].status = "canceled"
  PROVE  Base'
<1>1. TypeOK /\ Queued
  BY DEF Base
<1>2. Grown
  BY DEF Grown, StripeMoved, Born
<1>3. Queued' /\ EventsGrow
  BY <1>1, <1>2, QueuedTold DEF Born
<1> QED BY <1>1, <1>3, StripeBase DEF TypeOK

LEMMA CountedDoes ==
  ASSUME ConstantsOK, TypeOK, Counted
  PROVE  changes' \in 0..deploy.maxChanges
<1>1. deploy.maxChanges \in Nat /\ changes \in 0..deploy.maxChanges
  BY DeployTyped DEF TypeOK
<1> QED BY <1>1 DEF Counted

LEMMA DashboardBase ==
  ASSUME ConstantsOK, Base, NEW s \in Subs, Dashboard(s) PROVE Base'
<1>1. TypeOK
  BY DEF Base
<1>2. /\ ByStripe /\ UNCHANGED <<changes, harm>> /\ s \in Foreign
      /\ StatusSet(s, "active") /\ Told("created", s)
  BY <1>1, DashboardDoes
<1>3. changes' \in 0..deploy.maxChanges
  BY <1>1, <1>2 DEF TypeOK
<1> QED BY <1>2, <1>3, Live, ToldBase DEF StatusSet, Born

LEMMA ChangeBase ==
  ASSUME ConstantsOK, Base, NEW s \in Subs, Change(s) PROVE Base'
<1>1. TypeOK
  BY DEF Base
<1>2. ByStripe /\ Counted /\ UNCHANGED harm /\ Born(s)
  BY <1>1, ChangeDoes
<1>3. PICK v \in BornStatus :
        StatusSet(s, v) /\ Told(IF v = "canceled" THEN "deleted" ELSE "updated", s)
  BY <1>1, ChangeDoes
<1>4. changes' \in 0..deploy.maxChanges
  BY <1>1, <1>2, CountedDoes
<1> QED BY <1>2, <1>3, <1>4, ToldBase DEF StatusSet, Born

LEMMA CancelLaterBase ==
  ASSUME ConstantsOK, Base, NEW s \in Subs, CancelLater(s) PROVE Base'
<1>1. TypeOK
  BY DEF Base
<1>2. /\ ByStripe /\ Counted /\ UNCHANGED harm /\ LiveSub(s)
      /\ EndSet(s, TRUE) /\ Told("updated", s)
  BY <1>1, CancelLaterDoes
<1>3. changes' \in 0..deploy.maxChanges
  BY <1>1, <1>2, CountedDoes
<1> QED BY <1>2, <1>3, ToldBase, Live DEF EndSet, Born, LiveSub

LEMMA OpenBase ==
  ASSUME ConstantsOK, Base, NEW r \in Requests, Open(r) PROVE Base'
<1>1. TypeOK /\ CallHand(r) /\ Fresh /\ r \in Subs /\ r \notin Foreign
  BY Ids DEF Base, InHand
<1>2. /\ call[r].at = "open" /\ Ended(r) /\ StripeMoved(r)
      /\ UNCHANGED <<deploy, rows, events, hook, changes, harm>>
      /\ stripe'[r].status = "open" /\ stripe'[r].home = call[r].row
  BY <1>1, OpenDoes
<1>3. stripe[r].status = "none" /\ ~Born(r)
  BY <1>1, <1>2, Live DEF Fresh, Born
<1>4. Grown /\ EventsGrow /\ RowsStay
  BY <1>1, <1>2, <1>3 DEF Grown, EventsGrow, RowsStay, StripeMoved, Born, TypeOK
<1>5. TypeOK'
  BY <1>1, <1>2 DEF TypeOK, Ended, Moved, StripeMoved
<1>6. Handling' /\ Queued'
  BY <1>1, <1>2, <1>4, HandlingKept, QueuedKept DEF Base
<1>7. Fresh'
  <2> SUFFICES ASSUME NEW q \in Requests
               PROVE  /\ call'[q].at # "done" => stripe'[q].status = "none"
                      /\ call'[q].at \in Before => rows'[<<"upgrade", q>>] = NoRow
                      /\ stripe'[q].status # "none" => stripe'[q].home # NoId
    BY DEF Fresh, Before
  <2>1. CASE q = r
    BY <1>1, <1>2, <2>1, NotCalls DEF Ended, Before, CallHand
  <2>2. CASE q # r
    BY <1>1, <1>2, <2>2, Ids DEF Fresh, Ended, Moved, StripeMoved, Before
  <2> QED BY <2>1, <2>2
<1>8. Homes'
  BY <1>1, <1>2 DEF Base, Homes, StripeMoved, Subs
<1>9. HomeHand'
  <2>1. rows'[call[r].row] # NoRow
    BY <1>1, <1>2 DEF CallHand
  <2> QED BY <1>2, <2>1 DEF Base, InHand, HomeHand, StripeMoved
<1>10. HookHand' /\ RowHand'
  BY <1>1, <1>2, <1>4, HookHandKept, RowHandKept DEF Base, InHand
<1>11. \A q \in Requests : CallHand(q)'
  BY <1>1, <1>2, <1>4, EndedHand, CallHandKept DEF Base, InHand, Ended, Moved
<1> QED BY <1>5, <1>6, <1>7, <1>8, <1>9, <1>10, <1>11 DEF Base, InHand

LEMMA RenewBase ==
  ASSUME ConstantsOK, Base, NEW r \in Requests, Renew(r) PROVE Base'
<1> DEFINE s == call[r].sub
<1>1. TypeOK /\ CallHand(r) /\ Fresh /\ Queued /\ InHand
  BY DEF Base, InHand
<1>2. /\ call[r].at = "renew" /\ Went(r, "clear") /\ s \in Subs
      /\ UNCHANGED <<deploy, rows, hook, changes, harm>>
  BY <1>1, RenewDoes
<1> HIDE DEF s
<1>3. Born(s)
  BY <1>1, <1>2, Ids DEF CallHand, s
<1>4. /\ Grown /\ Queued' /\ EventsGrow
      /\ \A q \in Subs : /\ stripe'[q].home = stripe[q].home
                         /\ stripe'[q].status = stripe[q].status
                         /\ stripe'[q].trial = stripe[q].trial
  <2>1. CASE EndSet(s, FALSE) /\ Told("updated", s)
    <3>1. \A q \in Subs : /\ stripe'[q].home = stripe[q].home
                          /\ stripe'[q].status = stripe[q].status
                          /\ stripe'[q].trial = stripe[q].trial
      BY <1>2, <2>1 DEF EndSet, StripeMoved
    <3>2. Grown
      BY <2>1, <3>1 DEF Grown, Born, EndSet, StripeMoved
    <3>3. stripe'[s].status \in BornStatus
      BY <1>2, <1>3, <3>1 DEF Born
    <3> QED BY <1>1, <1>2, <2>1, <3>1, <3>2, <3>3, QueuedTold
  <2>2. CASE UNCHANGED <<stripe, events>>
    <3>1. Grown /\ EventsGrow
      BY <1>1, <2>2 DEF Grown, EventsGrow, TypeOK, Born
    <3> QED BY <1>1, <2>2, <3>1, QueuedKept
  <2> QED BY <1>1, <2>1, <2>2, RenewDoes DEF s
<1>5. RowsStay
  BY <1>2 DEF RowsStay
<1>6. TypeOK'
  BY <1>1, <1>2, <1>4 DEF TypeOK, Went, Moved, Grown, EventsGrow
<1>7. Handling'
  BY <1>1, <1>2, <1>4, HandlingKept DEF Base
<1>8. Fresh'
  <2> SUFFICES ASSUME NEW q \in Requests
               PROVE  /\ call'[q].at # "done" => stripe'[q].status = "none"
                      /\ call'[q].at \in Before => rows'[<<"upgrade", q>>] = NoRow
                      /\ stripe'[q].status # "none" => stripe'[q].home # NoId
    BY DEF Fresh, Before
  <2>1. call'[q].at = call[q].at \/ (q = r /\ call'[q].at = "clear")
    BY <1>2 DEF Went, Moved
  <2> QED BY <1>1, <1>2, <1>4, <2>1, Ids DEF Fresh, Before
<1>9. Homes'
  BY <1>4 DEF Base, Homes, Subs
<1>10. HookHand' /\ RowHand' /\ HomeHand'
  BY <1>1, <1>2, <1>4, <1>5, HookHandKept, RowHandKept, HomeHandKept DEF Base, InHand
<1>11. \A q \in Requests : CallHand(q)'
  <2>1. CallHand(r)'
    BY <1>1, <1>2, <1>3, <1>4 DEF CallHand, Went, Grown, s
  <2> QED BY <1>1, <1>2, <1>4, <1>5, <2>1, CallHandKept DEF InHand, Went, Moved
<1> QED BY <1>4, <1>6, <1>7, <1>8, <1>9, <1>10, <1>11 DEF Base, InHand

\* The handler of events.
LEMMA IdleHook ==
  ASSUME hook' = NoHook
  PROVE  Handling' /\ HookHand'
  BY NotHooks DEF Handling, HookHand, Busy

LEMMA ReceiveBase ==
  ASSUME ConstantsOK, Base, Receive PROVE Base'
<1>1. TypeOK /\ Queued /\ Len(events) \in Nat
  BY DEF Base, TypeOK
<1>2. /\ UNCHANGED <<deploy, rows, stripe, call, changes, harm>>
      /\ hook' \in Hook /\ hook'.row = NoId
  BY <1>1, ReceiveDoes
<1>3. PICK i \in 1..Len(events) :
        /\ hook'.event = events[i]
        /\ hook'.at = IF events[i].kind = "completed" THEN "retrieve" ELSE "find"
        /\ \/ hook'.again /\ events' = events
           \/ /\ ~hook'.again
              /\ events' \in Seq(Event) /\ Len(events') = Len(events) - 1
              /\ \A j \in 1..(Len(events) - 1) :
                   events'[j] = IF j < i THEN events[j] ELSE events[j + 1]
  BY <1>1, ReceiveDoes
<1>4. events' \in Seq(Event)
  BY <1>1, <1>3 DEF TypeOK
<1>5. \A j \in 1..Len(events') : \E k \in 1..Len(events) : events'[j] = events[k]
  <2>1. CASE events' = events
    BY <2>1
  <2>2. CASE /\ Len(events') = Len(events) - 1
             /\ \A j \in 1..(Len(events) - 1) :
                  events'[j] = IF j < i THEN events[j] ELSE events[j + 1]
    BY <1>1, <2>2
  <2> QED BY <1>3, <2>1, <2>2
<1>6. Queued'
  BY <1>1, <1>2, <1>5 DEF Queued, Born
<1>7. events[i] \in Event /\ Born(events[i].sub)
  BY <1>1, Fields DEF Queued
<1>8. Handling'
  BY <1>1, <1>2, <1>3, <1>7 DEF Handling, Busy, Born, EventAt, Queued
<1>9. HookHand'
  BY <1>2, <1>3 DEF HookHand
<1> QED BY <1>2, <1>4, <1>6, <1>8, <1>9, HookBase

LEMMA StillQueued ==
  ASSUME Base, HooksAlone
  PROVE  /\ Queued' /\ events' \in Seq(Event)
         /\ UNCHANGED <<deploy, rows, stripe, call, changes, harm, events>>
  BY DEF Base, HooksAlone, Queued, Born, TypeOK

LEMMA HandledBase ==
  ASSUME ConstantsOK, Base, HooksAlone, hook' = NoHook PROVE Base'
  BY Ids, IdleHook, StillQueued, HookBase

LEMMA CrashBase ==
  ASSUME ConstantsOK, Base, Crash PROVE Base'
  BY CrashDoes, HandledBase

LEMMA RetrieveBase ==
  ASSUME ConstantsOK, Base, Retrieve PROVE Base'
<1>1. TypeOK /\ Handling /\ HomeHand /\ Fresh
  BY DEF Base, InHand
<1>2. /\ hook.at = "retrieve" /\ HooksAlone
      /\ hook.event.sub \in Requests /\ hook.event.kind = "completed"
      /\ hook' \in Hook /\ hook'.at = "write" /\ hook'.again = hook.again
      /\ hook'.row = stripe[hook.event.sub].home
      /\ hook'.event \in Event
      /\ hook'.event.kind = hook.event.kind /\ hook'.event.sub = hook.event.sub
  BY <1>1, RetrieveDoes
<1>3. Born(hook.event.sub) /\ hook.event.sub \in Subs
  BY <1>1, <1>2, Ids DEF Handling, Busy
<1>4. hook'.row # NoId /\ rows[hook'.row] # NoRow
  BY <1>1, <1>2, <1>3, Live DEF Fresh, HomeHand, Born
<1>5. Handling'
  BY <1>1, <1>2, <1>3 DEF Handling, Busy, HooksAlone, Born, EventAt
<1>6. HookHand'
  BY <1>2, <1>4 DEF HookHand, HooksAlone
<1> QED BY <1>2, <1>5, <1>6, StillQueued, HookBase

\* The handler goes on with its event, and not one that a checkout is complete.
LEMMA WentBase ==
  ASSUME ConstantsOK, Base, HooksAlone, NEW pc \in {"others", "create", "write"}, NEW i,
         HookWent(pc, i), hook.at # "idle", hook.event.kind # "completed",
         pc = "create" => hook.event.kind = "created" /\ NewRows(hook.event.sub) # {},
         pc = "others" => hook.event.kind = "updated",
         pc = "write" => hook.event.kind # "created",
         i # NoId => rows[i] # NoRow, pc = "write" => i # NoId
  PROVE  Base'
<1>1. Handling
  BY DEF Base
<1>2. Handling'
  BY <1>1 DEF Handling, Busy, HooksAlone, HookWent, Born, EventAt
<1>3. HookHand'
  <2>1. NewRows(hook.event.sub)' = NewRows(hook'.event.sub)
    BY DEF HookWent, NewRows, HooksAlone
  <2> QED BY <2>1 DEF HookHand, HooksAlone, HookWent, NewRows
<1> QED BY <1>2, <1>3, StillQueued, HookBase DEF HookWent

LEMMA FindCreatedBase ==
  ASSUME ConstantsOK, Base, FindCreated PROVE Base'
<1>1. TypeOK
  BY DEF Base
<1>2. hook.at = "find" /\ hook.event.kind = "created" /\ HooksAlone
  BY <1>1, FindCreatedDoes
<1>3. CASE hook' = NoHook
  BY <1>2, <1>3, HandledBase
<1>4. CASE HookWent("create", hook.row) /\ NewRows(hook.event.sub) # {}
  BY <1>2, <1>4, WentBase DEF Base, InHand, HookHand
<1> QED BY <1>1, <1>3, <1>4, FindCreatedDoes

LEMMA FindUpdatedBase ==
  ASSUME ConstantsOK, Base, FindUpdated PROVE Base'
<1>1. TypeOK
  BY DEF Base
<1>2. hook.at = "find" /\ hook.event.kind = "updated" /\ HooksAlone
  BY <1>1, FindUpdatedDoes
<1>3. CASE HookWent("others", hook.row)
  BY <1>2, <1>3, WentBase DEF Base, InHand, HookHand
<1>4. CASE \E i \in All : HookWent("write", i)
  BY <1>2, <1>4, WentBase DEF All, Exists
<1> QED BY <1>1, <1>3, <1>4, FindUpdatedDoes

LEMMA OthersBase ==
  ASSUME ConstantsOK, Base, Others PROVE Base'
<1>1. TypeOK /\ Handling
  BY DEF Base
<1>2. hook.at = "others" /\ HooksAlone
  BY <1>1, OthersDoes
<1>3. hook.event.kind = "updated"
  BY <1>1, <1>2 DEF Handling
<1>4. CASE hook' = NoHook
  BY <1>2, <1>4, HandledBase
<1>5. CASE \E i \in All : HookWent("write", i)
  BY <1>2, <1>3, <1>5, WentBase DEF All, Exists
<1> QED BY <1>1, <1>4, <1>5, OthersDoes

LEMMA FindDeletedBase ==
  ASSUME ConstantsOK, Base, FindDeleted PROVE Base'
<1>1. TypeOK
  BY DEF Base
<1>2. hook.at = "find" /\ hook.event.kind = "deleted" /\ HooksAlone
  BY <1>1, FindDeletedDoes
<1>3. CASE hook' = NoHook
  BY <1>2, <1>3, HandledBase
<1>4. CASE \E i \in All : HookWent("write", i)
  BY <1>2, <1>4, WentBase DEF All, Exists
<1> QED BY <1>1, <1>3, <1>4, FindDeletedDoes

\* The handler is done with the event, and has written rows.
LEMMA WroteBase ==
  ASSUME ConstantsOK, Base, hook' = NoHook,
         UNCHANGED <<deploy, stripe, events, call, changes, harm>>,
         rows' \in [RowIds -> Row], RowsStay, RowHand',
         \A r \in Requests : rows[<<"upgrade", r>>] = NoRow => rows'[<<"upgrade", r>>] = NoRow
  PROVE  Base'
<1>1. TypeOK'
  BY Ids DEF Base, TypeOK
<1>2. Handling' /\ HookHand'
  BY IdleHook
<1>3. Queued' /\ Fresh' /\ Homes'
  BY DEF Base, Queued, Fresh, Homes, Born
<1>4. Grown /\ TypeOK
  BY DEF Base, Grown, Born, TypeOK
<1>5. HomeHand' /\ \A q \in Requests : CallHand(q)'
  BY <1>4, HomeHandKept, CallHandKept DEF Base, InHand
<1> QED BY <1>1, <1>2, <1>3, <1>5 DEF Base, InHand

LEMMA CreateRowBase ==
  ASSUME ConstantsOK, Base, CreateRow PROVE Base'
<1>1. TypeOK /\ Handling /\ InHand /\ RowHand
  BY DEF Base, InHand
<1>2. /\ hook.at = "create" /\ hook' = NoHook
      /\ UNCHANGED <<deploy, stripe, events, call, changes, harm>>
      /\ hook.event \in Event /\ hook.event.sub \in Subs
      /\ rows' \in [RowIds -> Row]
  BY <1>1, CreateRowDoes
<1>3. PICK i \in RowIds :
        /\ rows[i] = NoRow /\ i \in {<<"webhook", hook.event.sub>>, <<"again", hook.event.sub>>}
        /\ \A j \in RowIds : j # i => rows'[j] = rows[j]
        /\ rows'[i].status = hook.event.status /\ rows'[i].sub = hook.event.sub
  BY <1>1, CreateRowDoes
<1>4. /\ Born(hook.event.sub) /\ hook.event.status \in BornStatus
      /\ hook.event.sub # None
  BY <1>1, <1>2, Ids DEF Handling, Busy, Event
<1>5. RowsStay
  BY <1>3 DEF RowsStay
<1>6. RowHand'
  BY <1>1, <1>2, <1>3, <1>4, Live DEF RowHand, LiveRow, Born, Exists
<1>7. \A r \in Requests : <<"upgrade", r>> # i /\ <<"upgrade", r>> \in RowIds
  <2>1. i[1] # "upgrade"
    BY <1>3
  <2>2. \A r \in Requests : <<"upgrade", r>>[1] = "upgrade"
    OBVIOUS
  <2>3. \A r \in Requests : <<"upgrade", r>> # i
    BY <2>1, <2>2
  <2> QED BY <2>3, Ids
<1> QED BY <1>2, <1>3, <1>5, <1>6, <1>7, WroteBase

LEMMA WriteBase ==
  ASSUME ConstantsOK, Base, Write PROVE Base'
<1>1. TypeOK /\ Handling /\ InHand /\ RowHand
  BY DEF Base, InHand
<1>2. /\ hook.at = "write" /\ hook' = NoHook
      /\ UNCHANGED <<deploy, stripe, events, call, changes, harm>>
      /\ hook.event \in Event /\ hook.event.sub \in Subs /\ hook.row \in RowIds
  BY <1>1, WriteDoes
<1>3. PICK v \in Row :
        /\ Rewritten(hook.row, v) /\ v.status = hook.event.status
        /\ v.sub = IF hook.event.kind = "deleted" THEN rows[hook.row].sub ELSE hook.event.sub
  BY <1>1, WriteDoes
<1>4. /\ Born(hook.event.sub) /\ hook.event.status \in BornStatus
      /\ hook.event.sub # None
      /\ hook.event.kind = "deleted" => hook.event.status = "canceled"
  BY <1>1, <1>2, Ids DEF Handling, Busy, Event
<1>5. v.status \in BornStatus /\ (v.status \in LiveStatus => hook.event.kind # "deleted")
  BY <1>3, <1>4, Live
<1>6. v.sub # None => Born(v.sub)
  BY <1>1, <1>2, <1>3, <1>4 DEF RowHand
<1>7. /\ rows' \in [RowIds -> Row] /\ RowsStay /\ RowHand'
      /\ \A j \in RowIds : rows[j] = NoRow => rows'[j] = NoRow
  BY <1>2, <1>3, <1>4, <1>5, <1>6, RewrittenBase, Live
<1> QED BY <1>2, <1>7, WroteBase, Ids

LEMMA InitBase ==
  ASSUME ConstantsOK, Init PROVE Base
<1>1. deploy \in Deployments /\ deploy.known \subseteq Foreign /\ deploy.maxChanges \in Nat
  BY DeployTyped DEF Init
<1> DEFINE v(i) == [NoRow EXCEPT !.status = "active", !.sub = i[2]]
<1>2. \A i \in RowIds : i[1] = "webhook" /\ i[2] \in deploy.known =>
        v(i) \in Row /\ v(i).status = "active" /\ v(i).sub = i[2] /\ i[2] \in Foreign
  <2> SUFFICES ASSUME NEW i \in RowIds, i[2] \in deploy.known
               PROVE  v(i) \in Row /\ v(i).status = "active" /\ v(i).sub = i[2] /\ i[2] \in Foreign
    OBVIOUS
  <2>1. i[2] \in Foreign /\ i[2] \in Subs
    BY <1>1 DEF Subs
  <2> QED BY <2>1 DEF NoRow, Row, BornStatus, LiveStatus
<1> HIDE DEF v
<1>3. \A i \in RowIds :
        \/ /\ rows[i] = v(i) /\ rows[i] \in Row /\ rows[i].status = "active"
           /\ rows[i].sub \in deploy.known /\ i[1] = "webhook"
        \/ rows[i] = NoRow
  BY <1>2 DEF Init, v
<1>4. \A s \in Subs :
        /\ stripe[s] \in Sub /\ stripe[s].home = NoId /\ ~stripe[s].trial /\ ~stripe[s].pending
        /\ stripe[s].status = IF s \in deploy.known THEN "active" ELSE "none"
  BY DEF Init, Sub, BornStatus, LiveStatus
<1>5. TypeOK
  <2>1. rows \in [RowIds -> Row]
    BY <1>3, Ids DEF Init
  <2>2. stripe \in [Subs -> Sub]
    BY <1>4 DEF Init
  <2>3. call \in [Requests -> Call]
    BY Ids DEF Init
  <2>4. changes \in 0..deploy.maxChanges
    <3>1. changes = 0
      BY DEF Init
    <3> QED BY <1>1, <3>1
  <2>5. events \in Seq(Event) /\ hook \in Hook /\ harm \in SUBSET Harms
    <3>1. events = <<>> /\ hook = NoHook /\ harm = {}
      BY DEF Init
    <3>2. <<>> \in Seq(Event)
      OBVIOUS
    <3> QED BY <3>1, <3>2, Ids
  <2> QED BY <1>1, <2>1, <2>2, <2>3, <2>4, <2>5 DEF TypeOK
<1>6. Len(events) = 0 /\ hook = NoHook /\ \A r \in Requests : call[r] = NoCall
  BY DEF Init
<1>7. Handling /\ Queued /\ HookHand
  BY <1>6, NotHooks DEF Handling, Queued, HookHand, Busy
<1>8. Fresh
  <2> SUFFICES ASSUME NEW r \in Requests
               PROVE  stripe[r].status = "none" /\ rows[<<"upgrade", r>>] = NoRow
    BY DEF Fresh
  <2>1. r \in Subs /\ r \notin deploy.known /\ <<"upgrade", r>> \in RowIds
    BY <1>1, Ids
  <2> QED BY <1>3, <1>4, <2>1
<1>9. Homes
  BY <1>1, <1>4 DEF Homes, Subs
<1>10. \A r \in Requests : CallHand(r)
  BY <1>6, NotCalls DEF CallHand
<1>11. HomeHand
  BY <1>4 DEF HomeHand
<1>12. RowHand
  <2> SUFFICES ASSUME NEW i \in RowIds
               PROVE  /\ rows[i].sub # None => Born(rows[i].sub)
                      /\ LiveRow(i) => rows[i].sub # None
                      /\ rows[i].status \in {"none", "deleted"} => ~Exists(i)
    BY DEF RowHand
  <2>1. CASE rows[i] = NoRow
    BY <2>1, NotRows, Live DEF LiveRow, Exists
  <2>2. CASE rows[i].status = "active" /\ rows[i].sub \in deploy.known
    <3>1. rows[i].sub \in Subs
      BY <1>1, <2>2 DEF Subs
    <3> QED BY <1>4, <2>2, <3>1, Ids, Live DEF Born
  <2> QED BY <1>3, <2>1, <2>2
<1> QED BY <1>5, <1>7, <1>8, <1>9, <1>10, <1>11, <1>12 DEF Base, InHand

LEMMA BaseKept ==
  ASSUME ConstantsOK, Base, [Next]_vars PROVE Base'
<1>1. ASSUME NEW r \in Requests, Start(r) PROVE Base'
  BY <1>1, StartBase
<1>2. ASSUME NEW r \in Requests, Step(r) PROVE Base'
  BY <1>2, ReviewBase, ListBase, MatchBase, AdoptBase, ReserveBase, JudgeBase, OpenBase,
     LookBase, FetchBase, ActivateBase, FindBase, CheckBase, RemoveBase, ResyncBase, SyncBase,
     RestoreBase, ReviveBase, RenewBase, ClearRowBase DEF Step
<1>3. ASSUME NEW r \in Requests, Pay(r) PROVE Base'
  BY <1>3, PayBase
<1>4. ASSUME NEW s \in Subs, Dashboard(s) \/ Change(s) \/ CancelLater(s) PROVE Base'
  BY <1>4, DashboardBase, ChangeBase, CancelLaterBase
<1>5. CASE ByHook
  BY <1>5, ReceiveBase, CrashBase, RetrieveBase, FindCreatedBase, CreateRowBase,
     FindUpdatedBase, OthersBase, FindDeletedBase, WriteBase DEF ByHook
<1>6. CASE UNCHANGED vars
  BY <1>6 DEF vars, Base, TypeOK, Handling, Queued, Fresh, Homes, InHand, HookHand, CallHand,
     HomeHand, RowHand, Busy, EventAt, Born, LiveRow, Exists, NewRows
<1> QED BY <1>1, <1>2, <1>3, <1>4, <1>5, <1>6 DEF Next, Idle

\* Every state has its type.
THEOREM TypeCorrect ==
  ASSUME ConstantsOK PROVE Spec => []TypeOK
<1>1. Init => Base
  BY InitBase
<1>2. Base /\ [Next]_vars => Base'
  BY BaseKept
<1>3. Base => TypeOK
  BY DEF Base
<1> QED BY <1>1, <1>2, <1>3, PTL DEF Spec

-----------------------------------------------------------------------------
(* Trials *)

\* No row goes, and a trial that is shown stays so.
RowsBetter ==
  /\ \A i \in RowIds : Exists(i) => Exists(i)'
  /\ TrialShown => TrialShown'

LEMMA TrialStays ==
  ASSUME \A i \in RowIds : Exists(i) => Exists(i)',
         \A i \in RowIds : Exists(i) /\ rows[i].trial => rows'[i].trial
  PROVE  RowsBetter
  BY DEF RowsBetter, TrialShown, All

LEMMA HomeTrialKept ==
  ASSUME ConstantsOK, Base, RowsBetter, NEW s \in Requests, HomeTrial(s),
         stripe'[s].status = "open" \/ Coming("completed", s)' =>
           stripe[s].status = "open" \/ Coming("completed", s),
         stripe'[s].home = stripe[s].home, stripe'[s].trial = stripe[s].trial,
         Born(s)' => Born(s) \/ Coming("completed", s)',
         Coming("completed", s) => Coming("completed", s)'
  PROVE  HomeTrial(s)'
<1>1. Exists(stripe[s].home) => stripe[s].home \in RowIds
  <2>1. s \in Subs /\ TypeOK
    BY Ids DEF Base
  <2> QED BY <2>1, Fields DEF Exists
<1>2. Exists(stripe[s].home) => Exists(stripe[s].home)'
  <2>1. \A i \in RowIds : Exists(i) => Exists(i)'
    BY DEF RowsBetter
  <2>2. \A i : (Exists(i)' <=> i # NoId /\ rows'[i] \notin {NoRow, Deleted})
    BY DEF Exists
  <2> QED BY <1>1, <2>1, <2>2 DEF Exists
<1> QED BY <1>1, <1>2 DEF HomeTrial, RowsBetter

LEMMA CallTrialKept ==
  ASSUME ConstantsOK, Base, RowsBetter, NEW r \in Requests, CallTrial(r), call'[r] = call[r]
  PROVE  CallTrial(r)'
<1>1. call[r].row \in RowIds \cup {NoId}
  BY Fields DEF Base
<1>2. Exists(call[r].row) => Exists(call[r].row)'
  BY <1>1 DEF RowsBetter, Exists
<1>3. Exists(call[r].row)' <=> call'[r].row # NoId /\ rows'[call'[r].row] \notin {NoRow, Deleted}
  BY DEF Exists
<1> QED BY <1>1, <1>2, <1>3 DEF CallTrial, RowsBetter, InFlight, At, Exists

\* Of the trials a step concerns only the request r.
LEMMA TrialsKept ==
  ASSUME ConstantsOK, Base, Trials, RowsBetter, NEW r \in Requests, Moved(r), CallTrial(r)',
         UNCHANGED <<stripe, events, hook>>
  PROVE  Trials'
<1>1. \A s \in Requests : HomeTrial(s)'
  <2> SUFFICES ASSUME NEW s \in Requests PROVE HomeTrial(s)'
    OBVIOUS
  <2>1. Coming("completed", s)' <=> Coming("completed", s)
    BY DEF Coming, EventAt
  <2> QED BY <2>1, HomeTrialKept DEF Trials, Born
<1>2. \A q \in Requests : CallTrial(q)'
  BY CallTrialKept DEF Trials, Moved
<1> QED BY <1>1, <1>2 DEF Trials

LEMMA SameRows ==
  ASSUME UNCHANGED rows
  PROVE  RowsBetter
  BY DEF RowsBetter, TrialShown, Exists, All

LEMMA ReadTrials ==
  ASSUME ConstantsOK, Base, Trials, NEW r \in Requests, Moved(r), Quietly, CallTrial(r)'
  PROVE  Trials'
  BY SameRows, TrialsKept DEF Quietly

LEMMA EndedTrial ==
  ASSUME NEW r \in Requests, Ended(r)
  PROVE  CallTrial(r)' /\ Moved(r)
<1>1. call'[r].at = "done" /\ ~call'[r].trialed
  BY NotCalls DEF Ended
<1> QED BY <1>1 DEF CallTrial, Ended, At

LEMMA StartTrials ==
  ASSUME ConstantsOK, Base, Trials, NEW r \in Requests, Start(r) PROVE Trials'
<1>1. TypeOK
  BY DEF Base
<1>2. /\ call[r].at = "idle" /\ Moved(r) /\ Quietly
      /\ call'[r].at \in {"review", "look", "find", "restore"}
      /\ call'[r].trialed = \E q \in Subs : Born(q) /\ stripe[q].trial /\ ~Untold(q)
  BY <1>1, StartDoes
<1>3. call'[r].trialed => TrialShown
  <2> SUFFICES ASSUME NEW q \in Subs, Born(q), stripe[q].trial, ~Untold(q) PROVE TrialShown
    BY <1>2
  <2>1. q \in Requests
    BY Ids DEF Base, Homes
  <2>2. ~Coming("completed", q)
    BY DEF Untold, Coming, EventAt
  <2> QED BY <2>1, <2>2 DEF Trials, HomeTrial
<1>4. CallTrial(r)'
  BY <1>2, <1>3, SameRows DEF CallTrial, At, Quietly, RowsBetter
<1> QED BY <1>2, <1>4, ReadTrials

\* What a request had when it began.
LEMMA TrialedKept ==
  ASSUME NEW r \in Requests, CallTrial(r), InFlight(r), call'[r].trialed = call[r].trialed,
         UNCHANGED rows
  PROVE  call'[r].trialed => TrialShown'
  BY SameRows DEF CallTrial, RowsBetter

LEMMA ReviewTrials ==
  ASSUME ConstantsOK, Base, Trials, NEW r \in Requests, Review(r) PROVE Trials'
<1>1. TypeOK /\ CallTrial(r) /\ CallHand(r)
  BY DEF Base, Trials, InHand
<1>2. /\ call[r].at = "review" /\ Moved(r) /\ Quietly /\ call'[r].at = "list"
      /\ call'[r].trialed = call[r].trialed
  BY <1>1, ReviewDoes
<1>3. call'[r].row = NoId \/ call'[r].row \in All
  BY <1>1, <1>2, ReviewDoes DEF CallHand
<1>4. call'[r].row = NoId \/ Exists(call[r].row)'
  BY <1>2, <1>3 DEF All, Exists, Quietly
<1>5. call'[r].trialed => TrialShown'
  BY <1>1, <1>2, TrialedKept DEF InFlight, Places, Quietly
<1>6. CallTrial(r)'
  BY <1>2, <1>4, <1>5 DEF CallTrial, At
<1> QED BY <1>2, <1>6, ReadTrials

LEMMA JudgeTrials ==
  ASSUME ConstantsOK, Base, Trials, NEW r \in Requests, Judge(r) PROVE Trials'
<1>1. TypeOK /\ CallTrial(r)
  BY DEF Base, Trials
<1>2. /\ call[r].at = "judge" /\ Quietly /\ Moved(r)
      /\ call'[r].at = "open" /\ call'[r].row = call[r].row
      /\ call'[r].trialed = call[r].trialed
      /\ call'[r].trial = \A i \in All : ~rows[i].trial /\ rows[i].status # "trialing"
  BY <1>1, JudgeDoes
<1>3. Exists(call[r].row)'
  BY <1>1, <1>2 DEF CallTrial, Exists, Quietly
<1>4. call'[r].trialed => TrialShown'
  BY <1>1, <1>2, TrialedKept DEF InFlight, Places, Quietly
<1>5. TrialShown' => ~call'[r].trial
  BY <1>2 DEF TrialShown, All, Exists, Quietly
<1>6. CallTrial(r)'
  BY <1>2, <1>3, <1>4, <1>5 DEF CallTrial, At
<1> QED BY <1>2, <1>6, ReadTrials

\* A step that goes on, and is not about to open a checkout.
LEMMA GoneOnTrial ==
  ASSUME ConstantsOK, Base, Trials, NEW r \in Requests, Moved(r), Quietly, InFlight(r),
         call'[r].at \notin {"list", "reserve", "judge", "open"},
         call'[r].trialed = call[r].trialed
  PROVE  Trials'
<1>1. call'[r].trialed => TrialShown'
  BY TrialedKept DEF Trials, Quietly
<1>2. CallTrial(r)'
  BY <1>1 DEF CallTrial, At
<1> QED BY <1>2, ReadTrials

LEMMA EndedTrials ==
  ASSUME ConstantsOK, Base, Trials, NEW r \in Requests, Ended(r), Quietly
  PROVE  Trials'
  BY EndedTrial, ReadTrials

LEMMA ListTrials ==
  ASSUME ConstantsOK, Base, Trials, NEW r \in Requests, List(r) PROVE Trials'
<1>1. TypeOK /\ CallTrial(r)
  BY DEF Base, Trials
<1>2. call[r].at = "list" /\ Quietly /\ InFlight(r)
  BY <1>1, ListDoes DEF InFlight, Places
<1>3. CASE Went(r, "match")
  BY <1>2, <1>3, GoneOnTrial DEF Went
<1>4. CASE Ended(r)
  BY <1>2, <1>4, EndedTrials
<1>5. CASE Went(r, "reserve")
  <2>1. call'[r].trialed => TrialShown'
    BY <1>1, <1>2, <1>5, TrialedKept DEF Went, Quietly
  <2>2. CallTrial(r)'
    BY <1>1, <1>2, <1>5, <2>1 DEF CallTrial, At, Went, Exists, Quietly
  <2> QED BY <1>2, <1>5, <2>2, ReadTrials DEF Went
<1> QED BY <1>1, <1>3, <1>4, <1>5, ListDoes

\* The other steps of a request that only read.
LEMMA OtherTrials ==
  ASSUME ConstantsOK, Base, Trials, NEW r \in Requests,
         \/ Match(r) \/ Look(r) \/ Fetch(r) \/ Find(r) \/ Check(r) \/ Resync(r) \/ Restore(r)
         \/ Revive(r)
  PROVE  Trials'
<1>1. TypeOK /\ InHand
  BY DEF Base
<1>2. CASE Match(r)
  <2>1. call[r].at = "match" /\ Quietly /\ (Went(r, "adopt") \/ Ended(r))
    BY <1>1, <1>2, MatchDoes
  <2> QED BY <2>1, GoneOnTrial, EndedTrials DEF Went, InFlight, Places
<1>3. CASE Look(r)
  <2>1. /\ call[r].at = "look" /\ Quietly
        /\ \/ Ended(r)
           \/ Moved(r) /\ call'[r].at = "fetch" /\ call'[r].trialed = call[r].trialed
    BY <1>1, <1>3, LookDoes
  <2> QED BY <2>1, GoneOnTrial, EndedTrials DEF InFlight, Places
<1>4. CASE Fetch(r)
  <2>1. /\ call[r].at = "fetch" /\ Quietly
        /\ Moved(r) /\ call'[r].at = "activate" /\ call'[r].trialed = call[r].trialed
    BY <1>1, <1>4, FetchDoes
  <2> QED BY <2>1, GoneOnTrial DEF InFlight, Places
<1>5. CASE Find(r)
  <2>1. /\ call[r].at = "find" /\ Quietly
        /\ \/ Ended(r)
           \/ Moved(r) /\ call'[r].at = "check" /\ call'[r].trialed = call[r].trialed
    BY <1>1, <1>5, FindDoes
  <2> QED BY <2>1, GoneOnTrial, EndedTrials DEF InFlight, Places
<1>6. CASE Check(r)
  <2>1. call[r].at = "check" /\ Quietly /\ (Went(r, "remove") \/ Went(r, "resync") \/ Ended(r))
    BY <1>1, <1>6, CheckDoes
  <2> QED BY <2>1, GoneOnTrial, EndedTrials DEF Went, InFlight, Places
<1>7. CASE Resync(r)
  <2>1. /\ call[r].at = "resync" /\ Quietly
        /\ Moved(r) /\ call'[r].at = "sync" /\ call'[r].trialed = call[r].trialed
    BY <1>1, <1>7, ResyncDoes
  <2> QED BY <2>1, GoneOnTrial DEF InFlight, Places
<1>8. CASE Restore(r)
  <2>1. /\ call[r].at = "restore" /\ Quietly
        /\ \/ Ended(r)
           \/ Moved(r) /\ call'[r].at = "revive" /\ call'[r].trialed = call[r].trialed
    BY <1>1, <1>8, RestoreDoes
  <2> QED BY <2>1, GoneOnTrial, EndedTrials DEF InFlight, Places
<1>9. CASE Revive(r)
  <2>1. /\ call[r].at = "revive" /\ Quietly
        /\ \/ Ended(r)
           \/ Moved(r) /\ call'[r].at = "renew" /\ call'[r].trialed = call[r].trialed
    BY <1>1, <1>9, ReviveDoes
  <2> QED BY <2>1, GoneOnTrial, EndedTrials DEF InFlight, Places
<1> QED BY <1>2, <1>3, <1>4, <1>5, <1>6, <1>7, <1>8, <1>9

\* A row that is rewritten still shows the trial.
LEMMA RewrittenBetter ==
  ASSUME ConstantsOK, Base, NEW i \in RowIds, NEW v \in Row, Rewritten(i, v),
         Exists(i) => v.status \notin {"none", "deleted"}, rows[i].trial => v.trial
  PROVE  RowsBetter
<1>1. Exists(i) => v \notin {NoRow, Deleted}
  BY NotRows
<1>2. \A j \in RowIds : rows'[j] = IF j = i /\ Exists(i) THEN v ELSE rows[j]
  BY DEF Rewritten
<1>3. \A j \in RowIds : Exists(j) => Exists(j)'
  BY <1>1, <1>2 DEF Exists
<1>4. \A j \in RowIds : Exists(j) /\ rows[j].trial => rows'[j].trial
  BY <1>2
<1> QED BY <1>3, <1>4, TrialStays

LEMMA AdoptTrials ==
  ASSUME ConstantsOK, Base, Trials, NEW r \in Requests, Adopt(r) PROVE Trials'
<1> DEFINE i == call[r].row
           v == [rows[i] EXCEPT !.sub = call[r].sub]
<1>1. TypeOK /\ CallHand(r) /\ RowHand
  BY DEF Base, InHand
<1>2. call[r].at = "adopt" /\ Ended(r) /\ RowsAlone /\ Rewritten(i, v)
  BY <1>1, AdoptDoes
<1>3. i \in RowIds /\ rows[i] \in Row /\ call[r].sub \in Subs
  BY <1>1, <1>2, Fields DEF CallHand, TypeOK
<1>4. v \in Row /\ v.status = rows[i].status /\ v.trial = rows[i].trial
  BY <1>3, RowFields
<1> HIDE DEF v
<1>5. RowsBetter
  BY <1>1, <1>2, <1>3, <1>4, RewrittenBetter DEF RowHand
<1> QED BY <1>2, <1>5, EndedTrial, TrialsKept DEF RowsAlone

LEMMA ReserveTrials ==
  ASSUME ConstantsOK, Base, Trials, NEW r \in Requests, Reserve(r) PROVE Trials'
<1> DEFINE i == <<"upgrade", r>>
<1>1. TypeOK /\ CallTrial(r) /\ Fresh /\ i \in RowIds
  BY Ids DEF Base, Trials
<1>2. call[r].at = "reserve" /\ RowsAlone
  BY <1>1, ReserveDoes
<1>3. CASE call[r].row # NoId /\ Went(r, "judge") /\ UNCHANGED rows
  <2>1. call'[r].trialed => TrialShown'
    BY <1>1, <1>2, <1>3, TrialedKept DEF Went, InFlight, Places
  <2>2. CallTrial(r)'
    BY <1>1, <1>2, <1>3, <2>1 DEF CallTrial, At, Went, Exists
  <2> QED BY <1>2, <1>3, <2>2, ReadTrials DEF Went, RowsAlone, Quietly
<1>4. CASE /\ call[r].row = NoId /\ Moved(r)
           /\ call'[r].at = "judge" /\ call'[r].row = i
           /\ call'[r].trialed = call[r].trialed
           /\ \A j \in RowIds : j # i => rows'[j] = rows[j]
           /\ rows'[i].status = "incomplete"
  <2>1. ~Exists(i) /\ rows'[i] \notin {NoRow, Deleted}
    BY <1>1, <1>2, <1>4, NotRows DEF Fresh, Exists
  <2>2. RowsBetter
    <3>1. \A j \in RowIds : Exists(j) => Exists(j)'
      BY <1>4, <2>1 DEF Exists
    <3>2. \A j \in RowIds : Exists(j) /\ rows[j].trial => rows'[j].trial
      BY <1>4, <2>1
    <3> QED BY <3>1, <3>2, TrialStays
  <2>3. call'[r].trialed => TrialShown'
    BY <1>1, <1>2, <1>4, <2>2 DEF CallTrial, RowsBetter, InFlight, Places
  <2>4. CallTrial(r)'
    BY <1>1, <1>4, <2>1, <2>3, Ids DEF CallTrial, At, Exists
  <2> QED BY <1>2, <1>4, <2>2, <2>4, TrialsKept DEF RowsAlone
<1> QED BY <1>1, <1>3, <1>4, ReserveDoes

LEMMA ActivateTrials ==
  ASSUME ConstantsOK, Base, Trials, NEW r \in Requests, Activate(r) PROVE Trials'
<1> DEFINE i == call[r].row
<1>1. TypeOK /\ CallHand(r) /\ InHand
  BY DEF Base, InHand
<1>2. /\ call[r].at = "activate" /\ Ended(r)
      /\ UNCHANGED <<deploy, stripe, events, hook, changes>>
  BY <1>1, ActivateDoes
<1>3. i \in RowIds /\ call[r].status \in BornStatus
  BY <1>1, <1>2, Fields DEF CallHand
<1>4. PICK v \in Row : /\ Rewritten(i, v) /\ v.status = call[r].status
                       /\ v.trial = (rows[i].trial \/ stripe[call[r].sub].trial)
  BY <1>1, ActivateDoes
<1>5. RowsBetter
  BY <1>3, <1>4, RewrittenBetter, Live
<1> QED BY <1>2, <1>5, EndedTrial, TrialsKept

LEMMA PendingTrials ==
  ASSUME ConstantsOK, Base, Trials, NEW r \in Requests, Ended(r), RowsAlone,
         NEW i \in RowIds, NEW p, PendingSet(i, p)
  PROVE  Trials'
<1>1. PICK v \in Row : /\ Rewritten(i, v)
                       /\ v.status = rows[i].status /\ v.trial = rows[i].trial
  BY DEF PendingSet
<1>2. RowsBetter
  BY <1>1, RewrittenBetter DEF Base, InHand, RowHand
<1> QED BY <1>2, EndedTrial, TrialsKept DEF RowsAlone

LEMMA SyncTrials ==
  ASSUME ConstantsOK, Base, Trials, NEW r \in Requests, Sync(r) \/ ClearRow(r) PROVE Trials'
<1>1. TypeOK /\ InHand
  BY DEF Base
<1> QED BY <1>1, SyncDoes, ClearRowDoes, PendingTrials

\* cancel deletes a row that is not there, or that nobody needs.
LEMMA RemoveTrials ==
  ASSUME ConstantsOK, Base, Trials, NEW r \in Requests, Remove(r), "deleted" \notin harm'
  PROVE  Trials'
<1> DEFINE i == call[r].row
<1>1. TypeOK /\ InHand
  BY DEF Base
<1>2. /\ call[r].at = "remove" /\ Ended(r)
      /\ UNCHANGED <<deploy, stripe, events, hook, changes>>
      /\ i \in RowIds /\ rows' \in [RowIds -> Row]
      /\ rows'[i] = Deleted /\ \A j \in RowIds : j # i => rows'[j] = rows[j]
      /\ harm' = harm \cup IF Exists(i) /\ Needed(i) THEN {"deleted"} ELSE {}
  BY <1>1, RemoveDoes
<1>3. ~Exists(i) \/ ~Needed(i)
  BY <1>2
<1>4. \A j \in RowIds : j # i => (Exists(j)' <=> Exists(j))
  BY <1>2 DEF Exists
<1>5. TrialShown => TrialShown'
  <2> SUFFICES ASSUME NEW j \in All, rows[j].trial PROVE TrialShown'
    BY DEF TrialShown
  <2>1. j # i
    BY <1>3 DEF Needed, All
  <2>2. j \in RowIds /\ j \in All' /\ rows'[j].trial
    BY <1>2, <1>4, <2>1 DEF All
  <2> QED BY <2>2 DEF TrialShown
<1>6. \A s \in Requests : HomeTrial(s)'
  <2> SUFFICES ASSUME NEW s \in Requests PROVE HomeTrial(s)'
    OBVIOUS
  <2>1. s \in Subs /\ stripe[s].home \in RowIds \cup {NoId}
    BY <1>1, Ids, Fields
  <2>2. Coming("completed", s)' <=> Coming("completed", s)
    BY <1>2 DEF Coming, EventAt
  <2>3. ASSUME stripe[s].status = "open" \/ Coming("completed", s), stripe[s].home = i, Exists(i)
        PROVE  FALSE
    <3>1. stripe[s].status # "none" /\ ~Over(s)
      <4>1. CASE stripe[s].status = "open"
        BY <4>1 DEF Over
      <4>2. CASE Coming("completed", s)
        <5>1. Untold(s)
          BY <4>2 DEF Coming, Untold, EventAt
        <5>2. Born(s)
          BY <4>2, Ids, NotHooks DEF Coming, EventAt, Base, Handling, Queued, Busy
        <5> QED BY <5>1, <5>2, Live DEF Over, Born
      <4> QED BY <2>3, <4>1, <4>2
    <3>2. RowOf(s) = i
      BY <2>3 DEF RowOf, Exists
    <3>3. Needed(i)
      BY <2>1, <3>1, <3>2 DEF Needed
    <3> QED BY <1>3, <2>3, <3>3
  <2>4. stripe[s].status = "open" \/ Coming("completed", s) => Exists(stripe[s].home)'
    <3> SUFFICES ASSUME stripe[s].status = "open" \/ Coming("completed", s)
                 PROVE  Exists(stripe[s].home)'
      OBVIOUS
    <3>1. Exists(stripe[s].home) /\ stripe[s].home \in RowIds
      BY <2>1 DEF Trials, HomeTrial, Exists
    <3>2. stripe[s].home # i
      BY <2>3, <3>1
    <3>3. rows'[stripe[s].home] = rows[stripe[s].home] /\ stripe' = stripe
      BY <1>2, <3>1, <3>2
    <3> QED BY <3>1, <3>3 DEF Exists
  <2> QED BY <1>2, <1>5, <2>2, <2>4 DEF Trials, HomeTrial, Born
<1>7. ASSUME NEW q \in Requests, q # r PROVE CallTrial(q)'
  <2>1. call'[q] = call[q] /\ call[q].row \in RowIds \cup {NoId}
    BY <1>1, <1>2, <1>7, Fields DEF Ended, Moved
  <2>2. call[q].at \in {"list", "reserve", "judge", "open"} /\ call[q].row = i => ~Exists(i)
    BY <1>3 DEF Needed
  <2>3. call[q].at \in {"list", "reserve", "judge", "open"} /\ Exists(call[q].row) =>
          Exists(call[q].row)'
    <3> SUFFICES ASSUME call[q].at \in {"list", "reserve", "judge", "open"}, Exists(call[q].row)
                 PROVE  Exists(call[q].row)'
      OBVIOUS
    <3>1. call[q].row \in RowIds /\ call[q].row # i
      BY <2>1, <2>2 DEF Exists
    <3> QED BY <1>2, <2>1, <3>1 DEF Exists
  <2> QED BY <1>5, <2>1, <2>3 DEF Trials, CallTrial, InFlight, At
<1>8. CallTrial(r)'
  BY <1>2, EndedTrial
<1> QED BY <1>6, <1>7, <1>8 DEF Trials

\* A step that rows and requests do not take part in.
LEMMA FarTrials ==
  ASSUME ConstantsOK, Base, Trials, UNCHANGED <<rows, call>>, \A s \in Requests : HomeTrial(s)'
  PROVE  Trials'
  BY SameRows, CallTrialKept DEF Trials

\* Stripe has more to tell, and not that a checkout is complete.
LEMMA ToldComing ==
  ASSUME TypeOK, NEW s \in Subs, NEW kind, Told(kind, s), UNCHANGED hook, NEW k, NEW q
  PROVE  /\ Coming(k, q) => Coming(k, q)'
         /\ Coming(k, q)' => Coming(k, q) \/ (k = kind /\ q = s)
<1>1. Len(events) \in Nat /\ Len(events') = Len(events) + 1
  BY DEF TypeOK, Told
<1>2. \A j \in 1..Len(events) : j \in 1..Len(events') /\ events'[j] = events[j]
  BY <1>1 DEF Told
<1>3. \A j \in 1..Len(events') : j \in 1..Len(events) \/ j = Len(events) + 1
  BY <1>1
<1>4. events'[Len(events) + 1].kind = kind /\ events'[Len(events) + 1].sub = s
  BY DEF Told
<1> QED BY <1>2, <1>3, <1>4 DEF Coming, EventAt

LEMMA ToldTrials ==
  ASSUME ConstantsOK, Base, Trials, NEW s \in Subs, NEW kind, Told(kind, s),
         UNCHANGED hook, kind # "completed",
         \A q \in Requests : /\ stripe'[q].home = stripe[q].home
                             /\ stripe'[q].trial = stripe[q].trial
                             /\ stripe'[q].status = "open" => stripe[q].status = "open"
                             /\ Born(q)' => Born(q),
         RowsBetter, \A q \in Requests : CallTrial(q)'
  PROVE  Trials'
<1>1. TypeOK
  BY DEF Base
<1>2. \A q \in Requests : Coming("completed", q)' <=> Coming("completed", q)
  BY <1>1, ToldComing
<1>3. \A q \in Requests : HomeTrial(q)'
  BY <1>2, HomeTrialKept DEF Trials
<1> QED BY <1>3 DEF Trials

LEMMA PayTrials ==
  ASSUME ConstantsOK, Base, Trials, NEW r \in Requests, Pay(r) PROVE Trials'
<1> DEFINE n == Len(events)
<1>1. TypeOK /\ r \in Subs
  BY Ids DEF Base
<1>2. /\ UNCHANGED <<rows, hook, call>> /\ stripe[r].status = "open"
      /\ StatusSet(r, IF stripe[r].trial THEN "trialing" ELSE "active")
  BY <1>1, PayDoes DEF ByStripe
<1>3. /\ Len(events') = n + 2 /\ \A j \in 1..n : events'[j] = events[j]
      /\ events'[n + 1].sub = r /\ events'[n + 2].sub = r
      /\ events'[n + 1].kind = "completed" \/ events'[n + 2].kind = "completed"
  BY <1>1, PayDoes
<1>4. n \in Nat
  BY <1>1 DEF TypeOK
<1>5. /\ \A j \in 1..n : j \in 1..Len(events')
      /\ n + 1 \in 1..Len(events') /\ n + 2 \in 1..Len(events')
      /\ \A j \in 1..Len(events') : j \in 1..n \/ j = n + 1 \/ j = n + 2
  BY <1>3, <1>4
<1> HIDE DEF n
<1>6. Coming("completed", r)'
  BY <1>3, <1>5 DEF Coming, EventAt
<1>7. ASSUME NEW s \in Requests, s # r
      PROVE  Coming("completed", s)' <=> Coming("completed", s)
  BY <1>2, <1>3, <1>5, <1>7 DEF Coming, EventAt, n
<1>8. ASSUME NEW s \in Requests PROVE HomeTrial(s)'
  <2>1. RowsBetter /\ HomeTrial(s) /\ s \in Subs
    BY <1>2, SameRows, Ids DEF Trials
  <2>2. stripe'[s].home = stripe[s].home /\ stripe'[s].trial = stripe[s].trial
    BY <1>2, <2>1 DEF StatusSet, StripeMoved
  <2>3. CASE s = r
    BY <1>2, <1>6, <2>1, <2>2, <2>3, HomeTrialKept
  <2>4. CASE s # r
    <3>1. stripe'[s] = stripe[s]
      BY <1>2, <2>1, <2>4 DEF StatusSet, StripeMoved
    <3> QED BY <1>7, <2>1, <2>4, <3>1, HomeTrialKept DEF Born
  <2> QED BY <2>3, <2>4
<1> QED BY <1>2, <1>8, FarTrials

LEMMA StripeTrials ==
  ASSUME ConstantsOK, Base, Trials, NEW s \in Subs,
         Dashboard(s) \/ Change(s) \/ CancelLater(s)
  PROVE  Trials'
<1>1. TypeOK /\ \A q \in Requests : q \in Subs /\ q \notin Foreign
  BY Ids DEF Base
<1>2. UNCHANGED <<rows, hook, call>>
  BY <1>1, DashboardDoes, ChangeDoes, CancelLaterDoes DEF ByStripe
<1>3. RowsBetter /\ \A q \in Requests : CallTrial(q)'
  BY <1>2, SameRows, CallTrialKept DEF Trials
<1>4. CASE Dashboard(s)
  <2>1. s \in Foreign /\ StatusSet(s, "active") /\ Told("created", s)
    BY <1>1, <1>4, DashboardDoes
  <2>2. \A q \in Requests : stripe'[q] = stripe[q]
    BY <1>1, <2>1 DEF StatusSet, StripeMoved
  <2> QED BY <1>2, <1>3, <2>1, <2>2, ToldTrials DEF Born
<1>5. CASE Change(s)
  <2>1. Born(s)
    BY <1>1, <1>5, ChangeDoes
  <2>2. PICK v \in BornStatus :
          StatusSet(s, v) /\ Told(IF v = "canceled" THEN "deleted" ELSE "updated", s)
    BY <1>1, <1>5, ChangeDoes
  <2>3. \A q \in Requests : /\ stripe'[q].home = stripe[q].home
                            /\ stripe'[q].trial = stripe[q].trial
                            /\ stripe'[q].status = "open" => stripe[q].status = "open"
                            /\ Born(q)' => Born(q)
    BY <1>1, <2>1, <2>2, Live DEF StatusSet, StripeMoved, Born
  <2> QED BY <1>2, <1>3, <2>2, <2>3, ToldTrials
<1>6. CASE CancelLater(s)
  <2>1. EndSet(s, TRUE) /\ Told("updated", s)
    BY <1>1, <1>6, CancelLaterDoes
  <2>2. \A q \in Requests : /\ stripe'[q].home = stripe[q].home
                            /\ stripe'[q].trial = stripe[q].trial
                            /\ stripe'[q].status = stripe[q].status
    BY <1>1, <2>1 DEF EndSet, StripeMoved
  <2> QED BY <1>2, <1>3, <2>1, <2>2, ToldTrials DEF Born
<1> QED BY <1>4, <1>5, <1>6

LEMMA RenewTrials ==
  ASSUME ConstantsOK, Base, Trials, NEW r \in Requests, Renew(r) PROVE Trials'
<1>1. TypeOK /\ InHand /\ CallTrial(r)
  BY DEF Base, Trials
<1>2. /\ call[r].at = "renew" /\ Went(r, "clear") /\ call[r].sub \in Subs
      /\ UNCHANGED <<deploy, rows, hook, changes, harm>>
  BY <1>1, RenewDoes
<1>3. CallTrial(r)'
  <2>1. call'[r].trialed => TrialShown'
    BY <1>1, <1>2, TrialedKept DEF Went, InFlight, Places
  <2> QED BY <1>2, <2>1 DEF CallTrial, At, Went
<1>4. RowsBetter /\ \A q \in Requests : CallTrial(q)'
  BY <1>2, <1>3, SameRows, CallTrialKept DEF Trials, Went, Moved
<1>5. CASE EndSet(call[r].sub, FALSE) /\ Told("updated", call[r].sub)
  <2>1. \A q \in Requests : /\ stripe'[q].home = stripe[q].home
                            /\ stripe'[q].trial = stripe[q].trial
                            /\ stripe'[q].status = stripe[q].status
    BY <1>2, <1>5, Ids DEF EndSet, StripeMoved
  <2> QED BY <1>2, <1>4, <1>5, <2>1, ToldTrials DEF Born
<1>6. CASE UNCHANGED <<stripe, events>>
  BY <1>2, <1>3, <1>4, <1>6, TrialsKept DEF Went
<1> QED BY <1>1, <1>5, <1>6, RenewDoes

LEMMA OpenTrials ==
  ASSUME ConstantsOK, Base, Trials, NEW r \in Requests, Open(r) PROVE Trials'
<1>1. TypeOK /\ CallTrial(r) /\ r \in Subs /\ \A q \in Requests : q \in Subs
  BY Ids DEF Base, Trials
<1>2. /\ call[r].at = "open" /\ Ended(r) /\ StripeMoved(r)
      /\ UNCHANGED <<deploy, rows, events, hook, changes, harm>>
      /\ stripe'[r].status = "open" /\ stripe'[r].home = call[r].row
  BY <1>1, OpenDoes
<1>3. RowsBetter /\ CallTrial(r)'
  BY <1>2, SameRows, EndedTrial
<1>4. \A q \in Requests : CallTrial(q)'
  BY <1>2, <1>3, CallTrialKept DEF Trials, Ended, Moved
<1>5. ASSUME NEW s \in Requests PROVE HomeTrial(s)'
  <2>1. Coming("completed", s)' <=> Coming("completed", s)
    BY <1>2 DEF Coming, EventAt
  <2>2. CASE s = r
    <3>1. Exists(stripe[r].home)'
      BY <1>1, <1>2 DEF CallTrial, Exists
    <3> QED BY <1>2, <2>2, <3>1, Live DEF HomeTrial, Born
  <2>3. CASE s # r
    <3>1. stripe'[s] = stripe[s]
      BY <1>1, <1>2, <2>3 DEF StripeMoved
    <3> QED BY <1>3, <2>1, <3>1, HomeTrialKept DEF Trials, Born
  <2> QED BY <2>2, <2>3
<1> QED BY <1>4, <1>5 DEF Trials

\* What is to come stays the same when an event is taken up.
LEMMA ReceiveComing ==
  ASSUME ConstantsOK, Base, Receive, NEW k, k # "none", NEW q
  PROVE  Coming(k, q)' <=> Coming(k, q)
<1>1. TypeOK /\ Len(events) \in Nat /\ hook.event.kind = "none"
  BY ReceiveDoes, NotHooks DEF Base, TypeOK, Handling
<1>2. PICK i \in 1..Len(events) :
        /\ hook'.event = events[i]
        /\ \/ events' = events
           \/ /\ Len(events') = Len(events) - 1
              /\ \A j \in 1..(Len(events) - 1) :
                   events'[j] = IF j < i THEN events[j] ELSE events[j + 1]
  BY <1>1, ReceiveDoes
<1>3. \A j \in 1..Len(events') : \E m \in 1..Len(events) : events'[j] = events[m]
  <2>1. CASE events' = events
    BY <2>1
  <2>2. CASE /\ Len(events') = Len(events) - 1
             /\ \A j \in 1..(Len(events) - 1) :
                  events'[j] = IF j < i THEN events[j] ELSE events[j + 1]
    BY <1>1, <2>2
  <2> QED BY <1>2, <2>1, <2>2
<1>4. \A m \in 1..Len(events) :
        events[m] = hook'.event \/ \E j \in 1..Len(events') : events'[j] = events[m]
  <2>1. CASE events' = events
    BY <2>1
  <2>2. CASE /\ Len(events') = Len(events) - 1
             /\ \A j \in 1..(Len(events) - 1) :
                  events'[j] = IF j < i THEN events[j] ELSE events[j + 1]
    <3> SUFFICES ASSUME NEW m \in 1..Len(events)
                 PROVE  events[m] = hook'.event \/
                          \E j \in 1..Len(events') : events'[j] = events[m]
      OBVIOUS
    <3>1. CASE m < i
      <4>1. m \in 1..(Len(events) - 1) /\ m \in 1..Len(events')
        BY <1>1, <2>2, <3>1
      <4> QED BY <2>2, <3>1, <4>1
    <3>2. CASE m = i
      BY <1>2, <3>2
    <3>3. CASE m > i
      <4>1. m - 1 \in 1..(Len(events) - 1) /\ m - 1 \in 1..Len(events')
            /\ ~(m - 1 < i) /\ (m - 1) + 1 = m
        BY <1>1, <2>2, <3>3
      <4> QED BY <2>2, <4>1
    <3> QED BY <3>1, <3>2, <3>3
  <2> QED BY <1>2, <2>1, <2>2
<1>5. Coming(k, q) => Coming(k, q)'
  BY <1>1, <1>4 DEF Coming, EventAt
<1>6. Coming(k, q)' => Coming(k, q)
  BY <1>2, <1>3 DEF Coming, EventAt
<1> QED BY <1>5, <1>6

\* A step of the handler after which the same completed checkouts are to be told.
LEMMA HookTrials ==
  ASSUME ConstantsOK, Base, Trials, UNCHANGED <<rows, stripe, call>>,
         \A s \in Requests : Coming("completed", s)' <=> Coming("completed", s)
  PROVE  Trials'
<1>1. \A s \in Requests : HomeTrial(s)'
  BY SameRows, HomeTrialKept DEF Trials, Born
<1> QED BY <1>1, FarTrials

\* The event is handled, or comes again.
LEMMA HandledTrials ==
  ASSUME ConstantsOK, Base, Trials, HooksAlone, hook' = NoHook,
         hook.event.kind = "completed" => Busy /\ hook.again
  PROVE  Trials'
<1>1. \A s \in Requests : Coming("completed", s)' <=> Coming("completed", s)
  BY NotHooks DEF Coming, EventAt, HooksAlone, Base, Handling
<1> QED BY <1>1, HookTrials DEF HooksAlone

LEMMA WentTrials ==
  ASSUME ConstantsOK, Base, Trials, HooksAlone, hook'.event.kind = hook.event.kind,
         hook'.event.sub = hook.event.sub
  PROVE  Trials'
<1>1. \A s \in Requests : Coming("completed", s)' <=> Coming("completed", s)
  BY DEF Coming, EventAt, HooksAlone
<1> QED BY <1>1, HookTrials DEF HooksAlone

LEMMA FindTrials ==
  ASSUME ConstantsOK, Base, Trials,
         Receive \/ Crash \/ Retrieve \/ FindCreated \/ FindUpdated \/ Others \/ FindDeleted
  PROVE  Trials'
<1>1. TypeOK /\ Handling
  BY DEF Base
<1>2. CASE Receive
  <2>1. \A s \in Requests : Coming("completed", s)' <=> Coming("completed", s)
    BY <1>2, ReceiveComing
  <2> QED BY <1>1, <1>2, <2>1, HookTrials, ReceiveDoes
<1>3. CASE Crash
  BY <1>3, CrashDoes, HandledTrials
<1>4. CASE Retrieve
  BY <1>1, <1>4, RetrieveDoes, WentTrials
<1>5. CASE FindCreated
  <2>1. /\ hook.event.kind = "created" /\ HooksAlone
        /\ hook' = NoHook \/ HookWent("create", hook.row)
    BY <1>1, <1>5, FindCreatedDoes
  <2> QED BY <2>1, HandledTrials, WentTrials DEF HookWent
<1>6. CASE FindUpdated
  <2>1. HooksAlone /\ \E pc, i : HookWent(pc, i)
    BY <1>1, <1>6, FindUpdatedDoes
  <2> QED BY <2>1, WentTrials DEF HookWent
<1>7. CASE Others
  <2>1. hook.at = "others" /\ HooksAlone /\ (hook' = NoHook \/ \E i : HookWent("write", i))
    BY <1>1, <1>7, OthersDoes
  <2>2. hook.event.kind = "updated"
    BY <1>1, <2>1 DEF Handling
  <2> QED BY <2>1, <2>2, HandledTrials, WentTrials DEF HookWent
<1>8. CASE FindDeleted
  <2>1. /\ hook.event.kind = "deleted" /\ HooksAlone
        /\ hook' = NoHook \/ \E i : HookWent("write", i)
    BY <1>1, <1>8, FindDeletedDoes
  <2> QED BY <2>1, HandledTrials, WentTrials DEF HookWent
<1> QED BY <1>2, <1>3, <1>4, <1>5, <1>6, <1>7, <1>8

LEMMA CreateRowTrials ==
  ASSUME ConstantsOK, Base, Trials, CreateRow PROVE Trials'
<1>1. TypeOK /\ Handling /\ InHand
  BY DEF Base
<1>2. /\ hook.at = "create" /\ hook' = NoHook
      /\ UNCHANGED <<deploy, stripe, events, call, changes, harm>>
  BY <1>1, CreateRowDoes
<1>3. PICK i \in RowIds :
        /\ rows[i] = NoRow
        /\ \A j \in RowIds : j # i => rows'[j] = rows[j]
  BY <1>1, CreateRowDoes
<1>4. \A j \in RowIds : Exists(j) => rows'[j] = rows[j]
  BY <1>3 DEF Exists
<1>5. RowsBetter
  BY <1>4, TrialStays DEF Exists
<1>6. hook.event.kind = "created"
  BY <1>1, <1>2 DEF Handling
<1>7. \A s \in Requests : Coming("completed", s)' <=> Coming("completed", s)
  BY <1>2, <1>6, NotHooks DEF Coming, EventAt
<1>8. \A s \in Requests : HomeTrial(s)'
  BY <1>2, <1>5, <1>7, HomeTrialKept DEF Trials, Born
<1> QED BY <1>2, <1>5, <1>8, CallTrialKept DEF Trials

\* The row that shows the completed checkout shows its trial.
LEMMA WriteTrials ==
  ASSUME ConstantsOK, Base, Trials, Write PROVE Trials'
<1> DEFINE i == hook.row
<1>1. TypeOK /\ Handling /\ InHand
  BY DEF Base
<1>2. /\ hook.at = "write" /\ hook' = NoHook
      /\ UNCHANGED <<deploy, stripe, events, call, changes, harm>>
      /\ hook.event \in Event /\ i \in RowIds
  BY <1>1, WriteDoes
<1>3. PICK v \in Row :
        /\ Rewritten(i, v) /\ v.status = hook.event.status
        /\ v.trial = (rows[i].trial \/ stripe[hook.event.sub].trial)
  BY <1>1, WriteDoes
<1>4. v.status \in BornStatus
  BY <1>2, <1>3 DEF Event
<1>5. RowsBetter
  BY <1>2, <1>3, <1>4, RewrittenBetter, Live
<1>6. ASSUME NEW s \in Requests PROVE HomeTrial(s)'
  <2>1. CASE Coming("completed", s)' <=> Coming("completed", s)
    BY <1>2, <1>5, <2>1, HomeTrialKept DEF Trials, Born
  <2>2. CASE ~(Coming("completed", s)' <=> Coming("completed", s))
    <3>1. ~Coming("completed", s)' /\ hook.event.kind = "completed" /\ hook.event.sub = s
      BY <1>2, <2>2, NotHooks DEF Coming, EventAt
    <3>2. Coming("completed", s) /\ Exists(stripe[s].home) /\ i = stripe[s].home
      BY <1>1, <1>2, <3>1 DEF Coming, Trials, HomeTrial, Handling, Busy
    <3>3. Exists(i) /\ rows'[i] = v
      BY <1>2, <1>3, <3>2 DEF Rewritten
    <3>4. stripe[s].trial => rows'[i].trial
      BY <1>3, <3>1, <3>3
    <3>5. stripe[s].trial => TrialShown'
      <4>1. stripe[s].home \in RowIds /\ stripe' = stripe
        BY <1>2, <3>2
      <4>2. stripe[s].home \in All'
        BY <1>2, <1>3, <1>4, <3>2, <3>3, <4>1, NotRows, Live DEF All, Exists
      <4> QED BY <3>2, <3>4, <4>2 DEF TrialShown
    <3> QED BY <1>2, <3>1, <3>5, Live DEF HomeTrial, Born, Base, Handling, Busy
  <2> QED BY <2>1, <2>2
<1> QED BY <1>2, <1>5, <1>6, CallTrialKept DEF Trials

LEMMA InitTrials ==
  ASSUME ConstantsOK, Init PROVE Trials
<1>1. deploy.known \subseteq Foreign
  BY DeployTyped DEF Init
<1>2. \A s \in Requests : stripe[s].status = "none"
  <2>1. \A s \in Requests : s \in Subs /\ s \notin deploy.known
    BY <1>1, Ids
  <2>2. stripe = [s \in Subs |-> [status |-> IF s \in deploy.known THEN "active" ELSE "none",
                                  home |-> NoId, trial |-> FALSE, pending |-> FALSE]]
    BY DEF Init
  <2> QED BY <2>1, <2>2
<1>3. Len(events) = 0 /\ hook.event.kind = "none"
  BY NotHooks DEF Init
<1>4. \A s \in Requests : HomeTrial(s)
  BY <1>2, <1>3, Live DEF HomeTrial, Coming, Born
<1>5. \A r \in Requests : CallTrial(r)
  BY NotCalls DEF Init, CallTrial, InFlight, Places, At
<1> QED BY <1>4, <1>5 DEF Trials

\* No harm is undone.
LEMMA HarmGrows ==
  ASSUME ConstantsOK, Base, [Next]_vars
  PROVE  harm \subseteq harm'
<1>1. TypeOK /\ InHand /\ Handling
  BY DEF Base
<1>2. ASSUME NEW r \in Requests, Start(r) \/ Step(r) PROVE harm \subseteq harm'
  BY <1>2 DEF Start, Step, Review, List, Match, Adopt, Reserve, Judge, Open, Look, Fetch,
     Activate, Find, Check, Remove, Resync, Sync, Restore, Revive, Renew, ClearRow, Quietly,
     RowsAlone
<1>3. ASSUME NEW r \in Requests, Pay(r) PROVE harm \subseteq harm'
  BY <1>3 DEF Pay
<1>4. ASSUME NEW s \in Subs, Dashboard(s) \/ Change(s) \/ CancelLater(s)
      PROVE  harm \subseteq harm'
  BY <1>4 DEF Dashboard, Change, CancelLater
<1>5. CASE ByHook
  BY <1>5 DEF ByHook, Receive, Crash, Retrieve, FindCreated, CreateRow, FindUpdated, Others,
     FindDeleted, Write
<1>6. CASE UNCHANGED vars
  BY <1>6 DEF vars
<1> QED BY <1>2, <1>3, <1>4, <1>5, <1>6 DEF Next, Idle

LEMMA TrialInvKept ==
  ASSUME ConstantsOK, TrialInv, [Next]_vars PROVE TrialInv'
<1>1. Base /\ Base' /\ harm \subseteq harm'
  BY BaseKept, HarmGrows DEF TrialInv
<1> SUFFICES ASSUME "deleted" \notin harm' PROVE Trials'
  BY <1>1 DEF TrialInv
<1>2. Trials
  BY <1>1 DEF TrialInv
<1>3. ASSUME NEW r \in Requests, Start(r) PROVE Trials'
  BY <1>1, <1>2, <1>3, StartTrials
<1>4. ASSUME NEW r \in Requests, Step(r) PROVE Trials'
  BY <1>1, <1>2, <1>4, ReviewTrials, ListTrials, OtherTrials, AdoptTrials, ReserveTrials,
     JudgeTrials, OpenTrials, ActivateTrials, RemoveTrials, SyncTrials, RenewTrials DEF Step
<1>5. ASSUME NEW r \in Requests, Pay(r) PROVE Trials'
  BY <1>1, <1>2, <1>5, PayTrials
<1>6. ASSUME NEW s \in Subs, Dashboard(s) \/ Change(s) \/ CancelLater(s) PROVE Trials'
  BY <1>1, <1>2, <1>6, StripeTrials
<1>7. CASE ByHook
  BY <1>1, <1>2, <1>7, FindTrials, CreateRowTrials, WriteTrials DEF ByHook
<1>8. CASE UNCHANGED vars
  BY <1>1, <1>2, <1>8, HookTrials DEF vars, Coming, EventAt
<1> QED BY <1>3, <1>4, <1>5, <1>6, <1>7, <1>8 DEF Next, Idle

-----------------------------------------------------------------------------
(* Order *)

LEMMA StepMoves ==
  ASSUME ConstantsOK, TypeOK, InHand, NEW r \in Requests, Step(r)
  PROVE  InFlight(r) /\ hook' = hook /\ Moved(r)
<1>1. InFlight(r) /\ hook' = hook
  BY DEF Step, Review, List, Match, Adopt, Reserve, Judge, Open, Look, Fetch,
     Activate, Find, Check, Remove, Resync, Sync, Restore, Revive, Renew, ClearRow, Quietly,
     RowsAlone, At, InFlight, Places
<1>2. CASE Review(r) \/ List(r) \/ Match(r) \/ Adopt(r) \/ Reserve(r)
  BY <1>1, <1>2, ReviewDoes, ListDoes, MatchDoes, AdoptDoes, ReserveDoes DEF Went, Ended
<1>3. CASE Judge(r) \/ Open(r) \/ Look(r) \/ Fetch(r) \/ Activate(r)
  BY <1>1, <1>3, JudgeDoes, OpenDoes, LookDoes, FetchDoes, ActivateDoes DEF Went, Ended
<1>4. CASE Find(r) \/ Check(r) \/ Remove(r) \/ Resync(r) \/ Sync(r)
  BY <1>1, <1>4, FindDoes, CheckDoes, RemoveDoes, ResyncDoes, SyncDoes DEF Went, Ended
<1>5. CASE Restore(r) \/ Revive(r) \/ Renew(r) \/ ClearRow(r)
  BY <1>1, <1>5, RestoreDoes, ReviveDoes, RenewDoes, ClearRowDoes DEF Went, Ended
<1> QED BY <1>1, <1>2, <1>3, <1>4, <1>5 DEF Step

LEMMA AloneKept ==
  ASSUME ConstantsOK, Base, deploy.serial, Alone, [Next]_vars PROVE Alone'
<1>1. TypeOK /\ InHand /\ Handling
  BY DEF Base
<1>2. ASSUME NEW r \in Requests, Start(r) PROVE Alone'
  <2>1. Quiet /\ Moved(r) /\ Quietly
    BY <1>1, <1>2, StartDoes DEF Clear
  <2>2. ~Busy' /\ \A q \in Requests : InFlight(q)' => q = r
    BY <2>1 DEF Quiet, Moved, InFlight, Busy, Quietly
  <2> QED BY <2>2 DEF Alone
<1>3. ASSUME NEW r \in Requests, Step(r) PROVE Alone'
  <2>1. InFlight(r) /\ hook' = hook /\ Moved(r)
    BY <1>1, <1>3, StepMoves
  <2>2. ~Busy' /\ \A q \in Requests : InFlight(q)' => q = r
    BY <2>1 DEF Alone, Moved, InFlight, Busy
  <2> QED BY <2>2 DEF Alone
<1>4. ASSUME NEW r \in Requests, Pay(r) PROVE Alone'
  BY <1>4 DEF Pay, ByStripe, Alone, InFlight, Busy
<1>5. ASSUME NEW s \in Subs, Dashboard(s) \/ Change(s) \/ CancelLater(s) PROVE Alone'
  BY <1>5 DEF Dashboard, Change, CancelLater, ByStripe, Alone, InFlight, Busy
<1>6. CASE Receive
  BY <1>6 DEF Receive, Clear, Quiet, Alone, InFlight
<1>7. CASE ByHook /\ ~Receive
  <2>1. Busy /\ call' = call
    BY <1>7 DEF ByHook, Crash, Retrieve, FindCreated, CreateRow, FindUpdated, Others,
       FindDeleted, Write, Busy
  <2> QED BY <2>1 DEF Alone, InFlight
<1>8. CASE UNCHANGED vars
  BY <1>8 DEF vars, Alone, InFlight, Busy
<1> QED BY <1>2, <1>3, <1>4, <1>5, <1>6, <1>7, <1>8 DEF Next, Idle

LEMMA OrderStays ==
  ASSUME InOrder, UNCHANGED <<stripe, events, hook>> PROVE InOrder'
  BY DEF InOrder, InQueue, InTurn, Busy, Current, Born

\* Nothing is told about a subscription that is not there yet.
LEMMA Unborn ==
  ASSUME Base, NEW s, ~Born(s), NEW j \in 1..Len(events)
  PROVE  events[j].sub # s
  BY DEF Base, Queued

\* Stripe tells what s is now; of its start first.
LEMMA ToldOrder ==
  ASSUME ConstantsOK, Base, InOrder, ~Busy, UNCHANGED hook, NEW s \in Subs, StripeMoved(s),
         NEW kind, Told(kind, s), stripe'[s].status \in BornStatus,
         kind = "created" => ~Born(s) /\ ~stripe'[s].pending, kind # "completed"
  PROVE  InOrder'
<1> DEFINE n == Len(events)
           e == events'[n + 1]
<1>1. TypeOK /\ n \in Nat
  BY DEF Base, TypeOK
<1>2. /\ Len(events') = n + 1 /\ \A j \in 1..n : events'[j] = events[j]
      /\ e.kind = kind /\ e.sub = s
      /\ e.status = stripe'[s].status /\ e.pending = stripe'[s].pending
  BY DEF Told
<1>3. \A j \in 1..n : events[j].sub \in Subs
  BY <1>1, Fields
<1>4. /\ \A j \in 1..Len(events') : j \in 1..n \/ j = n + 1
      /\ \A j \in 1..n : /\ n + 1 \in (j + 1)..Len(events')
                         /\ \A k \in (j + 1)..n : k \in (j + 1)..Len(events') /\ k \in 1..n
                         /\ \A k \in (j + 1)..Len(events') : k \in (j + 1)..n \/ k = n + 1
      /\ ((n + 1) + 1)..Len(events') = {}
  BY <1>1, <1>2
<1>5. \A q \in Subs : q # s => stripe'[q] = stripe[q]
  BY DEF StripeMoved
<1>6. kind = "created" => \A j \in 1..n : events[j].sub # s
  BY Unborn
<1>7. kind \in Early => kind = "created"
  BY DEF Early
<1> HIDE DEF n, e
<1>8. ASSUME NEW j \in 1..n PROVE InQueue(j)'
  <2>1. InQueue(j) /\ events'[j] = events[j] /\ events[j].sub \in Subs
    BY <1>2, <1>3, <1>8 DEF InOrder, n
  <2>2. (\A k \in (j + 1)..Len(events') : events'[k].sub # events'[j].sub) => Current(events[j])'
    <3> SUFFICES ASSUME \A k \in (j + 1)..Len(events') : events'[k].sub # events'[j].sub
                 PROVE  Current(events[j])'
      OBVIOUS
    <3>1. events[j].sub # s
      BY <1>2, <1>4, <1>8, <2>1 DEF e
    <3>2. \A k \in (j + 1)..n : events[k].sub # events[j].sub
      BY <1>2, <1>4, <1>8, <2>1
    <3>3. Current(events[j])
      BY <2>1, <3>2 DEF InQueue, n
    <3> QED BY <1>5, <2>1, <3>1, <3>3 DEF Current
  <2>3. ASSUME NEW k \in (j + 1)..Len(events'), events'[k].sub = events'[j].sub
        PROVE  /\ events'[k].kind \in Early => events'[j].kind \in Early
               /\ events'[j].kind # "created" \/ events'[k].kind # "created"
    <3>1. CASE k \in (j + 1)..n
      <4>1. events'[k] = events[k]
        BY <1>2, <1>4, <1>8, <3>1
      <4> QED BY <2>1, <2>3, <3>1, <4>1 DEF InQueue, n
    <3>2. CASE k = n + 1
      <4>1. events'[k].kind = kind /\ events[j].sub = s
        BY <1>2, <2>1, <2>3, <3>2 DEF e
      <4>2. kind # "created"
        BY <1>6, <1>8, <4>1
      <4> QED BY <1>7, <4>1, <4>2
    <3> QED BY <1>4, <1>8, <2>3, <3>1, <3>2
  <2> QED BY <2>1, <2>2, <2>3 DEF InQueue
<1>9. ASSUME NEW j, j = n + 1 PROVE InQueue(j)'
  <2>1. events'[j] = e /\ \A k \in (j + 1)..Len(events') : FALSE
    BY <1>4, <1>9 DEF e
  <2>2. Current(events[j])'
    BY <1>2, <2>1 DEF Current
  <2>3. e.kind = "created" => ~e.pending
    BY <1>2
  <2> QED BY <2>1, <2>2, <2>3 DEF InQueue
<1>10. \A q \in Subs : ~Born(q)' => ~stripe'[q].pending
  BY <1>5 DEF InOrder, Born
<1>11. \A j \in 1..Len(events') : InQueue(j)'
  BY <1>4, <1>8, <1>9
<1> QED BY <1>10, <1>11 DEF InOrder, Busy

LEMMA PayOrder ==
  ASSUME ConstantsOK, Base, InOrder, ~Busy, NEW r \in Requests, Pay(r)
  PROVE  InOrder'
<1> DEFINE n == Len(events)
           e == events'[n + 1]
           f == events'[n + 2]
<1>1. TypeOK /\ n \in Nat /\ r \in Subs
  <2>1. TypeOK /\ r \in Subs
    BY Ids DEF Base
  <2> QED BY <2>1 DEF TypeOK
<1>2. /\ UNCHANGED hook /\ stripe[r].status = "open"
      /\ StatusSet(r, IF stripe[r].trial THEN "trialing" ELSE "active")
  BY <1>1, PayDoes DEF ByStripe
<1>3. /\ Len(events') = n + 2 /\ \A j \in 1..n : events'[j] = events[j]
      /\ e.sub = r /\ f.sub = r
      /\ e.status = stripe'[r].status /\ e.pending = stripe'[r].pending
      /\ f.status = stripe'[r].status /\ f.pending = stripe'[r].pending
      /\ \/ e.kind = "created" /\ f.kind = "completed"
         \/ e.kind = "completed" /\ f.kind = "created"
  BY <1>1, PayDoes
<1>4. ~Born(r) /\ stripe'[r].status \in BornStatus
  BY <1>2, Live DEF Born, StatusSet
<1>5. ~stripe'[r].pending
  BY <1>1, <1>2, <1>4 DEF InOrder, StatusSet
<1>6. \A j \in 1..n : events[j].sub # r /\ events[j].sub \in Subs
  BY <1>1, <1>4, Unborn, Fields
<1>7. \A q \in Subs : q # r => stripe'[q] = stripe[q]
  BY <1>2 DEF StatusSet, StripeMoved
<1>8. /\ \A j \in 1..Len(events') : j \in 1..n \/ j = n + 1 \/ j = n + 2
      /\ \A j \in 1..n :
           /\ \A k \in (j + 1)..n : k \in (j + 1)..Len(events') /\ k \in 1..n
           /\ \A k \in (j + 1)..Len(events') : k \in (j + 1)..n \/ k = n + 1 \/ k = n + 2
      /\ \A k \in ((n + 1) + 1)..Len(events') : k = n + 2
      /\ ((n + 2) + 1)..Len(events') = {}
  BY <1>1, <1>3
<1> HIDE DEF n, e, f
<1>9. ASSUME NEW j \in 1..n PROVE InQueue(j)'
  <2>1. /\ InQueue(j) /\ events'[j] = events[j] /\ events[j].sub \in Subs
        /\ stripe'[events[j].sub] = stripe[events[j].sub] /\ events[j].sub # r
    BY <1>3, <1>6, <1>7, <1>9 DEF InOrder, n
  <2>2. \A k \in (j + 1)..Len(events') :
          events'[k].sub = events'[j].sub => k \in (j + 1)..n /\ events'[k] = events[k]
    BY <1>3, <1>8, <1>9, <2>1 DEF e, f
  <2>3. \A k \in (j + 1)..n : k \in (j + 1)..Len(events') /\ events'[k] = events[k]
    BY <1>3, <1>8, <1>9
  <2> QED BY <2>1, <2>2, <2>3 DEF InQueue, Current, n
<1>10. ASSUME NEW j, j = n + 1 PROVE InQueue(j)'
  <2>1. events'[j] = e /\ \A k \in (j + 1)..Len(events') : events'[k] = f
    BY <1>8, <1>10 DEF e, f
  <2>2. Current(events[j])'
    BY <1>3, <2>1 DEF Current
  <2>3. ~e.pending /\ e.kind \in Early /\ (e.kind # "created" \/ f.kind # "created")
    BY <1>3, <1>5 DEF Early
  <2> QED BY <2>1, <2>2, <2>3 DEF InQueue
<1>11. ASSUME NEW j, j = n + 2 PROVE InQueue(j)'
  <2>1. events'[j] = f /\ \A k \in (j + 1)..Len(events') : FALSE
    BY <1>8, <1>11 DEF f
  <2>2. Current(events[j])'
    BY <1>3, <2>1 DEF Current
  <2>3. ~f.pending
    BY <1>3, <1>5
  <2> QED BY <2>1, <2>2, <2>3 DEF InQueue
<1>12. \A q \in Subs : ~Born(q)' => ~stripe'[q].pending
  BY <1>5, <1>7 DEF InOrder, Born
<1>13. \A j \in 1..Len(events') : InQueue(j)'
  BY <1>8, <1>9, <1>10, <1>11
<1> QED BY <1>2, <1>12, <1>13 DEF InOrder, Busy

LEMMA StripeOrder ==
  ASSUME ConstantsOK, Base, InOrder, ~Busy, NEW s \in Subs,
         Dashboard(s) \/ Change(s) \/ CancelLater(s)
  PROVE  InOrder'
<1>1. TypeOK
  BY DEF Base
<1>2. UNCHANGED hook
  BY <1>1, DashboardDoes, ChangeDoes, CancelLaterDoes DEF ByStripe
<1>3. CASE Dashboard(s)
  <2>1. /\ StatusSet(s, "active") /\ Told("created", s) /\ ~Born(s)
    BY <1>1, <1>3, DashboardDoes, Live DEF Born
  <2>2. ~stripe'[s].pending
    BY <2>1 DEF InOrder, StatusSet
  <2> QED BY <1>2, <2>1, <2>2, ToldOrder, Live DEF StatusSet
<1>4. CASE Change(s)
  <2>1. PICK v \in BornStatus :
          StatusSet(s, v) /\ Told(IF v = "canceled" THEN "deleted" ELSE "updated", s)
    BY <1>1, <1>4, ChangeDoes
  <2> QED BY <1>2, <2>1, ToldOrder DEF StatusSet
<1>5. CASE CancelLater(s)
  <2>1. EndSet(s, TRUE) /\ Told("updated", s) /\ LiveSub(s)
    BY <1>1, <1>5, CancelLaterDoes
  <2> QED BY <1>2, <2>1, ToldOrder, Live DEF EndSet, LiveSub
<1> QED BY <1>3, <1>4, <1>5

LEMMA OpenOrder ==
  ASSUME ConstantsOK, Base, InOrder, ~Busy, NEW r \in Requests, Open(r)
  PROVE  InOrder'
<1>1. TypeOK /\ r \in Subs /\ Fresh
  BY Ids DEF Base
<1>2. /\ call[r].at = "open" /\ StripeMoved(r)
      /\ UNCHANGED <<deploy, rows, events, hook, changes, harm>>
      /\ stripe'[r].status = "open" /\ stripe'[r].pending = stripe[r].pending
  BY <1>1, OpenDoes
<1>3. ~Born(r) /\ ~Born(r)'
  BY <1>1, <1>2, Live DEF Fresh, Born
<1>4. \A j \in 1..Len(events) : stripe'[events[j].sub] = stripe[events[j].sub]
  BY <1>1, <1>2, <1>3, Unborn, Fields DEF StripeMoved
<1>5. \A j \in 1..Len(events) : InQueue(j)'
  BY <1>2, <1>4 DEF InOrder, InQueue, Current
<1>6. \A q \in Subs : ~Born(q)' => ~stripe'[q].pending
  BY <1>2, <1>3 DEF InOrder, Born, StripeMoved
<1> QED BY <1>2, <1>5, <1>6 DEF InOrder, Busy

LEMMA RenewOrder ==
  ASSUME ConstantsOK, Base, InOrder, ~Busy, NEW r \in Requests, Renew(r)
  PROVE  InOrder'
<1>1. TypeOK /\ InHand /\ CallHand(r)
  BY DEF Base, InHand
<1>2. call[r].at = "renew" /\ call[r].sub \in Subs /\ UNCHANGED hook
  BY <1>1, RenewDoes
<1>3. Born(call[r].sub)
  BY <1>1, <1>2, Ids DEF CallHand
<1>4. CASE EndSet(call[r].sub, FALSE) /\ Told("updated", call[r].sub)
  BY <1>2, <1>3, <1>4, ToldOrder DEF EndSet, Born
<1>5. CASE UNCHANGED <<stripe, events>>
  BY <1>2, <1>5, OrderStays
<1> QED BY <1>1, <1>4, <1>5, RenewDoes

LEMMA ReceiveOrder ==
  ASSUME ConstantsOK, Base, InOrder, deploy.serial, Receive
  PROVE  InOrder'
<1> DEFINE n == Len(events)
<1>1. TypeOK /\ n \in Nat
  BY DEF Base, TypeOK
<1>2. /\ UNCHANGED stripe /\ 1 \in 1..n
      /\ hook'.event = events[1] /\ hook'.at \in {"retrieve", "find"}
      /\ \/ events' = events
         \/ /\ Len(events') = n - 1
            /\ \A j \in 1..(n - 1) : events'[j] = events[j + 1]
  <2>1. UNCHANGED stripe
    BY <1>1, ReceiveDoes
  <2>2. PICK i \in 1..n :
              /\ i = 1
              /\ hook'.event = events[i]
              /\ hook'.at = IF events[i].kind = "completed" THEN "retrieve" ELSE "find"
              /\ \/ events' = events
                 \/ /\ Len(events') = n - 1
                    /\ \A j \in 1..(n - 1) :
                         events'[j] = IF j < i THEN events[j] ELSE events[j + 1]
    BY <1>1, ReceiveDoes
  <2>3. CASE events' = events
    BY <2>1, <2>2, <2>3
  <2>4. CASE /\ Len(events') = n - 1
             /\ \A j \in 1..(n - 1) : events'[j] = IF j < i THEN events[j] ELSE events[j + 1]
    <3>1. \A j \in 1..(n - 1) : ~(j < i)
      BY <2>2
    <3>2. \A j \in 1..(n - 1) : events'[j] = events[j + 1]
      BY <2>4, <3>1
    <3> QED BY <2>1, <2>2, <2>4, <3>2
  <2> QED BY <2>2, <2>3, <2>4
<1>3. InQueue(1)
  BY <1>2 DEF InOrder
<1>4. hook'.event.kind = "created" => ~hook'.event.pending
  BY <1>2, <1>3 DEF InQueue
<1>5. \A j \in 1..Len(events') : InQueue(j)'
  <2>1. CASE events' = events
    BY <1>2, <2>1 DEF InOrder, InQueue, Current
  <2>2. CASE Len(events') = n - 1 /\ \A j \in 1..(n - 1) : events'[j] = events[j + 1]
    <3> SUFFICES ASSUME NEW j \in 1..(n - 1) PROVE InQueue(j)'
      BY <2>2
    <3>1. j + 1 \in 1..n /\ InQueue(j + 1) /\ events'[j] = events[j + 1]
      BY <1>1, <2>2 DEF InOrder
    <3>2. \A k \in ((j + 1) + 1)..n : k - 1 \in (j + 1)..Len(events') /\ events'[k - 1] = events[k]
      BY <1>1, <2>2
    <3>3. \A k \in (j + 1)..Len(events') : k + 1 \in ((j + 1) + 1)..n /\ events'[k] = events[k + 1]
      BY <1>1, <2>2
    <3> HIDE DEF n
    <3>4. (\A k \in (j + 1)..Len(events') : events'[k].sub # events'[j].sub) =>
            Current(events[j])'
      <4> SUFFICES ASSUME \A k \in (j + 1)..Len(events') : events'[k].sub # events'[j].sub
                   PROVE  Current(events[j])'
        OBVIOUS
      <4>1. \A k \in ((j + 1) + 1)..n : events[k].sub # events[j + 1].sub
        BY <3>1, <3>2
      <4> QED BY <1>2, <3>1, <4>1 DEF InQueue, Current, n
    <3>5. ASSUME NEW k \in (j + 1)..Len(events'), events'[k].sub = events'[j].sub
          PROVE  /\ events'[k].kind \in Early => events'[j].kind \in Early
                 /\ events'[j].kind # "created" \/ events'[k].kind # "created"
      BY <3>1, <3>3, <3>5 DEF InQueue, n
    <3> QED BY <3>1, <3>4, <3>5 DEF InQueue
  <2> QED BY <1>2, <2>1, <2>2
<1>6. \A k \in 2..n : events[k].sub = events[1].sub =>
        /\ events[k].kind \in Early => events[1].kind \in Early
        /\ ~(events[1].kind = "created" /\ events[k].kind = "created")
  BY <1>3 DEF InQueue
<1>7. (\A k \in 2..n : events[k].sub # events[1].sub) => Current(events[1])
  BY <1>3 DEF InQueue
<1>8. InTurn'
  <2>1. CASE events' = events
    <3>1. \A k \in 1..n : k = 1 \/ k \in 2..n
      BY <1>1
    <3>2. \A k \in 1..n : events[k].sub = events[1].sub =>
            /\ events[k].kind \in Early => events[1].kind \in Early
            /\ events[1].kind = "created" /\ events[k].kind = "created" => events[k] = events[1]
      BY <1>6, <3>1
    <3> QED BY <1>2, <1>4, <2>1, <3>2 DEF InTurn
  <2>2. CASE Len(events') = n - 1 /\ \A j \in 1..(n - 1) : events'[j] = events[j + 1]
    <3>1. \A k \in 1..Len(events') : k + 1 \in 2..n /\ events'[k] = events[k + 1]
      BY <1>1, <2>2
    <3>2. \A k \in 2..n : k - 1 \in 1..Len(events') /\ events'[k - 1] = events[k]
      BY <1>1, <2>2
    <3>3. (\A k \in 1..Len(events') : events'[k].sub # events[1].sub) => Current(hook.event)'
      BY <1>2, <1>7, <3>2 DEF Current
    <3>4. \A k \in 1..Len(events') : events'[k].sub = events[1].sub =>
            /\ events'[k].kind \in Early => events[1].kind \in Early
            /\ ~(events[1].kind = "created" /\ events'[k].kind = "created")
      BY <1>6, <3>1
    <3> QED BY <1>2, <1>4, <3>3, <3>4 DEF InTurn
  <2> QED BY <1>2, <2>1, <2>2
<1>9. \A q \in Subs : ~Born(q)' => ~stripe'[q].pending
  BY <1>2 DEF InOrder, Born
<1> QED BY <1>5, <1>8, <1>9 DEF InOrder

\* Nothing about the queue changed, nor about Stripe, and the handler is done.
LEMMA HandledOrder ==
  ASSUME InOrder, UNCHANGED <<stripe, events>>, hook' = NoHook
  PROVE  InOrder'
<1>1. ~Busy'
  BY NotHooks DEF Busy
<1>2. \A j \in 1..Len(events) : InQueue(j)'
  BY DEF InOrder, InQueue, Current
<1>3. \A s \in Subs : ~Born(s)' => ~stripe'[s].pending
  BY DEF InOrder, Born
<1> QED BY <1>1, <1>2, <1>3 DEF InOrder

\* The handler goes on with an event that is not about a checkout.
LEMMA WentOrder ==
  ASSUME InOrder, Busy, HooksAlone, NEW pc, NEW i, HookWent(pc, i),
         hook.event.kind # "completed"
  PROVE  InOrder'
<1>1. \A j \in 1..Len(events) : InQueue(j)'
  BY DEF InOrder, InQueue, Current, HooksAlone
<1>2. \A s \in Subs : ~Born(s)' => ~stripe'[s].pending
  BY DEF InOrder, Born, HooksAlone
<1>3. InTurn'
  BY DEF InOrder, InTurn, HookWent, Current, HooksAlone
<1> QED BY <1>1, <1>2, <1>3 DEF InOrder, HooksAlone

LEMMA RetrieveOrder ==
  ASSUME ConstantsOK, Base, InOrder, Retrieve
  PROVE  InOrder'
<1>1. TypeOK /\ Handling
  BY DEF Base
<1>2. /\ hook.at = "retrieve" /\ HooksAlone
      /\ hook.event.sub \in Requests /\ hook.event.kind = "completed"
      /\ hook'.event.kind = hook.event.kind /\ hook'.event.sub = hook.event.sub
      /\ hook'.event.status = stripe[hook.event.sub].status
      /\ hook'.event.pending = stripe[hook.event.sub].pending
  BY <1>1, RetrieveDoes
<1>3. \A j \in 1..Len(events) : InQueue(j)'
  BY <1>2 DEF InOrder, InQueue, Current, HooksAlone
<1>4. \A s \in Subs : ~Born(s)' => ~stripe'[s].pending
  BY <1>2 DEF InOrder, Born, HooksAlone
<1>5. Current(hook.event)'
  BY <1>2 DEF Current, HooksAlone
<1>6. InTurn'
  BY <1>2, <1>5 DEF InTurn, HooksAlone, Early
<1> QED BY <1>2, <1>3, <1>4, <1>6 DEF InOrder, HooksAlone

LEMMA HookOrder ==
  ASSUME ConstantsOK, Base, InOrder, deploy.serial, ByHook
  PROVE  InOrder'
<1>1. TypeOK /\ Handling /\ InHand
  BY DEF Base
<1>2. CASE Receive
  BY <1>2, ReceiveOrder
<1>3. CASE Crash
  BY <1>3, CrashDoes, HandledOrder DEF HooksAlone
<1>4. CASE Retrieve
  BY <1>4, RetrieveOrder
<1>5. CASE FindCreated
  <2>1. /\ hook.at = "find" /\ hook.event.kind = "created" /\ HooksAlone
        /\ hook' = NoHook \/ HookWent("create", hook.row)
    BY <1>1, <1>5, FindCreatedDoes
  <2> QED BY <2>1, HandledOrder, WentOrder DEF HooksAlone, Busy
<1>6. CASE CreateRow
  BY <1>1, <1>6, CreateRowDoes, HandledOrder
<1>7. CASE FindUpdated
  <2>1. /\ hook.at = "find" /\ hook.event.kind = "updated" /\ HooksAlone
        /\ \E pc, i : HookWent(pc, i)
    BY <1>1, <1>7, FindUpdatedDoes
  <2> QED BY <2>1, WentOrder DEF HooksAlone, Busy
<1>8. CASE Others
  <2>1. hook.at = "others" /\ HooksAlone /\ (hook' = NoHook \/ \E i : HookWent("write", i))
    BY <1>1, <1>8, OthersDoes
  <2>2. hook.event.kind = "updated"
    BY <1>1, <2>1 DEF Handling
  <2> QED BY <2>1, <2>2, HandledOrder, WentOrder DEF HooksAlone, Busy
<1>9. CASE FindDeleted
  <2>1. /\ hook.at = "find" /\ hook.event.kind = "deleted" /\ HooksAlone
        /\ hook' = NoHook \/ \E i : HookWent("write", i)
    BY <1>1, <1>9, FindDeletedDoes
  <2> QED BY <2>1, HandledOrder, WentOrder DEF HooksAlone, Busy
<1>10. CASE Write
  BY <1>1, <1>10, WriteDoes, HandledOrder
<1> QED BY <1>2, <1>3, <1>4, <1>5, <1>6, <1>7, <1>8, <1>9, <1>10 DEF ByHook

LEMMA OrderKept ==
  ASSUME ConstantsOK, Base, deploy.serial, Alone, InOrder, [Next]_vars PROVE InOrder'
<1>1. TypeOK /\ InHand
  BY DEF Base
<1>2. ASSUME NEW r \in Requests, Start(r) PROVE InOrder'
  BY <1>2, OrderStays DEF Start, Quietly
<1>3. ASSUME NEW r \in Requests, Step(r) PROVE InOrder'
  <2>1. ~Busy
    BY <1>3 DEF Alone, Step, Review, List, Match, Adopt, Reserve, Judge, Open, Look, Fetch,
       Activate, Find, Check, Remove, Resync, Sync, Restore, Revive, Renew, ClearRow,
       At, InFlight, Places
  <2>2. CASE Open(r)
    BY <2>1, <2>2, OpenOrder
  <2>3. CASE Renew(r)
    BY <2>1, <2>3, RenewOrder
  <2>4. CASE ~Open(r) /\ ~Renew(r)
    <3>1. UNCHANGED <<stripe, events, hook>>
      BY <1>3, <2>4 DEF Step, Review, List, Match, Adopt, Reserve, Judge, Look, Fetch,
         Activate, Find, Check, Remove, Resync, Sync, Restore, Revive, ClearRow, Quietly,
         RowsAlone
    <3> QED BY <3>1, OrderStays
  <2> QED BY <2>2, <2>3, <2>4
<1>4. ASSUME NEW r \in Requests, Pay(r) PROVE InOrder'
  BY <1>4, PayOrder DEF Pay, ByStripe, Clear, Quiet, Busy
<1>5. ASSUME NEW s \in Subs, Dashboard(s) \/ Change(s) \/ CancelLater(s) PROVE InOrder'
  <2>1. ~Busy
    BY <1>5 DEF Dashboard, Change, CancelLater, ByStripe, Clear, Quiet, Busy
  <2> QED BY <1>5, <2>1, StripeOrder
<1>6. CASE ByHook
  BY <1>6, HookOrder
<1>7. CASE UNCHANGED vars
  BY <1>7, OrderStays DEF vars
<1> QED BY <1>2, <1>3, <1>4, <1>5, <1>6, <1>7 DEF Next, Idle

-----------------------------------------------------------------------------
(* What a request has in hand *)

LEMMA Resting ==
  ASSUME NEW r
  PROVE  ~InFlight(r) => StillSo(r)
  BY DEF InFlight, StillSo, Places

LEMMA RestingNext ==
  ASSUME NEW r, ~InFlight(r)'
  PROVE  StillSo(r)'
  BY DEF InFlight, StillSo, Places

LEMMA EndedStill ==
  ASSUME NEW r \in Requests, Ended(r)
  PROVE  StillSo(r)'
  BY NotCalls, RestingNext DEF Ended, InFlight, Places

LEMMA StartStill ==
  ASSUME ConstantsOK, Base, NEW r \in Requests, Start(r) PROVE StillSo(r)'
<1>1. TypeOK
  BY DEF Base
<1>2. /\ Quietly
      /\ call'[r].at \in {"review", "look", "find", "restore"}
      /\ call'[r].known = IF Settled THEN {q \in LiveSubs : \E i \in Linked(q) : LiveRow(i)}
                          ELSE {}
  BY <1>1, StartDoes
<1>3. \A s \in call'[r].known : LiveSub(s) /\ \E i \in Linked(s) : LiveRow(i)
  BY <1>2 DEF LiveSubs
<1>4. \A s \in call'[r].known : LiveSub(s)' /\ \E i \in Linked(s)' : LiveRow(i)'
  BY <1>2, <1>3 DEF LiveSub, Linked, LiveRow, All, Exists, Quietly
<1> QED BY <1>2, <1>4 DEF StillSo

\* What is asked of the rows stays so while they stay.
LEMMA SameLinked ==
  ASSUME UNCHANGED rows
  PROVE  /\ \A s : Linked(s)' = Linked(s)
         /\ \A i : (Exists(i)' <=> Exists(i)) /\ (LiveRow(i)' <=> LiveRow(i))
  BY DEF Linked, All, Exists, LiveRow

LEMMA ReviewStill ==
  ASSUME ConstantsOK, Base, NEW r \in Requests, StillSo(r), Review(r) PROVE StillSo(r)'
<1> DEFINE c == call'[r]
<1>1. TypeOK /\ CallHand(r) /\ RowHand
  BY DEF Base, InHand
<1>2. /\ call[r].at = "review" /\ Quietly /\ c.at = "list" /\ c.known = call[r].known
      /\ call[r].sub = None
  BY <1>1, ReviewDoes DEF CallHand
<1>3. \A s \in c.known : LiveSub(s) /\ \E i \in Linked(s) : LiveRow(i)
  BY <1>2 DEF StillSo
<1>4. c.known \subseteq LiveSubs
  BY <1>1, <1>2, <1>3, Fields DEF LiveSubs
<1>5. (\A i \in All : ~LiveRow(i)) => c.known = {}
  BY <1>3 DEF Linked
<1>6. /\ c.sub # None => Linked(c.sub) # {}
      /\ c.sub \in c.known \cup {None} => c.known = {} \/ c.sub \in LiveSubs
  <2>1. CASE \E i \in All : rows[i].sub # None /\ c.sub = rows[i].sub
    BY <1>4, <2>1 DEF Linked
  <2>2. CASE (\A i \in All : ~LiveRow(i)) /\ c.sub = call[r].sub
    BY <1>2, <1>5, <2>2
  <2>3. CASE \E i \in All : /\ LiveRow(i) \/ \A j \in All : ~LiveRow(j)
                            /\ c.sub = rows[i].sub
    <3>1. PICK i \in All : /\ LiveRow(i) \/ \A j \in All : ~LiveRow(j)
                           /\ c.sub = rows[i].sub
      BY <2>3
    <3>2. c.sub # None => Linked(c.sub) # {}
      BY <3>1 DEF Linked
    <3>3. c.sub = None => ~LiveRow(i)
      BY <1>1, <3>1 DEF RowHand, All
    <3> QED BY <1>4, <1>5, <3>1, <3>2, <3>3
  <2>4. \/ \E i \in All : rows[i].sub # None /\ c.sub = rows[i].sub
        \/ (\A i \in All : ~LiveRow(i)) /\ c.sub = call[r].sub
        \/ \E i \in All : /\ LiveRow(i) \/ \A j \in All : ~LiveRow(j)
                          /\ c.sub = rows[i].sub
    BY <1>1, ReviewDoes
  <2> QED BY <2>1, <2>2, <2>3, <2>4
<1>7. rows' = rows /\ All' = All /\ LiveSubs' = LiveSubs
  BY <1>2 DEF Quietly, LiveSubs, LiveSub, All, Exists
<1>8. /\ call'[r].sub # None => {i \in All' : rows'[i].sub = call'[r].sub} # {}
      /\ call'[r].sub \in call'[r].known \cup {None} =>
           call'[r].known = {} \/ call'[r].sub \in LiveSubs'
  BY <1>6, <1>7 DEF Linked
<1> QED BY <1>2, <1>8 DEF StillSo, Linked

LEMMA ListStill ==
  ASSUME ConstantsOK, Base, NEW r \in Requests, StillSo(r), List(r) PROVE StillSo(r)'
<1>1. TypeOK
  BY DEF Base
<1>2. call[r].at = "list" /\ Quietly
  BY <1>1, ListDoes
<1>3. CASE Went(r, "match") /\ call[r].sub \in Subs
  <2>1. call[r].sub # None => {i \in All : rows[i].sub = call[r].sub} # {}
    BY <1>2 DEF StillSo, Linked
  <2>2. rows' = rows /\ All' = All
    BY <1>2 DEF Quietly, All, Exists
  <2>3. call'[r].at = "match" /\ call'[r].sub = call[r].sub
    BY <1>3 DEF Went
  <2>4. call'[r].sub # None => {i \in All' : rows'[i].sub = call'[r].sub} # {}
    BY <2>1, <2>2, <2>3
  <2> QED BY <2>3, <2>4 DEF StillSo, Linked
<1>4. CASE Ended(r)
  BY <1>4, EndedStill
<1>5. CASE Went(r, "reserve") /\ call[r].sub \notin LiveSubs
  <2>1. call[r].sub \in call[r].known \cup {None} => call[r].known = {}
    BY <1>2, <1>5 DEF StillSo
  <2> QED BY <1>5, <2>1 DEF StillSo, Went
<1> QED BY <1>1, <1>3, <1>4, <1>5, ListDoes

\* What is found is linked, so that no row is adopted.
LEMMA MatchStill ==
  ASSUME ConstantsOK, Base, NEW r \in Requests, StillSo(r), Match(r) PROVE StillSo(r)'
<1>1. TypeOK /\ CallHand(r)
  BY DEF Base, InHand
<1>2. call[r].at = "match"
  BY <1>1, MatchDoes
<1>3. Linked(call[r].sub) # {}
  BY <1>1, <1>2 DEF StillSo, CallHand
<1> QED BY <1>1, <1>3, MatchDoes, EndedStill

\* What is named, and not live, was not known; so nothing was.
LEMMA OpensStill ==
  ASSUME ConstantsOK, Base, NEW r \in Requests, StillSo(r), Reserve(r) \/ Judge(r)
  PROVE  StillSo(r)'
<1>1. TypeOK
  BY DEF Base
<1>2. /\ call[r].at \in {"reserve", "judge"} /\ call'[r].at \in {"judge", "open"}
      /\ call'[r].sub = call[r].sub /\ call'[r].known = call[r].known
  <2>1. CASE Reserve(r)
    BY <1>1, <2>1, ReserveDoes DEF Went
  <2>2. CASE Judge(r)
    BY <1>1, <2>2, JudgeDoes
  <2> QED BY <2>1, <2>2
<1>3. call[r].sub \in call[r].known \cup {None} => call[r].known = {}
  BY <1>2 DEF StillSo
<1> QED BY <1>2, <1>3 DEF StillSo

LEMMA LookStill ==
  ASSUME ConstantsOK, Base, NEW r \in Requests, StillSo(r), Look(r) PROVE StillSo(r)'
<1>1. TypeOK /\ InHand
  BY DEF Base
<1>2. CASE Ended(r)
  BY <1>2, EndedStill
<1>3. CASE /\ call'[r].at = "fetch" /\ call'[r].sub = call[r].sub
           /\ call'[r].row = stripe[call[r].sub].home /\ Exists(call'[r].row)
  <2>1. Quietly
    BY <1>1, LookDoes
  <2>2. Exists(call[r].row)'
    BY <1>3, <2>1 DEF Exists, Quietly
  <2> QED BY <1>3, <2>1, <2>2 DEF StillSo, Quietly
<1> QED BY <1>1, <1>2, <1>3, LookDoes

LEMMA FetchStill ==
  ASSUME ConstantsOK, Base, NEW r \in Requests, StillSo(r), Fetch(r) PROVE StillSo(r)'
<1>1. TypeOK /\ InHand
  BY DEF Base
<1>2. /\ call[r].at = "fetch" /\ Quietly
      /\ call'[r].at = "activate" /\ call'[r].sub = call[r].sub
      /\ call'[r].row = call[r].row
      /\ call'[r].status = stripe[call[r].sub].status
      /\ call'[r].pending = stripe[call[r].sub].pending
  BY <1>1, FetchDoes
<1>3. call[r].row = stripe[call[r].sub].home /\ Exists(call[r].row)
  BY <1>2 DEF StillSo
<1>4. Exists(call[r].row)'
  BY <1>2, <1>3 DEF Exists, Quietly
<1> QED BY <1>2, <1>3, <1>4 DEF StillSo, Quietly

\* A request that has a row, and the subscription it was linked to, goes on with both.
LEMMA HoldsOn ==
  ASSUME NEW r \in Requests, Quietly, Exists(call'[r].row),
         rows[call'[r].row].sub = call'[r].sub,
         call'[r].at \in {"check", "remove", "resync", "sync", "revive", "renew"},
         call'[r].at \in {"sync", "renew"} => call'[r].pending = stripe[call'[r].sub].pending,
         call'[r].at = "renew" => LiveSub(call'[r].sub)
  PROVE  StillSo(r)'
<1>1. Exists(call[r].row)'
  BY DEF Exists, Quietly
<1>2. call'[r].at = "renew" => LiveSub(call[r].sub)'
  BY DEF LiveSub, Quietly
<1> QED BY <1>1, <1>2 DEF StillSo, Quietly

LEMMA HeldStill ==
  ASSUME ConstantsOK, Base, NEW r \in Requests, StillSo(r),
         Find(r) \/ Check(r) \/ Resync(r) \/ Restore(r) \/ Revive(r)
  PROVE  StillSo(r)'
<1>1. TypeOK /\ InHand
  BY DEF Base
<1>2. CASE Ended(r)
  BY <1>2, EndedStill
<1>3. CASE Find(r) /\ ~Ended(r)
  <2>1. /\ Quietly /\ call'[r].at = "check" /\ call'[r].row \in All
        /\ call'[r].sub = rows[call'[r].row].sub
    BY <1>1, <1>3, FindDoes
  <2> QED BY <2>1, HoldsOn DEF All
<1>4. CASE Check(r) /\ ~Ended(r)
  <2>1. /\ call[r].at = "check" /\ Quietly
        /\ call'[r].at \in {"remove", "resync"} /\ call'[r].row = call[r].row
        /\ call'[r].sub = call[r].sub
    BY <1>1, <1>4, CheckDoes DEF Went
  <2> QED BY <2>1, HoldsOn DEF StillSo
<1>5. CASE Resync(r)
  <2>1. /\ call[r].at = "resync" /\ Quietly
        /\ call'[r].at = "sync" /\ call'[r].row = call[r].row /\ call'[r].sub = call[r].sub
        /\ call'[r].pending = stripe[call[r].sub].pending
    BY <1>1, <1>5, ResyncDoes
  <2> QED BY <2>1, HoldsOn DEF StillSo
<1>6. CASE Restore(r) /\ ~Ended(r)
  <2>1. /\ Quietly /\ call'[r].at = "revive" /\ call'[r].row \in All
        /\ call'[r].sub = rows[call'[r].row].sub
    BY <1>1, <1>6, RestoreDoes
  <2> QED BY <2>1, HoldsOn DEF All
<1>7. CASE Revive(r) /\ ~Ended(r)
  <2>1. /\ call[r].at = "revive" /\ Quietly /\ LiveSub(call[r].sub)
        /\ call'[r].at = "renew" /\ call'[r].row = call[r].row
        /\ call'[r].sub = call[r].sub
        /\ call'[r].pending = stripe[call[r].sub].pending
    BY <1>1, <1>7, ReviveDoes
  <2> QED BY <2>1, HoldsOn DEF StillSo
<1> QED BY <1>2, <1>3, <1>4, <1>5, <1>6, <1>7

LEMMA RenewStill ==
  ASSUME ConstantsOK, Base, NEW r \in Requests, StillSo(r), Renew(r) PROVE StillSo(r)'
<1>1. TypeOK /\ InHand
  BY DEF Base
<1>2. /\ call[r].at = "renew" /\ Went(r, "clear") /\ call[r].sub \in Subs /\ UNCHANGED rows
  BY <1>1, RenewDoes
<1>3. /\ Exists(call[r].row) /\ rows[call[r].row].sub = call[r].sub
      /\ LiveSub(call[r].sub) /\ call[r].pending = stripe[call[r].sub].pending
  BY <1>2 DEF StillSo
<1>4. /\ stripe'[call[r].sub].status = stripe[call[r].sub].status
      /\ ~stripe'[call[r].sub].pending
  <2>1. CASE EndSet(call[r].sub, FALSE)
    BY <2>1 DEF EndSet
  <2>2. CASE UNCHANGED stripe /\ ~(call[r].pending /\ stripe[call[r].sub].pending)
    BY <1>3, <2>2
  <2> QED BY <1>1, <2>1, <2>2, RenewDoes
<1>5. call'[r].at = "clear" /\ call'[r].row = call[r].row /\ call'[r].sub = call[r].sub
  BY <1>2 DEF Went
<1>6. Exists(call[r].row)' /\ LiveSub(call[r].sub)'
  BY <1>2, <1>3, <1>4, <1>5 DEF Exists, LiveSub
<1> QED BY <1>2, <1>3, <1>4, <1>5, <1>6 DEF StillSo

LEMMA StillKept ==
  ASSUME ConstantsOK, Base, Base', deploy.serial, Alone, Alone', [Next]_vars,
         \A r \in Requests : StillSo(r)
  PROVE  \A r \in Requests : StillSo(r)'
<1>1. TypeOK /\ InHand
  BY DEF Base
<1> SUFFICES ASSUME NEW q \in Requests, InFlight(q)' PROVE StillSo(q)'
  BY RestingNext
<1>2. ASSUME NEW r \in Requests, Start(r) PROVE StillSo(q)'
  <2>1. Quiet /\ Moved(r)
    BY <1>1, <1>2, StartDoes DEF Clear
  <2>2. q = r
    BY <2>1 DEF Quiet, Moved, InFlight
  <2> QED BY <1>2, <2>2, StartStill
<1>3. ASSUME NEW r \in Requests, Step(r) PROVE StillSo(q)'
  <2>1. InFlight(r) /\ (q # r => call'[q] = call[q])
    BY <1>1, <1>3, StepMoves DEF Moved
  <2>2. q = r
    BY <2>1 DEF Alone, InFlight
  <2>3. StillSo(r)
    OBVIOUS
  <2>4. CASE Adopt(r) \/ Open(r) \/ Activate(r) \/ Remove(r) \/ Sync(r) \/ ClearRow(r)
    <3>1. Ended(r)
      BY <1>1, <2>4, AdoptDoes, OpenDoes, ActivateDoes, RemoveDoes, SyncDoes, ClearRowDoes
    <3> QED BY <2>2, <3>1, EndedStill
  <2>5. CASE \/ Review(r) \/ List(r) \/ Match(r) \/ Reserve(r) \/ Judge(r)
             \/ Look(r) \/ Fetch(r) \/ Renew(r)
    BY <2>2, <2>3, <2>5, ReviewStill, ListStill, MatchStill, OpensStill, LookStill, FetchStill,
       RenewStill
  <2>6. CASE Find(r) \/ Check(r) \/ Resync(r) \/ Restore(r) \/ Revive(r)
    BY <2>2, <2>3, <2>6, HeldStill
  <2> QED BY <1>3, <2>4, <2>5, <2>6 DEF Step
<1>4. ASSUME NEW r \in Requests, Pay(r) PROVE StillSo(q)'
  BY <1>4 DEF Pay, ByStripe, Clear, Quiet, InFlight
<1>5. ASSUME NEW s \in Subs, Dashboard(s) \/ Change(s) \/ CancelLater(s) PROVE StillSo(q)'
  BY <1>5 DEF Dashboard, Change, CancelLater, ByStripe, Clear, Quiet, InFlight
<1>6. CASE Receive
  BY <1>6 DEF Receive, Clear, Quiet, InFlight
<1>7. CASE ByHook /\ ~Receive
  <2>1. Busy /\ call' = call
    BY <1>7 DEF ByHook, Crash, Retrieve, FindCreated, CreateRow, FindUpdated, Others,
       FindDeleted, Write, Busy
  <2> QED BY <2>1 DEF Alone, InFlight
<1>8. CASE UNCHANGED vars
  <2>1. StillSo(q)
    OBVIOUS
  <2> QED BY <1>8, <2>1 DEF vars, StillSo, LiveSub, LiveSubs, Linked, LiveRow, All, Exists
<1> QED BY <1>2, <1>3, <1>4, <1>5, <1>6, <1>7, <1>8 DEF Next, Idle

-----------------------------------------------------------------------------
(* Links *)

LEMMA RowIs ==
  ASSUME ConstantsOK, Base, NEW s \in Subs
  PROVE  /\ RowOf(s) \in RowIds /\ RowOf(s) # NoId
         /\ s \in Foreign => RowOf(s) = <<"webhook", s>> /\ stripe[s].home = NoId
         /\ stripe[s].home # NoId => RowOf(s) = stripe[s].home
         /\ s \in Requests /\ stripe[s].status # "none" => stripe[s].home # NoId
<1>1. stripe[s].home \in RowIds \cup {NoId} /\ <<"webhook", s>> \in RowIds /\ NoId \notin RowIds
  BY Ids, Fields DEF Base
<1> QED BY <1>1 DEF RowOf, Base, Homes, Fresh

\* A row that is linked to s is its row.
LEMMA LinkedIs ==
  ASSUME ConstantsOK, Base, Tied, NEW s \in Subs
  PROVE  /\ \A i \in Linked(s) : i = RowOf(s) /\ LinkedTo(s)
         /\ LinkedTo(s) => RowOf(s) \in Linked(s)
<1>1. RowOf(s) \in RowIds /\ s # None
  BY RowIs, Ids
<1>2. ASSUME NEW i \in Linked(s) PROVE i = RowOf(s) /\ LinkedTo(s)
  <2>1. i \in RowIds /\ Exists(i) /\ rows[i].sub = s
    BY <1>2 DEF Linked, All
  <2>2. RowLink(i)
    BY <2>1 DEF Tied
  <2> QED BY <1>1, <2>1, <2>2 DEF RowLink, LinkedTo
<1> QED BY <1>1, <1>2 DEF LinkedTo, Linked, All

LEMMA BusyDue ==
  ASSUME ConstantsOK, Base, Busy
  PROVE  /\ hook.event \in Event /\ hook.event.sub \in Subs /\ Due(hook.event.sub)
         /\ Born(hook.event.sub) /\ Untold(hook.event.sub)
<1>1. hook.event \in Event /\ Born(hook.event.sub)
  BY DEF Base, Handling
<1> QED BY <1>1 DEF Event, Due, Over, Untold

LEMMA DueStays ==
  ASSUME NEW s, stripe'[s] = stripe[s], Untold(s)' => Untold(s)
  PROVE  Due(s)' => Due(s)
  BY DEF Due, Over, Born

LEMMA RowTied ==
  ASSUME ConstantsOK, TypeOK, NEW i \in RowIds, RowLink(i), rows'[i] = rows[i], Grown
  PROVE  RowLink(i)'
<1>1. rows[i].sub # None => rows[i].sub \in Subs
  BY Fields
<1>2. Exists(i)' <=> Exists(i)
  BY DEF Exists
<1>3. CASE Exists(i) /\ rows[i].sub # None
  <2> DEFINE s == rows[i].sub
  <2>1. Born(s) /\ RowOf(s) = i /\ s \in Subs
    BY <1>1, <1>3 DEF RowLink
  <2>2. stripe'[s].status \in BornStatus /\ stripe'[s].home = stripe[s].home
    BY <2>1 DEF Grown, Born
  <2> QED BY <2>1, <2>2 DEF RowLink, Born, RowOf
<1>4. CASE ~(Exists(i) /\ rows[i].sub # None)
  BY <1>2, <1>4 DEF RowLink
<1> QED BY <1>3, <1>4

LEMMA SubTied ==
  ASSUME ConstantsOK, Base, NEW s \in Subs, SubLink(s), stripe'[s] = stripe[s],
         rows'[RowOf(s)] = rows[RowOf(s)], Untold(s)' => Untold(s),
         s \in Requests /\ Coming("completed", s) => Coming("completed", s)',
         s \in Foreign /\ Coming("created", s) => Coming("created", s)',
         \A k \in Late : Coming(k, s) => Coming(k, s)'
  PROVE  SubLink(s)'
<1> DEFINE i == RowOf(s)
<1>1. /\ i # NoId /\ RowOf(s)' = i
      /\ s \in Foreign => i = <<"webhook", s>> /\ stripe[s].home = NoId
      /\ stripe[s].home # NoId => i = stripe[s].home
  BY RowIs DEF RowOf
<1> HIDE DEF i
<1>2. rows'[i] = rows[i]
  BY DEF i
<1>3. Due(s)' => Due(s)
  BY DueStays
<1>4. /\ Exists(stripe[s].home) => rows[i] \notin {NoRow, Deleted} /\ stripe[s].home # NoId
      /\ LinkedTo(s) <=> rows[i] \notin {NoRow, Deleted} /\ rows[i].sub = s
  BY <1>1 DEF Exists, LinkedTo, i
<1>5. /\ rows'[i] \notin {NoRow, Deleted} /\ stripe[s].home # NoId => Exists(stripe[s].home)'
      /\ LinkedTo(s)' <=> rows'[i] \notin {NoRow, Deleted} /\ rows'[i].sub = s
  BY <1>1 DEF Exists, LinkedTo
<1>6. Shows(RowOf(s), s)' <=> Shows(RowOf(s), s)
  BY <1>1, <1>2 DEF Shows, i
<1>7. s \in Requests /\ (stripe'[s].status = "open" \/ Due(s)') => Exists(stripe[s].home)'
  BY <1>2, <1>3, <1>4, <1>5 DEF SubLink
<1>8. /\ s \in Foreign /\ rows'[<<"webhook", s>>] # NoRow => Born(s)'
      /\ s \in Foreign /\ Due(s)' => rows'[<<"webhook", s>>] = NoRow \/ LinkedTo(s)'
  BY <1>1, <1>2, <1>3, <1>4, <1>5 DEF SubLink, Born
<1>9. Due(s)' => LinkedTo(s)' \/ Coming(Linking(s), s)'
  <2>1. s \in Requests \/ s \in Foreign
    BY Ids
  <2>2. s \notin Requests => s \in Foreign
    BY <2>1
  <2>3. Due(s) => LinkedTo(s) \/ Coming(Linking(s), s)
    BY DEF SubLink
  <2> QED BY <1>2, <1>3, <1>4, <1>5, <2>2, <2>3 DEF Linking
<1>10. LinkedTo(s)' => Shows(RowOf(s), s)' \/ \E k \in Late : Coming(k, s)'
  <2>1. LinkedTo(s) => Shows(RowOf(s), s) \/ \E k \in Late : Coming(k, s)
    BY DEF SubLink
  <2> QED BY <1>2, <1>4, <1>5, <1>6, <2>1
<1> QED BY <1>7, <1>8, <1>9, <1>10 DEF SubLink

LEMMA OneDueStays ==
  ASSUME OneDue, \A s \in Subs : Due(s)' => Due(s),
         \A s \in Subs : stripe'[s].home = stripe[s].home
  PROVE  OneDue'
  BY DEF OneDue, RowOf

\* What Stripe has, and the rows, are as they were, and all that was to come still is.
LEMMA TiedStays ==
  ASSUME ConstantsOK, Base, Tied, UNCHANGED <<rows, stripe>>,
         \A s \in Subs : Untold(s)' => Untold(s),
         \A s \in Subs : \A k \in Late \cup {"created"} : Coming(k, s) => Coming(k, s)'
  PROVE  Tied'
<1>1. TypeOK /\ Grown
  BY DEF Base, TypeOK, Grown, Born
<1>2. \A i \in RowIds : RowLink(i)'
  BY <1>1, RowTied DEF Tied
<1>3. \A s \in Subs : SubLink(s)'
  BY SubTied DEF Tied, Late
<1>4. \A s \in Subs : Due(s)' => Due(s)
  BY DueStays
<1> QED BY <1>2, <1>3, <1>4, OneDueStays DEF Tied

LEMMA SameComing ==
  ASSUME UNCHANGED events, hook'.event.kind = hook.event.kind,
         hook'.event.sub = hook.event.sub, NEW s
  PROVE  /\ Untold(s)' <=> Untold(s)
         /\ \A k : Coming(k, s)' <=> Coming(k, s)
  BY DEF Untold, Coming, EventAt

\* The steps of a request that only read.
LEMMA ReadTied ==
  ASSUME ConstantsOK, Base, Links, UNCHANGED <<rows, stripe, events, hook>>
  PROVE  Links'
<1>1. Tied'
  BY SameComing, TiedStays DEF Links
<1>2. HookLink'
  <2>1. hook.at \in {"create", "write"} => hook.event.sub \in Subs
    BY BusyDue DEF Busy
  <2> QED BY <2>1 DEF Links, HookLink, LinkedTo, RowOf, Exists
<1> QED BY <1>1, <1>2 DEF Links

\* The row of s is written: nobody else's that is due.
LEMMA WrittenTied ==
  ASSUME ConstantsOK, Base, Tied, NEW i \in RowIds, NEW s \in Subs, RowOf(s) = i, Born(s),
         UNCHANGED stripe, \A j \in RowIds : j # i => rows'[j] = rows[j],
         rows'[i].status \in BornStatus, rows'[i].sub = s,
         Exists(i) \/ i = <<"webhook", s>>,
         \A q \in Subs : q # s /\ Due(q) => RowOf(q) # i,
         \A q \in Subs : Untold(q)' => Untold(q),
         \A q \in Subs : q # s => \A k \in Late \cup {"created"} : Coming(k, q) => Coming(k, q)',
         Shows(i, s)' \/ \E k \in Late : Coming(k, s)'
  PROVE  Tied'
<1>1. TypeOK /\ Grown
  BY DEF Base, TypeOK, Grown, Born
<1>2. rows'[i] \notin {NoRow, Deleted} /\ i # NoId /\ s # None
  BY NotRows, Live, Ids
<1>3. \A q \in Subs : RowOf(q)' = RowOf(q) /\ (Due(q)' => Due(q))
  BY DueStays DEF RowOf
<1>4. Exists(i)'
  BY <1>2 DEF Exists
<1>5. ASSUME NEW j \in RowIds PROVE RowLink(j)'
  <2>1. CASE j = i
    BY <1>3, <2>1 DEF RowLink, Born
  <2>2. CASE j # i
    BY <1>1, <2>2, RowTied DEF Tied
  <2> QED BY <2>1, <2>2
<1>6. SubLink(s)'
  <2>1. LinkedTo(s)'
    BY <1>2, <1>3 DEF LinkedTo, Exists
  <2>2. s \in Requests /\ (stripe'[s].status = "open" \/ Due(s)') => Exists(stripe[s].home)'
    <3>1. s \in Requests => stripe[s].home = i
      BY RowIs, Live DEF Born
    <3> QED BY <1>2, <3>1 DEF Exists
  <2>3. Shows(RowOf(s), s)' \/ \E k \in Late : Coming(k, s)'
    BY <1>3 DEF Shows
  <2> QED BY <2>1, <2>2, <2>3 DEF SubLink, Born
<1>7. ASSUME NEW q \in Subs, q # s PROVE SubLink(q)'
  <2>1. SubLink(q)
    BY DEF Tied
  <2>2. CASE RowOf(q) # i
    <3>1. rows'[RowOf(q)] = rows[RowOf(q)]
      BY <2>2, RowIs
    <3> QED BY <1>7, <2>1, <3>1, SubTied DEF Late
  <2>3. CASE RowOf(q) = i
    <3>1. ~Due(q)'
      BY <1>3, <1>7, <2>3
    <3>2. ~LinkedTo(q)'
      BY <1>3, <1>7, <2>3 DEF LinkedTo
    <3>3. q \in Requests /\ stripe'[q].status = "open" => Exists(stripe[q].home)'
      <4>1. q \in Requests /\ stripe[q].status = "open" => stripe[q].home = i
        BY <2>3, RowIs
      <4> QED BY <1>2, <4>1 DEF Exists
    <3>4. q \in Foreign => Born(q)'
      <4> SUFFICES ASSUME q \in Foreign PROVE Born(q)'
        OBVIOUS
      <4>1. i = <<"webhook", q>>
        BY <2>3, RowIs
      <4>2. i # <<"webhook", s>>
        BY <1>7, <4>1
      <4>3. rows[i] # NoRow
        BY <4>2 DEF Exists
      <4> QED BY <2>1, <4>1, <4>3 DEF SubLink, Born
    <3> QED BY <3>1, <3>2, <3>3, <3>4 DEF SubLink
  <2> QED BY <2>2, <2>3
<1>8. OneDue'
  BY <1>3, OneDueStays DEF Tied
<1> QED BY <1>5, <1>6, <1>7, <1>8 DEF Tied

LEMMA ReserveTied ==
  ASSUME ConstantsOK, Base, Links, NEW r \in Requests, Reserve(r), ~Busy PROVE Links'
<1> DEFINE i == <<"upgrade", r>>
<1>1. TypeOK /\ i \in RowIds /\ r \in Subs
  BY Ids DEF Base
<1>2. call[r].at = "reserve" /\ RowsAlone
  BY <1>1, ReserveDoes
<1>3. CASE UNCHANGED rows
  BY <1>2, <1>3, ReadTied DEF RowsAlone
<1>4. CASE /\ \A j \in RowIds : j # i => rows'[j] = rows[j]
           /\ rows'[i].sub = None
  <2>1. rows[i] = NoRow
    BY <1>2 DEF Base, Fresh
  <2>2. \A j \in RowIds : RowLink(j)'
    <3>1. Grown
      BY <1>1, <1>2 DEF RowsAlone, Grown, TypeOK, Born
    <3>2. RowLink(i)'
      BY <1>4 DEF RowLink
    <3>3. ASSUME NEW j \in RowIds, j # i PROVE RowLink(j)'
      BY <1>1, <1>4, <3>1, <3>3, RowTied DEF Links, Tied
    <3> QED BY <3>2, <3>3
  <2>3. ASSUME NEW s \in Subs PROVE SubLink(s)'
    <3>1. RowOf(s) \in RowIds /\ RowOf(s) # i
      <4>1. CASE stripe[s].home = NoId
        BY <4>1, RowIs DEF RowOf
      <4>2. CASE stripe[s].home # NoId
        BY <2>1, <4>2, RowIs DEF Base, InHand, HomeHand
      <4> QED BY <4>1, <4>2
    <3>2. rows'[RowOf(s)] = rows[RowOf(s)]
      BY <1>4, <3>1
    <3>3. UNCHANGED <<stripe, events, hook>>
      BY <1>2 DEF RowsAlone
    <3>4. Untold(s)' <=> Untold(s)
      BY <3>3, SameComing
    <3>5. \A k : Coming(k, s)' <=> Coming(k, s)
      BY <3>3, SameComing
    <3>6. SubLink(s)
      BY DEF Links, Tied
    <3> QED BY <3>2, <3>3, <3>4, <3>5, <3>6, SubTied
  <2>4. OneDue'
    <3>1. UNCHANGED <<stripe, events, hook>>
      BY <1>2 DEF RowsAlone
    <3>2. \A s \in Subs : Due(s)' => Due(s)
      BY <3>1, DueStays, SameComing
    <3> QED BY <3>1, <3>2, OneDueStays DEF Links, Tied
  <2>5. hook'.at \notin {"create", "write", "others"}
    BY <1>2 DEF Busy, RowsAlone
  <2> QED BY <2>2, <2>3, <2>4, <2>5 DEF Links, Tied, HookLink
<1> QED BY <1>1, <1>3, <1>4, ReserveDoes

LEMMA RestingHook ==
  ASSUME ~Busy, UNCHANGED hook, Tied'
  PROVE  Links'
  BY DEF Busy, Links, HookLink

\* The success page writes what Stripe said, which is still so, and no other that is
\* due has the row.
LEMMA ActivateTied ==
  ASSUME ConstantsOK, Base, Links, NEW r \in Requests, Activate(r), StillSo(r), ~Busy,
         harm' = {}
  PROVE  Links'
<1> DEFINE i == call[r].row
           s == call[r].sub
<1>1. TypeOK /\ InHand
  BY DEF Base
<1>2. /\ call[r].at = "activate" /\ UNCHANGED <<deploy, stripe, events, hook, changes>>
      /\ harm' = harm \cup IF Exists(i) /\ Owed(i) \ {s} # {} THEN {"taken"} ELSE {}
  BY <1>1, ActivateDoes
<1>3. /\ i = stripe[s].home /\ Exists(i)
      /\ call[r].status = stripe[s].status /\ call[r].pending = stripe[s].pending
  BY <1>2 DEF StillSo
<1>4. s \in Requests /\ Born(s) /\ i \in RowIds /\ s \in Subs
  BY <1>1, <1>2, Fields, Ids DEF InHand, CallHand
<1>5. Owed(i) \subseteq {s}
  BY <1>2, <1>3
<1>6. PICK v \in Row :
        /\ Rewritten(i, v) /\ v.status = call[r].status /\ v.sub = s
        /\ v.pending = call[r].pending /\ v.trial = (rows[i].trial \/ stripe[s].trial)
  BY <1>1, ActivateDoes
<1> HIDE DEF i, s
<1>7. rows'[i] = v /\ \A j \in RowIds : j # i => rows'[j] = rows[j]
  BY <1>3, <1>4, <1>6 DEF Rewritten
<1>8. RowOf(s) = i
  BY <1>3, <1>4, RowIs DEF Exists
<1>9. \A q \in Subs : q # s /\ Due(q) => RowOf(q) # i
  BY <1>5 DEF Owed, Due
<1>10. \A j, q : j = i /\ q = s => Shows(j, q)'
  BY <1>2, <1>3, <1>4, <1>6, <1>7 DEF Shows
<1>11. /\ \A q \in Subs : Untold(q)' => Untold(q)
       /\ \A q \in Subs : \A k : Coming(k, q) => Coming(k, q)'
  BY <1>2, SameComing
<1>12. rows'[i].status \in BornStatus /\ rows'[i].sub = s
  BY <1>3, <1>4, <1>6, <1>7 DEF Born
<1>13. ASSUME NEW j, NEW q, j = i, q = s PROVE Tied'
  <2>1. Shows(j, q)'
    BY <1>10, <1>13
  <2>2. /\ j \in RowIds /\ q \in Subs /\ RowOf(q) = j /\ Born(q) /\ UNCHANGED stripe
        /\ \A k \in RowIds : k # j => rows'[k] = rows[k]
        /\ rows'[j].status \in BornStatus /\ rows'[j].sub = q
        /\ Exists(j) /\ \A p \in Subs : p # q /\ Due(p) => RowOf(p) # j
    BY <1>2, <1>3, <1>4, <1>7, <1>8, <1>9, <1>12, <1>13
  <2> QED BY <1>11, <2>1, <2>2, WrittenTied DEF Links
<1>14. Tied'
  BY <1>13
<1> QED BY <1>2, <1>14, RestingHook

\* When the end of a period is written as Stripe has it.
LEMMA PendingTied ==
  ASSUME ConstantsOK, Base, Links, ~Busy, RowsAlone, NEW i \in RowIds, NEW s \in Subs,
         rows[i].sub = s, NEW p, p = stripe[s].pending, PendingSet(i, p)
  PROVE  Links'
<1>1. TypeOK /\ Grown
  BY DEF Base, TypeOK, Grown, Born, RowsAlone
<1>2. PICK v \in Row :
        /\ Rewritten(i, v)
        /\ v.status = rows[i].status /\ v.sub = rows[i].sub /\ v.trial = rows[i].trial
        /\ v.pending = p
  BY DEF PendingSet
<1>3. \A j \in RowIds : rows'[j] = IF j = i /\ Exists(i) THEN v ELSE rows[j]
  BY <1>2 DEF Rewritten
<1>4. Exists(i) => rows'[i] \notin {NoRow, Deleted}
  BY <1>2, <1>3, NotRows DEF Base, InHand, RowHand
<1>5. \A j \in RowIds : (Exists(j)' <=> Exists(j)) /\ rows'[j].sub = rows[j].sub
  BY <1>2, <1>3, <1>4 DEF Exists
<1>6. \A q \in Subs : RowOf(q)' = RowOf(q) /\ RowOf(q) \in RowIds
  BY RowIs DEF RowOf, RowsAlone
<1>7. \A q \in Subs : (Due(q)' <=> Due(q)) /\ (Born(q)' <=> Born(q))
  <2>1. UNCHANGED <<stripe, events, hook>>
    BY DEF RowsAlone
  <2> QED BY <2>1, SameComing DEF Due, Over, Born
<1>8. ASSUME NEW j \in RowIds PROVE RowLink(j)'
  <2>1. RowLink(j) /\ rows[j].sub \in Subs \cup {None}
    BY <1>1, Fields DEF Links, Tied
  <2>2. CASE rows[j].sub = None \/ ~Exists(j)
    BY <1>5, <2>2 DEF RowLink
  <2>3. ASSUME NEW q \in Subs, rows[j].sub = q, Exists(j) PROVE RowLink(j)'
    <3>1. Born(q)' /\ RowOf(q)' = j
      BY <1>6, <1>7, <2>1, <2>3, Ids DEF RowLink
    <3>2. rows'[j].sub = q
      BY <1>5, <2>3
    <3> QED BY <3>1, <3>2 DEF RowLink, Born, RowOf
  <2> QED BY <2>1, <2>2, <2>3
<1>9. ASSUME NEW q \in Subs PROVE SubLink(q)'
  <2> DEFINE j == RowOf(q)
  <2>1. SubLink(q) /\ UNCHANGED <<stripe, events, hook>>
    BY DEF Links, Tied, RowsAlone
  <2>2. j \in RowIds /\ RowOf(q)' = j
    BY <1>6
  <2>3. \A k : Coming(k, q)' <=> Coming(k, q)
    BY <2>1, SameComing
  <2>4. CASE ~Exists(i) \/ j # i
    <3>1. rows'[j] = rows[j]
      BY <1>3, <2>2, <2>4
    <3>2. Untold(q)' => Untold(q)
      BY <2>1, SameComing
    <3> QED BY <2>1, <2>3, <3>1, <3>2, SubTied
  <2>5. CASE Exists(i) /\ j = i
    <3>1. LinkedTo(q)' <=> LinkedTo(q)
      <4>1. RowOf(q)' = i /\ RowOf(q) = i
        BY <2>2, <2>5
      <4>2. rows'[i].sub = rows[i].sub /\ rows'[i] \notin {NoRow, Deleted}
        BY <1>4, <1>5, <2>5
      <4> QED BY <2>5, <4>1, <4>2 DEF LinkedTo, Exists
    <3>2. LinkedTo(q) /\ Shows(RowOf(q), q) => Shows(RowOf(q), q)'
      <4>1. RowOf(q)' = i /\ RowOf(q) = i
        BY <2>2, <2>5
      <4>2. LinkedTo(q) => q = s
        BY <4>1 DEF LinkedTo
      <4>3. rows'[i] = v
        BY <1>3, <2>5
      <4> QED BY <1>2, <2>1, <4>1, <4>2, <4>3 DEF Shows
    <3>3. Exists(stripe[q].home) => Exists(stripe[q].home)'
      BY <1>4, <1>6, <2>1, <2>5, RowIs DEF Exists
    <3>4. q \in Foreign => Born(q)
      BY <2>1, <2>5, RowIs DEF SubLink, Exists
    <3>5. q \in Requests \/ q \in Foreign
      BY Ids
    <3>6. Linking(q)' = Linking(q) /\ Late' = Late
      BY DEF Linking, Late
    <3>7. q \in Foreign /\ Due(q) => LinkedTo(q)
      BY <2>1, <2>5, RowIs DEF SubLink, Exists
    <3>8. Due(q)' => LinkedTo(q)' \/ Coming(Linking(q), q)'
      BY <1>7, <2>1, <2>3, <3>1 DEF SubLink, Linking
    <3>9. LinkedTo(q)' => Shows(RowOf(q), q)' \/ \E k \in Late : Coming(k, q)'
      BY <2>1, <2>3, <3>1, <3>2 DEF SubLink
    <3>10. q \in Requests /\ (stripe'[q].status = "open" \/ Due(q)') => Exists(stripe[q].home)'
      BY <1>7, <2>1, <3>3 DEF SubLink
    <3> QED BY <1>7, <3>1, <3>4, <3>7, <3>8, <3>9, <3>10 DEF SubLink
  <2> QED BY <2>4, <2>5
<1>10. OneDue'
  BY <1>6, <1>7 DEF Links, Tied, OneDue
<1>11. Tied'
  BY <1>8, <1>9, <1>10 DEF Tied
<1> QED BY <1>11, RestingHook DEF RowsAlone

LEMMA SyncTied ==
  ASSUME ConstantsOK, Base, Links, NEW r \in Requests, Sync(r) \/ ClearRow(r), StillSo(r), ~Busy
  PROVE  Links'
<1>1. TypeOK /\ InHand
  BY DEF Base
<1>2. call[r].at \in {"sync", "clear"} /\ RowsAlone /\ call[r].row \in RowIds
  BY <1>1, SyncDoes, ClearRowDoes
<1>3. call[r].sub \in Subs /\ rows[call[r].row].sub = call[r].sub
  BY <1>1, <1>2, Fields DEF StillSo, InHand, CallHand
<1>4. CASE Sync(r)
  <2>1. /\ call[r].at = "sync" /\ PendingSet(call[r].row, call[r].pending)
    BY <1>1, <1>4, SyncDoes
  <2>2. call[r].pending = stripe[call[r].sub].pending
    BY <2>1 DEF StillSo
  <2> QED BY <1>2, <1>3, <2>1, <2>2, PendingTied
<1>5. CASE ClearRow(r)
  <2>1. call[r].at = "clear" /\ PendingSet(call[r].row, FALSE)
    BY <1>1, <1>5, ClearRowDoes
  <2>2. FALSE = stripe[call[r].sub].pending
    <3>1. ~stripe[call[r].sub].pending /\ stripe[call[r].sub].pending \in BOOLEAN
      BY <1>1, <1>3, <2>1, Fields DEF StillSo
    <3> QED BY <3>1
  <2> QED BY <1>2, <1>3, <2>1, <2>2, PendingTied
<1> QED BY <1>4, <1>5

\* cancel deletes a row that nobody needs.
LEMMA RemoveTied ==
  ASSUME ConstantsOK, Base, Links, NEW r \in Requests, Remove(r), StillSo(r), ~Busy, harm' = {}
  PROVE  Links'
<1> DEFINE i == call[r].row
<1>1. TypeOK /\ InHand
  BY DEF Base
<1>2. /\ call[r].at = "remove" /\ UNCHANGED <<deploy, stripe, events, hook, changes>>
      /\ i \in RowIds /\ rows'[i] = Deleted /\ \A j \in RowIds : j # i => rows'[j] = rows[j]
      /\ harm' = harm \cup IF Exists(i) /\ Needed(i) THEN {"deleted"} ELSE {}
  BY <1>1, RemoveDoes
<1>3. Exists(i)
  BY <1>2 DEF StillSo
<1>4. ~Needed(i)
  BY <1>2, <1>3
<1> HIDE DEF i
<1>5. \A s \in Subs : RowOf(s) = i => stripe[s].status = "none" \/ Over(s)
  BY <1>4 DEF Needed
<1>6. Grown
  BY <1>1, <1>2 DEF Grown, TypeOK, Born
<1>7. ASSUME NEW j \in RowIds PROVE RowLink(j)'
  <2>1. CASE j = i
    BY <1>2, <2>1 DEF RowLink, Exists
  <2>2. CASE j # i
    BY <1>1, <1>2, <1>6, <2>2, RowTied DEF Links, Tied
  <2> QED BY <2>1, <2>2
<1>8. \A s \in Subs : /\ Untold(s)' <=> Untold(s)
                      /\ \A k : Coming(k, s)' <=> Coming(k, s)
  BY <1>2, SameComing
<1>9. ASSUME NEW s \in Subs PROVE SubLink(s)'
  <2>1. SubLink(s) /\ stripe'[s] = stripe[s]
    BY <1>2 DEF Links, Tied
  <2>2. CASE RowOf(s) # i
    <3>1. rows'[RowOf(s)] = rows[RowOf(s)]
      BY <1>2, <2>2, RowIs
    <3> QED BY <1>8, <2>1, <3>1, SubTied
  <2>3. CASE RowOf(s) = i
    <3>1. stripe[s].status # "open" /\ ~Due(s)
      BY <1>5, <2>3, Live DEF Due, Over, Born
    <3>2. ~Due(s)'
      BY <1>8, <2>1, <3>1, DueStays
    <3>3. ~LinkedTo(s)'
      <4>1. RowOf(s)' = i
        BY <2>1, <2>3 DEF RowOf
      <4> QED BY <1>2, <4>1 DEF LinkedTo, Exists
    <3>4. s \in Foreign => Born(s)
      BY <1>3, <2>1, <2>3, RowIs DEF SubLink, Exists
    <3> QED BY <2>1, <3>1, <3>2, <3>3, <3>4 DEF SubLink, Born
  <2> QED BY <2>2, <2>3
<1>10. OneDue'
  BY <1>2, <1>8, DueStays, OneDueStays DEF Links, Tied
<1>11. Tied'
  BY <1>7, <1>9, <1>10 DEF Tied
<1> QED BY <1>2, <1>11, RestingHook

LEMMA OpenTied ==
  ASSUME ConstantsOK, Base, Links, NEW r \in Requests, Open(r), CallTrial(r), ~Busy
  PROVE  Links'
<1>1. TypeOK /\ r \in Subs
  BY Ids DEF Base
<1>2. /\ call[r].at = "open" /\ StripeMoved(r)
      /\ UNCHANGED <<deploy, rows, events, hook, changes, harm>>
      /\ stripe'[r].status = "open" /\ stripe'[r].home = call[r].row
  BY <1>1, OpenDoes
<1>3. ~Born(r) /\ ~Born(r)' /\ ~Due(r)' /\ ~Untold(r)
  <2>1. stripe[r].status = "none"
    BY <1>2 DEF Base, Fresh
  <2>2. ~Born(r) /\ ~Born(r)'
    BY <1>2, <2>1, Live DEF Born
  <2>3. ~Untold(r)
    BY <1>1, <2>2, Ids, NotHooks DEF Untold, Base, Handling, Queued, Busy
  <2> QED BY <2>2, <2>3 DEF Due
<1>4. Exists(call[r].row)
  BY <1>2 DEF CallTrial
<1>5. Grown
  BY <1>1, <1>2, <1>3 DEF Grown, StripeMoved, Born
<1>6. \A j \in RowIds : RowLink(j)'
  BY <1>1, <1>2, <1>5, RowTied DEF Links, Tied
<1>7. ASSUME NEW s \in Subs, s # r PROVE SubLink(s)'
  <2>1. stripe'[s] = stripe[s] /\ SubLink(s)
    BY <1>2, <1>7 DEF StripeMoved, Links, Tied
  <2>2. (Untold(s)' <=> Untold(s)) /\ \A k : Coming(k, s)' <=> Coming(k, s)
    BY <1>2, SameComing
  <2> QED BY <1>2, <2>1, <2>2, SubTied
<1>8. SubLink(r)'
  <2>1. Exists(stripe[r].home)'
    BY <1>2, <1>4 DEF Exists
  <2>2. ~LinkedTo(r)'
    <3>1. RowOf(r)' = call[r].row /\ call[r].row \in RowIds
      BY <1>1, <1>2, <1>4, Fields DEF RowOf, Exists
    <3>2. rows[call[r].row].sub # r
      BY <1>1, <1>3, <1>4, <3>1, Ids DEF Links, Tied, RowLink
    <3> QED BY <1>2, <3>1, <3>2 DEF LinkedTo
  <2>3. r \notin Foreign
    BY Ids
  <2> QED BY <1>3, <2>1, <2>2, <2>3 DEF SubLink
<1>9. OneDue'
  <2>1. \A s \in Subs : s # r => (Due(s)' => Due(s)) /\ RowOf(s)' = RowOf(s)
    BY <1>2, DueStays, SameComing DEF StripeMoved, RowOf
  <2> QED BY <1>3, <2>1 DEF Links, Tied, OneDue
<1>10. Tied'
  BY <1>6, <1>7, <1>8, <1>9 DEF Tied
<1> QED BY <1>2, <1>10, RestingHook

LEMMA ToldUntold ==
  ASSUME TypeOK, NEW s \in Subs, NEW kind, Told(kind, s), UNCHANGED hook, NEW q \in Subs, q # s
  PROVE  Untold(q)' <=> Untold(q)
<1>1. Len(events) \in Nat /\ Len(events') = Len(events) + 1
  BY DEF TypeOK, Told
<1>2. \A j \in 1..Len(events) : j \in 1..Len(events') /\ events'[j] = events[j]
  BY <1>1 DEF Told
<1>3. \A j \in 1..Len(events') : j \in 1..Len(events) \/ j = Len(events) + 1
  BY <1>1
<1>4. events'[Len(events) + 1].sub = s
  BY DEF Told
<1> QED BY <1>2, <1>3, <1>4 DEF Untold

\* There is more to tell of s, and that is about s.
LEMMA ToldNew ==
  ASSUME TypeOK, NEW s \in Subs, NEW kind, Told(kind, s)
  PROVE  Coming(kind, s)'
<1>1. Len(events) + 1 \in 1..Len(events')
  BY DEF TypeOK, Told
<1> QED BY <1>1 DEF Told, Coming, EventAt

\* Stripe tells of a change to a subscription that is due.
LEMMA ToldTied ==
  ASSUME ConstantsOK, Base, Links, ~Busy, UNCHANGED <<rows, hook>>, NEW s \in Subs, Due(s),
         StripeMoved(s), stripe'[s].status \in BornStatus, stripe'[s].home = stripe[s].home,
         NEW kind \in {"updated", "deleted"}, Told(kind, s)
  PROVE  Links'
<1>1. TypeOK /\ Born(s)
  BY DEF Base, Due
<1>2. /\ Born(s)' /\ RowOf(s)' = RowOf(s)
      /\ \A q \in Subs : q # s => stripe'[q] = stripe[q] /\ RowOf(q)' = RowOf(q)
  BY DEF Born, RowOf, StripeMoved
<1>3. Grown
  BY <1>2 DEF Grown, StripeMoved, Born
<1>4. \A q, k : Coming(k, q) => Coming(k, q)'
  BY <1>1, ToldComing
<1>5. \A q \in Subs : q # s => (Untold(q)' <=> Untold(q))
  BY <1>1, ToldUntold
<1>6. \A j \in RowIds : RowLink(j)'
  BY <1>1, <1>3, RowTied DEF Links, Tied
<1>7. ASSUME NEW q \in Subs, q # s PROVE SubLink(q)'
  BY <1>2, <1>4, <1>5, <1>7, SubTied DEF Links, Tied
<1>8. SubLink(s)'
  <2>1. SubLink(s) /\ (LinkedTo(s)' <=> LinkedTo(s))
    BY <1>2 DEF Links, Tied, LinkedTo, Exists
  <2>2. Exists(stripe[s].home) => Exists(stripe[s].home)'
    BY DEF Exists
  <2>3. \E k \in Late : Coming(k, s)'
    BY <1>1, ToldNew DEF Late
  <2>4. Coming(Linking(s), s) => Coming(Linking(s), s)'
    BY <1>4 DEF Linking
  <2> QED BY <1>2, <2>1, <2>2, <2>3, <2>4 DEF SubLink, Linking
<1>9. OneDue'
  <2>1. \A q \in Subs : Due(q)' => Due(q)
    BY <1>2, <1>5, DueStays
  <2> QED BY <1>2, <2>1 DEF Links, Tied, OneDue
<1>10. Tied'
  BY <1>6, <1>7, <1>8, <1>9 DEF Tied
<1> QED BY <1>10, RestingHook

LEMMA ChangeTied ==
  ASSUME ConstantsOK, Base, Links, ~Busy, NEW s \in Subs, Change(s) \/ CancelLater(s)
  PROVE  Links'
<1>1. TypeOK
  BY DEF Base
<1>2. UNCHANGED <<rows, hook>>
  BY <1>1, ChangeDoes, CancelLaterDoes DEF ByStripe
<1>3. CASE Change(s)
  <2>1. Due(s)
    BY <1>1, <1>3, ChangeDoes DEF Due, Over
  <2>2. PICK v \in BornStatus :
          StatusSet(s, v) /\ Told(IF v = "canceled" THEN "deleted" ELSE "updated", s)
    BY <1>1, <1>3, ChangeDoes
  <2>3. /\ StripeMoved(s) /\ stripe'[s].status \in BornStatus
        /\ stripe'[s].home = stripe[s].home
    BY <2>2 DEF StatusSet
  <2> QED BY <1>2, <2>1, <2>2, <2>3, ToldTied
<1>4. CASE CancelLater(s)
  <2>1. LiveSub(s) /\ EndSet(s, TRUE) /\ Told("updated", s)
    BY <1>1, <1>4, CancelLaterDoes
  <2>2. Due(s)
    BY <2>1, Live DEF Due, Over, Born, LiveSub
  <2>3. /\ StripeMoved(s) /\ stripe'[s].status \in BornStatus
        /\ stripe'[s].home = stripe[s].home
    BY <2>1, Live DEF EndSet, LiveSub
  <2> QED BY <1>2, <2>1, <2>2, <2>3, ToldTied
<1> QED BY <1>3, <1>4

LEMMA RenewTied ==
  ASSUME ConstantsOK, Base, Links, NEW r \in Requests, Renew(r), StillSo(r), ~Busy
  PROVE  Links'
<1>1. TypeOK /\ InHand
  BY DEF Base
<1>2. /\ call[r].at = "renew" /\ call[r].sub \in Subs
      /\ UNCHANGED <<deploy, rows, hook, changes, harm>>
  BY <1>1, RenewDoes
<1>3. LiveSub(call[r].sub)
  BY <1>2 DEF StillSo
<1>4. CASE EndSet(call[r].sub, FALSE) /\ Told("updated", call[r].sub)
  <2>1. Due(call[r].sub)
    BY <1>3, Live DEF Due, Over, Born, LiveSub
  <2>2. /\ StripeMoved(call[r].sub) /\ stripe'[call[r].sub].status \in BornStatus
        /\ stripe'[call[r].sub].home = stripe[call[r].sub].home
    BY <1>3, <1>4, Live DEF EndSet, LiveSub
  <2> QED BY <1>2, <1>4, <2>1, <2>2, ToldTied
<1>5. CASE UNCHANGED <<stripe, events>>
  BY <1>2, <1>5, ReadTied
<1> QED BY <1>1, <1>4, <1>5, RenewDoes

LEMMA DashboardTied ==
  ASSUME ConstantsOK, Base, Links, ~Busy, NEW s \in Subs, Dashboard(s)
  PROVE  Links'
<1>1. TypeOK
  BY DEF Base
<1>2. /\ UNCHANGED <<rows, hook>> /\ stripe[s].status = "none" /\ s \in Foreign
      /\ StatusSet(s, "active") /\ Told("created", s)
  BY <1>1, DashboardDoes DEF ByStripe
<1>3. /\ ~Born(s) /\ Born(s)' /\ RowOf(s)' = RowOf(s) /\ stripe'[s].home = stripe[s].home
      /\ \A q \in Subs : q # s => stripe'[q] = stripe[q] /\ RowOf(q)' = RowOf(q)
  BY <1>2, Live DEF Born, RowOf, StatusSet, StripeMoved
<1>4. Grown
  BY <1>2, <1>3 DEF Grown, StatusSet, StripeMoved, Born
<1>5. \A q, k : Coming(k, q) => Coming(k, q)'
  BY <1>1, <1>2, ToldComing
<1>6. \A q \in Subs : q # s => (Untold(q)' <=> Untold(q))
  BY <1>1, <1>2, ToldUntold
<1>7. \A j \in RowIds : RowLink(j)'
  BY <1>1, <1>2, <1>4, RowTied DEF Links, Tied
<1>8. ASSUME NEW q \in Subs, q # s PROVE SubLink(q)'
  BY <1>2, <1>3, <1>5, <1>6, <1>8, SubTied DEF Links, Tied
<1>9. RowOf(s) = <<"webhook", s>> /\ rows[<<"webhook", s>>] = NoRow
  BY <1>2, <1>3, RowIs DEF Links, Tied, SubLink
<1>10. SubLink(s)'
  <2>1. ~LinkedTo(s)'
    BY <1>2, <1>3, <1>9 DEF LinkedTo, Exists
  <2>2. Coming("created", s)' /\ s \notin Requests
    BY <1>1, <1>2, ToldNew, Ids
  <2> QED BY <1>2, <1>3, <1>9, <2>1, <2>2 DEF SubLink, Linking
<1>11. OneDue'
  <2>1. \A q \in Subs : q # s => (Due(q)' => Due(q))
    BY <1>3, <1>6, DueStays
  <2>2. ASSUME NEW q \in Subs, q # s, Due(q) PROVE RowOf(q) # RowOf(s)
    <3>1. CASE q \in Foreign
      BY <1>9, <2>2, <3>1, RowIs
    <3>2. CASE q \in Requests
      <4>1. Exists(stripe[q].home) /\ RowOf(q) = stripe[q].home
        BY <2>2, <3>2, RowIs DEF Links, Tied, SubLink, Exists
      <4> QED BY <1>9, <4>1 DEF Exists
    <3> QED BY <3>1, <3>2, Ids
  <2> QED BY <1>3, <2>1, <2>2 DEF Links, Tied, OneDue
<1>12. Tied'
  BY <1>7, <1>8, <1>10, <1>11 DEF Tied
<1> QED BY <1>2, <1>12, RestingHook

\* A checkout is paid for whose row nobody else has who is due.
LEMMA PayTied ==
  ASSUME ConstantsOK, Base, Links, ~Busy, NEW r \in Requests, Pay(r), harm' = {}
  PROVE  Links'
<1> DEFINE n == Len(events)
<1>1. TypeOK /\ r \in Subs /\ r \notin Foreign
  BY Ids DEF Base
<1>2. /\ UNCHANGED <<rows, hook, call>> /\ stripe[r].status = "open"
      /\ harm' = harm \cup IF Owed(RowOf(r)) # {} THEN {"shared"} ELSE {}
      /\ StatusSet(r, IF stripe[r].trial THEN "trialing" ELSE "active")
  BY <1>1, PayDoes DEF ByStripe
<1>3. /\ Len(events') = n + 2 /\ \A j \in 1..n : events'[j] = events[j]
      /\ events'[n + 1].sub = r /\ events'[n + 2].sub = r
      /\ events'[n + 1].kind = "completed" \/ events'[n + 2].kind = "completed"
  BY <1>1, PayDoes
<1>4. n \in Nat
  BY <1>1 DEF TypeOK
<1>5. /\ \A j \in 1..n : j \in 1..Len(events')
      /\ n + 1 \in 1..Len(events') /\ n + 2 \in 1..Len(events')
      /\ \A j \in 1..Len(events') : j \in 1..n \/ j = n + 1 \/ j = n + 2
  BY <1>3, <1>4
<1> HIDE DEF n
<1>6. Coming("completed", r)'
  BY <1>3, <1>5 DEF Coming, EventAt
<1>7. /\ \A q, k : Coming(k, q) => Coming(k, q)'
      /\ \A q \in Subs : q # r => (Untold(q)' <=> Untold(q))
  BY <1>2, <1>3, <1>5 DEF Coming, EventAt, Untold, n
<1>8. /\ ~Born(r) /\ Born(r)' /\ RowOf(r)' = RowOf(r) /\ stripe'[r].home = stripe[r].home
      /\ \A q \in Subs : q # r => stripe'[q] = stripe[q] /\ RowOf(q)' = RowOf(q)
  BY <1>2, Live DEF Born, RowOf, StatusSet, StripeMoved
<1>9. Grown
  BY <1>2, <1>8 DEF Grown, StatusSet, StripeMoved, Born
<1>10. \A j \in RowIds : RowLink(j)'
  BY <1>1, <1>2, <1>9, RowTied DEF Links, Tied
<1>11. ASSUME NEW q \in Subs, q # r PROVE SubLink(q)'
  BY <1>2, <1>7, <1>8, <1>11, SubTied DEF Links, Tied
<1>12. SubLink(r)'
  <2>1. Exists(stripe[r].home)
    BY <1>2, <1>1 DEF Links, Tied, SubLink
  <2>2. Exists(stripe[r].home)'
    BY <1>2, <1>8, <2>1 DEF Exists
  <2> QED BY <1>1, <1>6, <2>2 DEF SubLink, Linking, Late
<1>13. OneDue'
  <2>1. \A q \in Subs : q # r => (Due(q)' => Due(q))
    BY <1>7, <1>8, DueStays
  <2>2. \A q \in Subs : Due(q) => RowOf(q) # RowOf(r)
    BY <1>2 DEF Owed, Due
  <2> QED BY <1>8, <2>1, <2>2 DEF Links, Tied, OneDue
<1>14. Tied'
  BY <1>10, <1>11, <1>12, <1>13 DEF Tied
<1> QED BY <1>2, <1>14, RestingHook

\* The handler goes on with the event.
LEMMA WentTied ==
  ASSUME ConstantsOK, Base, Links, HooksAlone, hook'.event.kind = hook.event.kind,
         hook'.event.sub = hook.event.sub
  PROVE  Tied'
<1>1. UNCHANGED <<rows, stripe, events>>
  BY DEF HooksAlone
<1> QED BY <1>1, SameComing, TiedStays DEF Links

LEMMA ReceiveUntold ==
  ASSUME ConstantsOK, Base, Receive, NEW s \in Subs
  PROVE  Untold(s)' => Untold(s)
<1>1. TypeOK /\ Len(events) \in Nat
  BY DEF Base, TypeOK
<1>2. PICK i \in 1..Len(events) :
        /\ hook'.event = events[i]
        /\ \/ events' = events
           \/ /\ Len(events') = Len(events) - 1
              /\ \A j \in 1..(Len(events) - 1) :
                   events'[j] = IF j < i THEN events[j] ELSE events[j + 1]
  BY <1>1, ReceiveDoes
<1>3. \A j \in 1..Len(events') : \E k \in 1..Len(events) : events'[j] = events[k]
  <2>1. CASE events' = events
    BY <2>1
  <2>2. CASE /\ Len(events') = Len(events) - 1
             /\ \A j \in 1..(Len(events) - 1) :
                  events'[j] = IF j < i THEN events[j] ELSE events[j + 1]
    <3> SUFFICES ASSUME NEW j \in 1..Len(events')
                 PROVE  \E k \in 1..Len(events) : events'[j] = events[k]
      OBVIOUS
    <3>1. j \in 1..Len(events) /\ j + 1 \in 1..Len(events) /\ j \in 1..(Len(events) - 1)
      BY <1>1, <2>2
    <3> QED BY <2>2, <3>1
  <2> QED BY <1>2, <2>1, <2>2
<1> QED BY <1>2, <1>3 DEF Untold

LEMMA ReceiveTied ==
  ASSUME ConstantsOK, Base, Links, Receive
  PROVE  Links'
<1>1. TypeOK
  BY DEF Base
<1>2. UNCHANGED <<rows, stripe>> /\ hook'.at \in {"retrieve", "find"}
  BY <1>1, ReceiveDoes
<1>3. \A s \in Subs : \A k \in Late \cup {"created"} : Coming(k, s) => Coming(k, s)'
  BY ReceiveComing DEF Late
<1>4. Tied'
  BY <1>2, <1>3, ReceiveUntold, TiedStays DEF Links
<1> QED BY <1>2, <1>4 DEF Links, HookLink

\* What is left when the event in hand is handled.
LEMMA HandledComing ==
  ASSUME ConstantsOK, Base, UNCHANGED events, hook' = NoHook, NEW s \in Subs
  PROVE  /\ Untold(s)' => Untold(s)
         /\ \A k : Coming(k, s) /\ (k # hook.event.kind \/ s # hook.event.sub) => Coming(k, s)'
<1>1. s # None
  BY Ids
<1> QED BY <1>1, NotHooks DEF Untold, Coming, EventAt

LEMMA CrashTied ==
  ASSUME ConstantsOK, Base, Links, Crash
  PROVE  Links'
<1>1. Busy /\ hook.again /\ hook' = NoHook /\ HooksAlone
  BY CrashDoes
<1>2. Coming(hook.event.kind, hook.event.sub)'
  BY <1>1 DEF HooksAlone, Base, Handling, Coming, EventAt
<1>3. \A s \in Subs : \A k \in Late \cup {"created"} : Coming(k, s) => Coming(k, s)'
  <2> SUFFICES ASSUME NEW s \in Subs, NEW k, Coming(k, s) PROVE Coming(k, s)'
    OBVIOUS
  <2>1. CASE k = hook.event.kind /\ s = hook.event.sub
    BY <1>1, <1>2, <2>1 DEF HooksAlone, Base, Handling, Coming, EventAt
  <2>2. CASE k # hook.event.kind \/ s # hook.event.sub
    BY <1>1, <2>2, HandledComing DEF HooksAlone
  <2> QED BY <2>1, <2>2
<1>4. Tied'
  BY <1>1, <1>3, HandledComing, TiedStays DEF HooksAlone, Links
<1> QED BY <1>1, <1>4, NotHooks DEF Links, HookLink

LEMMA RetrieveTied ==
  ASSUME ConstantsOK, Base, Links, Trials, Retrieve
  PROVE  Links'
<1>1. TypeOK /\ Handling
  BY DEF Base
<1>2. /\ hook.at = "retrieve" /\ HooksAlone
      /\ hook.event.sub \in Requests /\ hook.event.kind = "completed"
      /\ hook'.at = "write" /\ hook'.row = stripe[hook.event.sub].home
      /\ hook'.event.kind = hook.event.kind /\ hook'.event.sub = hook.event.sub
  BY <1>1, RetrieveDoes
<1>3. Exists(stripe[hook.event.sub].home)
  <2>1. Coming("completed", hook.event.sub)
    BY <1>2 DEF Coming
  <2> QED BY <1>2, <2>1 DEF Trials, HomeTrial
<1>4. RowOf(hook.event.sub) = stripe[hook.event.sub].home
  BY <1>3 DEF Exists, RowOf
<1>5. Exists(hook'.row) /\ UNCHANGED <<rows, stripe>>
  BY <1>2, <1>3 DEF HooksAlone
<1>6. Exists(hook.row)' /\ (hook.row = RowOf(hook.event.sub))'
  BY <1>2, <1>4, <1>5 DEF Exists, RowOf
<1>7. HookLink'
  BY <1>2, <1>6 DEF HookLink
<1> QED BY <1>2, <1>7, WentTied DEF Links

\* The event that s was created is in hand, and no row is named for it: s was made in
\* the dashboard, and has no row.
LEMMA FindCreatedTied ==
  ASSUME ConstantsOK, Base, Links, FindCreated, NEW s \in Subs, hook.event.sub = s
  PROVE  Links'
<1>1. TypeOK /\ Fresh /\ Homes
  BY DEF Base
<1>2. hook.at = "find" /\ hook.event.kind = "created" /\ HooksAlone
  BY <1>1, FindCreatedDoes
<1>3. Due(s) /\ Born(s)
  BY <1>2, BusyDue DEF Busy
<1>4. SubLink(s) /\ Tied
  BY <1>3 DEF Links, Tied
<1>5. s \in Foreign => stripe[s].home = NoId /\ RowOf(s) = <<"webhook", s>>
  BY <1>3, RowIs
<1>6. s \in Requests => Exists(stripe[s].home) /\ stripe[s].home \in RowIds
  <2>1. stripe[s].home \in RowIds \cup {NoId}
    BY <1>1, <1>3, Fields
  <2> QED BY <1>3, <1>4, <2>1 DEF SubLink, Exists
<1>7. s \in Requests => Named(s) # {}
  <2> SUFFICES ASSUME s \in Requests PROVE stripe[s].home \in Named(s)
    OBVIOUS
  <2>1. stripe[s].home \in All /\ stripe[s].home # NoId
    BY <1>6 DEF All, Exists
  <2> QED BY <2>1 DEF Named
<1>8. s \in Requests \/ s \in Foreign
  BY <1>3, Ids
<1>9. CASE hook' = NoHook /\ (Named(s) # {} \/ NewRows(s) = {})
  <2>1. s \in Foreign => LinkedTo(s)
    <3> SUFFICES ASSUME s \in Foreign PROVE LinkedTo(s)
      OBVIOUS
    <3>1. CASE Named(s) # {}
      <4>1. Linked(s) # {}
        BY <1>5, <3>1 DEF Named
      <4> QED BY <1>3, <1>4, <4>1, LinkedIs
    <3>2. CASE NewRows(s) = {}
      <4>1. rows[<<"webhook", s>>] # NoRow
        BY <3>2 DEF NewRows
      <4> QED BY <1>3, <1>4, <4>1 DEF SubLink
    <3> QED BY <1>9, <3>1, <3>2
  <2>2. UNCHANGED <<rows, stripe, events>>
    BY <1>2 DEF HooksAlone
  <2>3. \A q \in Subs : /\ Untold(q)' => Untold(q)
                        /\ \A k : Coming(k, q) /\ (k # "created" \/ q # s) => Coming(k, q)'
    BY <1>2, <1>9, <2>2, HandledComing
  <2>4. \A q \in Subs : q # s => SubLink(q)'
    BY <2>2, <2>3, SubTied DEF Links, Tied, Late
  <2>5. SubLink(s)'
    <3>1. \A k \in Late : Coming(k, s) => Coming(k, s)'
      BY <1>3, <2>3 DEF Late
    <3>2. s \in Requests => SubLink(s)'
      BY <1>3, <1>4, <2>2, <2>3, <3>1, SubTied, Ids DEF Late
    <3>3. s \in Foreign => SubLink(s)'
      <4> SUFFICES ASSUME s \in Foreign PROVE SubLink(s)'
        OBVIOUS
      <4>1. LinkedTo(s)' /\ LinkedTo(s)
        BY <2>1, <2>2 DEF LinkedTo, Exists, RowOf
      <4>2. Born(s)'
        BY <1>3, <2>2 DEF Born
      <4>3. Shows(RowOf(s), s)' \/ \E k \in Late : Coming(k, s)'
        <5>1. Shows(RowOf(s), s) \/ \E k \in Late : Coming(k, s)
          BY <1>4, <4>1 DEF SubLink
        <5>2. Shows(RowOf(s), s) => Shows(RowOf(s), s)'
          BY <2>2 DEF Shows, RowOf
        <5> QED BY <3>1, <5>1, <5>2
      <4>4. s \notin Requests
        BY <1>3, Ids
      <4> QED BY <4>1, <4>2, <4>3, <4>4 DEF SubLink
    <3> QED BY <1>8, <3>2, <3>3
  <2>6. OneDue'
    BY <2>2, <2>3, DueStays, OneDueStays DEF Links, Tied
  <2>7. \A i \in RowIds : RowLink(i)'
    <3>1. Grown
      BY <1>1, <2>2 DEF Grown, TypeOK, Born
    <3> QED BY <1>1, <2>2, <3>1, RowTied DEF Links, Tied
  <2>8. Tied'
    BY <2>4, <2>5, <2>6, <2>7 DEF Tied
  <2> QED BY <1>9, <2>8, NotHooks DEF Links, HookLink
<1>10. CASE HookWent("create", hook.row) /\ Named(s) = {} /\ NewRows(s) # {}
  <2>1. s \in Foreign
    BY <1>7, <1>8, <1>10
  <2>2. ~LinkedTo(s)
    <3>1. Linked(s) = {}
      BY <1>5, <1>10, <2>1 DEF Named
    <3> QED BY <1>3, <1>4, <3>1, LinkedIs
  <2>3. hook'.event = hook.event /\ hook'.at = "create" /\ UNCHANGED <<rows, stripe>>
    BY <1>2, <1>10 DEF HookWent, HooksAlone
  <2>4. ~LinkedTo(hook.event.sub)' /\ hook'.event.sub \in Foreign
    <3>1. ~LinkedTo(s)'
      BY <2>2, <2>3 DEF LinkedTo, Exists, RowOf
    <3> QED BY <2>1, <2>2, <2>3, <3>1 DEF LinkedTo, Exists, RowOf
  <2>5. HookLink'
    BY <2>3, <2>4 DEF HookLink
  <2> QED BY <1>2, <2>3, <2>5, WentTied DEF Links
<1> QED BY <1>1, <1>9, <1>10, FindCreatedDoes

\* A row is found for the event: it is the row of s.
LEMMA FoundTied ==
  ASSUME ConstantsOK, Base, Links, NEW s \in Subs, hook.event.sub = s, HooksAlone,
         NEW i, HookWent("write", i), Exists(i), RowOf(s) = i,
         hook.event.kind = "deleted" => LinkedTo(s)
  PROVE  Links'
<1>1. /\ hook'.at = "write" /\ hook'.row = i /\ hook'.event = hook.event
      /\ UNCHANGED <<rows, stripe>>
  BY DEF HookWent, HooksAlone
<1>2. Exists(hook.row)' /\ RowOf(s)' = i /\ LinkedTo(s)' = LinkedTo(s)
  BY <1>1 DEF Exists, RowOf, LinkedTo
<1>3. (hook.row = RowOf(hook.event.sub))'
  BY <1>1, <1>2 DEF RowOf
<1>4. hook'.event.kind = "deleted" => LinkedTo(hook.event.sub)'
  BY <1>1, <1>2 DEF LinkedTo, Exists, RowOf
<1>5. HookLink'
  BY <1>1, <1>2, <1>3, <1>4 DEF HookLink
<1> QED BY <1>1, <1>5, WentTied DEF Links

\* What is told to be updated has a row: its start was told before.
LEMMA FindUpdatedTied ==
  ASSUME ConstantsOK, Base, InOrder, Links, FindUpdated, NEW s \in Subs, hook.event.sub = s
  PROVE  Links'
<1>1. TypeOK
  BY DEF Base
<1>2. hook.at = "find" /\ hook.event.kind = "updated" /\ HooksAlone
  BY <1>1, FindUpdatedDoes
<1>3. Due(s) /\ Born(s) /\ Busy
  BY <1>2, BusyDue DEF Busy
<1>4. SubLink(s) /\ Tied
  BY DEF Links, Tied
<1>5. \A i \in Named(s) : i = RowOf(s)
  <2> SUFFICES ASSUME NEW i \in Named(s) PROVE i = RowOf(s)
    OBVIOUS
  <2>1. CASE stripe[s].home = NoId
    BY <1>4, <2>1, LinkedIs DEF Named
  <2>2. CASE stripe[s].home # NoId
    BY <2>2, RowIs DEF Named
  <2> QED BY <2>1, <2>2
<1>6. Named(s) # {}
  <2>1. CASE s \in Requests
    <3>1. Exists(stripe[s].home) /\ stripe[s].home \in RowIds \cup {NoId}
      BY <1>1, <1>3, <1>4, <2>1, Fields DEF SubLink
    <3>2. stripe[s].home \in All /\ stripe[s].home # NoId
      BY <3>1 DEF All, Exists
    <3>3. stripe[s].home \in Named(s)
      BY <3>2 DEF Named
    <3> QED BY <3>3
  <2>2. CASE s \notin Requests
    <3>1. ~Coming("created", s)
      <4>1. \A k \in 1..Len(events) : events[k].sub = s => events[k].kind \notin Early
        BY <1>2, <1>3 DEF InOrder, InTurn, Early
      <4> QED BY <1>2, <4>1 DEF Coming, EventAt, Early
    <3>2. LinkedTo(s)
      BY <1>3, <1>4, <2>2, <3>1 DEF SubLink, Linking
    <3>3. stripe[s].home = NoId
      BY <2>2, RowIs, Ids
    <3>4. RowOf(s) \in Named(s)
      BY <1>4, <3>2, <3>3, LinkedIs DEF Named
    <3> QED BY <3>4
  <2> QED BY <2>1, <2>2
<1>7. PICK i \in Named(s) : i \in All /\ HookWent("write", i)
  BY <1>1, <1>6, FindUpdatedDoes
<1> QED BY <1>2, <1>5, <1>7, FoundTied DEF All

LEMMA FindDeletedTied ==
  ASSUME ConstantsOK, Base, Links, FindDeleted, NEW s \in Subs, hook.event.sub = s
  PROVE  Links'
<1>1. TypeOK /\ Tied
  BY DEF Base, Links
<1>2. hook.at = "find" /\ hook.event.kind = "deleted" /\ HooksAlone
  BY <1>1, FindDeletedDoes
<1>3. CASE hook' = NoHook /\ Linked(s) = {}
  <2>1. ~LinkedTo(s)
    BY <1>1, <1>3, LinkedIs
  <2>2. UNCHANGED <<rows, stripe, events>>
    BY <1>2 DEF HooksAlone
  <2>3. \A q \in Subs : /\ Untold(q)' => Untold(q)
                        /\ \A k : Coming(k, q) /\ (k # "deleted" \/ q # s) => Coming(k, q)'
    BY <1>2, <1>3, <2>2, HandledComing
  <2>4. \A q \in Subs : q # s => SubLink(q)'
    BY <2>2, <2>3, SubTied DEF Tied, Late, Links
  <2>5. SubLink(s)'
    <3>1. ~LinkedTo(s)' /\ (Due(s)' => Due(s)) /\ (Born(s)' <=> Born(s))
      BY <2>1, <2>2, <2>3, DueStays DEF LinkedTo, Exists, RowOf, Born
    <3>2. Coming(Linking(s), s) => Coming(Linking(s), s)'
      BY <2>3 DEF Linking
    <3>3. SubLink(s) /\ (Exists(stripe[s].home) => Exists(stripe[s].home)')
      BY <1>1, <2>2 DEF Tied, Exists
    <3> QED BY <2>1, <2>2, <3>1, <3>2, <3>3 DEF SubLink, Linking
  <2>6. OneDue'
    BY <1>1, <2>2, <2>3, DueStays, OneDueStays DEF Tied
  <2>7. \A i \in RowIds : RowLink(i)'
    <3>1. Grown
      BY <1>1, <2>2 DEF Grown, TypeOK, Born
    <3> QED BY <1>1, <2>2, <3>1, RowTied DEF Tied
  <2>8. Tied'
    BY <2>4, <2>5, <2>6, <2>7 DEF Tied
  <2> QED BY <1>3, <2>8, NotHooks DEF Links, HookLink
<1>4. ASSUME NEW i \in Linked(s), HookWent("write", i) PROVE Links'
  <2>1. i = RowOf(s) /\ LinkedTo(s)
    BY <1>1, <1>4, LinkedIs
  <2> QED BY <1>2, <1>4, <2>1, FoundTied DEF LinkedTo
<1> QED BY <1>1, <1>3, <1>4, FindDeletedDoes

\* The queue holds another event about s that is late, or the one in hand says what
\* s is now.
LEMMA LastWord ==
  ASSUME ConstantsOK, Base, InOrder, Busy, hook.event.kind # "completed" \/ hook.at = "write",
         NEW s \in Subs, hook.event.sub = s
  PROVE  \/ Current(hook.event)
         \/ \E j \in 1..Len(events) : events[j].sub = s /\ events[j].kind \in Late
<1> DEFINE e == hook.event
<1>1. TypeOK /\ InTurn /\ Len(events) \in Nat
  BY DEF Base, TypeOK, InOrder
<1>2. \A j \in 1..Len(events) : InQueue(j) /\ events[j].kind \in Late \cup {"created"}
  BY <1>1, Fields DEF InOrder, Late
<1> SUFFICES ASSUME \A j \in 1..Len(events) : events[j].sub = s => events[j].kind = "created"
             PROVE  Current(e)
  BY <1>2
<1>3. CASE \A j \in 1..Len(events) : events[j].sub # s
  BY <1>1, <1>3 DEF InTurn
<1>4. ASSUME NEW j \in 1..Len(events), events[j].sub = s PROVE Current(e)
  <2>1. events[j].kind = "created"
    BY <1>4
  <2>2. \A k \in (j + 1)..Len(events) : k \in 1..Len(events)
    BY <1>1
  <2>3. \A k \in (j + 1)..Len(events) : events[k].sub # events[j].sub
    BY <1>2, <1>4, <2>1, <2>2 DEF InQueue
  <2>4. Current(events[j])
    BY <1>2, <2>3 DEF InQueue
  <2>5. e.kind \in Early
    BY <1>1, <1>4, <2>1 DEF InTurn, Early
  <2>6. CASE e.kind = "created"
    BY <1>1, <1>4, <2>1, <2>4, <2>6 DEF InTurn
  <2>7. CASE e.kind = "completed"
    BY <1>1, <2>7 DEF InTurn
  <2> QED BY <2>5, <2>6, <2>7 DEF Early
<1> QED BY <1>3, <1>4

LEMMA CreateRowTied ==
  ASSUME ConstantsOK, Base, InOrder, Links, CreateRow, NEW s \in Subs, hook.event.sub = s
  PROVE  Links'
<1> DEFINE i == <<"webhook", s>>
<1>1. TypeOK /\ Handling /\ InHand /\ Tied
  BY DEF Base, Links
<1>2. /\ hook.at = "create" /\ hook' = NoHook
      /\ UNCHANGED <<deploy, stripe, events, call, changes, harm>>
  BY <1>1, CreateRowDoes
<1>3. hook.event.kind = "created" /\ Busy
  BY <1>2 DEF Base, Handling, Busy
<1>4. s \in Foreign /\ ~LinkedTo(s) /\ Due(s) /\ Born(s) /\ i \in RowIds
  BY <1>2, <1>3, BusyDue, Ids DEF Links, HookLink
<1>5. rows[i] = NoRow /\ RowOf(s) = i
  BY <1>1, <1>4, RowIs DEF Tied, SubLink
<1>6. PICK j \in NewRows(s) :
        /\ j[1] = "webhook" \/ Cardinality(NewRows(s)) = 1
        /\ j \in {<<"webhook", s>>, <<"again", s>>}
        /\ \A k \in RowIds : k # j => rows'[k] = rows[k]
        /\ rows'[j].status = hook.event.status /\ rows'[j].sub = s
        /\ rows'[j].trial = stripe[s].trial /\ ~rows'[j].pending
  BY <1>1, CreateRowDoes
<1>7. j = i
  <2>1. i \in NewRows(s)
    BY <1>5 DEF NewRows
  <2>2. CASE j[1] = "webhook"
    BY <1>6, <2>2
  <2>3. CASE Cardinality(NewRows(s)) = 1
    <3>1. IsFiniteSet(NewRows(s))
      <4>1. NewRows(s) \subseteq {<<"webhook", s>>, <<"again", s>>}
        BY NewRowIs
      <4>2. /\ IsFiniteSet({<<"webhook", s>>}) /\ IsFiniteSet({<<"again", s>>})
            /\ {<<"webhook", s>>, <<"again", s>>} = {<<"webhook", s>>} \cup {<<"again", s>>}
        BY FS_Singleton
      <4>3. IsFiniteSet({<<"webhook", s>>} \cup {<<"again", s>>})
        BY <4>2, FS_Union
      <4> QED BY <4>1, <4>2, <4>3, FS_Subset
    <3>2. \E m : NewRows(s) = {m}
      BY <2>3, <3>1, FS_Singleton
    <3> QED BY <2>1, <3>2
  <2> QED BY <1>6, <2>2, <2>3
<1>8. /\ \A k \in RowIds : k # i => rows'[k] = rows[k]
      /\ rows'[i].status = hook.event.status /\ rows'[i].sub = s
      /\ rows'[i].trial = stripe[s].trial /\ ~rows'[i].pending
  BY <1>6, <1>7
<1> HIDE DEF i
<1>9. rows'[i].status \in BornStatus /\ rows'[i].pending = FALSE
  <2>1. hook.event.status \in BornStatus
    BY <1>3, BusyDue DEF Event
  <2>2. rows'[i].pending \in BOOLEAN
    BY <1>1, <1>4, CreateRowDoes DEF Row
  <2> QED BY <1>8, <2>1, <2>2
<1>10. /\ \A q \in Subs : Untold(q)' => Untold(q)
       /\ \A q \in Subs : q # s => \A k \in Late \cup {"created"} : Coming(k, q) => Coming(k, q)'
  BY <1>2, HandledComing
<1>11. Shows(i, s)' \/ \E k \in Late : Coming(k, s)'
  <2>1. CASE Current(hook.event)
    <3>1. hook.event.pending = FALSE
      <4>1. ~hook.event.pending /\ hook.event.pending \in BOOLEAN
        BY <1>3, BusyDue DEF InOrder, InTurn, Event
      <4> QED BY <4>1
    <3>2. stripe[s].status = hook.event.status /\ stripe[s].pending = FALSE
      BY <2>1, <3>1 DEF Current
    <3> QED BY <1>2, <1>8, <1>9, <3>2 DEF Shows
  <2>2. ASSUME NEW k \in 1..Len(events), events[k].sub = s, events[k].kind \in Late
        PROVE  \E m \in Late : Coming(m, s)'
    BY <1>2, <2>2 DEF Coming, EventAt
  <2> QED BY <1>3, <2>1, <2>2, LastWord
<1>12. \A q \in Subs : q # s /\ Due(q) => RowOf(q) # i
  <2> SUFFICES ASSUME NEW q \in Subs, q # s, RowOf(q) = i PROVE FALSE
    OBVIOUS
  <2>1. CASE stripe[q].home = NoId
    BY <2>1 DEF RowOf, i
  <2>2. CASE stripe[q].home # NoId
    BY <1>1, <1>5, <2>2, RowIs DEF InHand, HomeHand
  <2> QED BY <2>1, <2>2
<1>13. Tied'
  BY <1>1, <1>2, <1>4, <1>5, <1>8, <1>9, <1>10, <1>11, <1>12, WrittenTied DEF i
<1> QED BY <1>2, <1>13, NotHooks DEF Links, HookLink

LEMMA WriteTied ==
  ASSUME ConstantsOK, Base, InOrder, Links, Write, NEW s \in Subs, hook.event.sub = s,
         NEW i, hook.row = i
  PROVE  Links'
<1>1. TypeOK /\ Handling /\ InHand /\ Tied
  BY DEF Base, Links
<1>2. /\ hook.at = "write" /\ hook' = NoHook
      /\ UNCHANGED <<deploy, stripe, events, call, changes, harm>>
      /\ i \in RowIds
  BY <1>1, WriteDoes
<1>3. Busy /\ Due(s) /\ Born(s) /\ hook.event \in Event
  BY <1>2, BusyDue DEF Busy
<1>4. Exists(i) /\ RowOf(s) = i
  BY <1>2 DEF Links, HookLink
<1>5. PICK v \in Row :
        /\ Rewritten(i, v)
        /\ v.status = hook.event.status /\ v.pending = hook.event.pending
        /\ v.sub = IF hook.event.kind = "deleted" THEN rows[i].sub ELSE s
        /\ v.trial = (rows[i].trial \/ stripe[s].trial)
  BY <1>1, WriteDoes
<1>6. v.sub = s
  BY <1>2, <1>4, <1>5 DEF Links, HookLink, LinkedTo
<1>7. rows'[i] = v /\ \A j \in RowIds : j # i => rows'[j] = rows[j]
  BY <1>2, <1>4, <1>5 DEF Rewritten
<1>8. v.status \in BornStatus
  BY <1>3, <1>5 DEF Event
<1>9. /\ \A q \in Subs : Untold(q)' => Untold(q)
      /\ \A q \in Subs : q # s => \A k \in Late \cup {"created"} : Coming(k, q) => Coming(k, q)'
  BY <1>2, HandledComing
<1>10. Shows(i, s)' \/ \E k \in Late : Coming(k, s)'
  <2>1. CASE Current(hook.event)
    BY <1>2, <1>5, <1>7, <2>1 DEF Shows, Current
  <2>2. ASSUME NEW k \in 1..Len(events), events[k].sub = s, events[k].kind \in Late
        PROVE  \E m \in Late : Coming(m, s)'
    BY <1>2, <2>2 DEF Coming, EventAt
  <2> QED BY <1>2, <1>3, <2>1, <2>2, LastWord
<1>11. \A q \in Subs : q # s /\ Due(q) => RowOf(q) # i
  BY <1>1, <1>3, <1>4 DEF Tied, OneDue
<1>12. Tied'
  BY <1>1, <1>2, <1>3, <1>4, <1>6, <1>7, <1>8, <1>9, <1>10, <1>11, WrittenTied
<1> QED BY <1>2, <1>12, NotHooks DEF Links, HookLink

\* A step of a request, or its start, in an order of one thing at a time.
LEMMA StepTied ==
  ASSUME ConstantsOK, Base, Trials, Links, ~Busy, harm' = {}, NEW r \in Requests, StillSo(r),
         Step(r)
  PROVE  Links'
<1>1. TypeOK /\ InHand /\ CallTrial(r)
  BY DEF Base, Trials
<1>2. CASE \/ Review(r) \/ List(r) \/ Match(r) \/ Judge(r) \/ Look(r) \/ Fetch(r) \/ Find(r)
           \/ Check(r) \/ Resync(r) \/ Restore(r) \/ Revive(r)
  <2>1. Quietly
    BY <1>2 DEF Review, List, Match, Judge, Look, Fetch, Find, Check, Resync, Restore, Revive
  <2> QED BY <2>1, ReadTied DEF Quietly
<1>3. CASE Adopt(r)
  BY <1>1, <1>3, AdoptDoes DEF StillSo
<1>4. CASE Reserve(r) \/ Open(r)
  BY <1>1, <1>4, ReserveTied, OpenTied
<1>5. CASE Activate(r) \/ Remove(r)
  BY <1>5, ActivateTied, RemoveTied
<1>6. CASE Sync(r) \/ Renew(r) \/ ClearRow(r)
  BY <1>6, SyncTied, RenewTied
<1> QED BY <1>2, <1>3, <1>4, <1>5, <1>6 DEF Step

LEMMA HookTied ==
  ASSUME ConstantsOK, Base, Trials, InOrder, Links, ByHook
  PROVE  Links'
<1>1. CASE Receive \/ Crash \/ Retrieve
  BY <1>1, ReceiveTied, CrashTied, RetrieveTied
<1>2. CASE ByHook /\ ~(Receive \/ Crash \/ Retrieve)
  <2>1. Busy
    BY <1>2 DEF ByHook, FindCreated, CreateRow, FindUpdated, Others, FindDeleted, Write, Busy
  <2>2. hook.event.sub \in Subs
    BY <2>1, BusyDue
  <2>3. ~Others
    BY DEF Links, HookLink, Others
  <2> QED BY <1>2, <2>2, <2>3, FindCreatedTied, CreateRowTied, FindUpdatedTied, FindDeletedTied,
             WriteTied DEF ByHook
<1> QED BY <1>1, <1>2

LEMMA LinksKept ==
  ASSUME ConstantsOK, Base, Trials, deploy.serial, Alone, InOrder, Links, harm' = {},
         \A r \in Requests : StillSo(r), [Next]_vars
  PROVE  Links'
<1>1. TypeOK
  BY DEF Base
<1>2. ASSUME NEW r \in Requests, Start(r) PROVE Links'
  BY <1>1, <1>2, StartDoes, ReadTied DEF Quietly
<1>3. ASSUME NEW r \in Requests, Step(r) PROVE Links'
  <2>1. ~Busy
    BY <1>1, <1>3, StepMoves DEF Base, Alone
  <2> QED BY <1>3, <2>1, StepTied
<1>4. ASSUME NEW r \in Requests, Pay(r) PROVE Links'
  <2>1. ~Busy
    BY <1>4 DEF Pay, ByStripe, Clear, Quiet, Busy
  <2> QED BY <1>4, <2>1, PayTied
<1>5. ASSUME NEW s \in Subs, Dashboard(s) \/ Change(s) \/ CancelLater(s) PROVE Links'
  <2>1. ~Busy
    BY <1>5 DEF Dashboard, Change, CancelLater, ByStripe, Clear, Quiet, Busy
  <2> QED BY <1>5, <2>1, DashboardTied, ChangeTied
<1>6. CASE ByHook
  BY <1>6, HookTied
<1>7. CASE UNCHANGED vars
  BY <1>7, ReadTied DEF vars
<1> QED BY <1>2, <1>3, <1>4, <1>5, <1>6, <1>7 DEF Next, Idle

-----------------------------------------------------------------------------
(* The rows can be relied on *)

LEMMA InitRest ==
  ASSUME ConstantsOK, Init
  PROVE  Alone /\ InOrder /\ (\A r \in Requests : StillSo(r)) /\ Links
<1>1. Base /\ TypeOK
  BY InitBase DEF Base
<1>2. deploy.known \subseteq Foreign
  BY DeployTyped DEF Init
<1>3. events = <<>> /\ Len(events) = 0 /\ hook = NoHook
  BY DEF Init
<1>4. ~Busy /\ \A r \in Requests : ~InFlight(r)
  BY <1>3, NotHooks, NotCalls DEF Init, Busy, InFlight, Places
<1>5. \A s \in Subs :
        /\ stripe[s].status = IF s \in deploy.known THEN "active" ELSE "none"
        /\ stripe[s].home = NoId /\ ~stripe[s].trial /\ ~stripe[s].pending
  <2>1. stripe = [s \in Subs |-> [status |-> IF s \in deploy.known THEN "active" ELSE "none",
                                  home |-> NoId, trial |-> FALSE, pending |-> FALSE]]
    BY DEF Init
  <2> QED BY <2>1
<1>6. \A i \in RowIds :
        rows[i] = IF i[1] = "webhook" /\ i[2] \in deploy.known
                    THEN [NoRow EXCEPT !.status = "active", !.sub = i[2]] ELSE NoRow
  BY DEF Init
<1>7. Alone
  BY <1>4 DEF Alone
<1>8. InOrder
  BY <1>3, <1>4, <1>5 DEF InOrder
<1>9. \A r \in Requests : StillSo(r)
  BY <1>4, Resting
<1>10. \A s \in Subs : RowOf(s) = <<"webhook", s>> /\ (Born(s) <=> s \in deploy.known)
  BY <1>5, Live DEF RowOf, Born
<1>11. ASSUME NEW i \in RowIds PROVE RowLink(i)
  <2>1. CASE i[1] = "webhook" /\ i[2] \in deploy.known
    <3>1. rows[i].sub = i[2]
      BY <1>6, <2>1 DEF NoRow
    <3>2. i = <<"webhook", i[2]>> /\ i[2] \in Subs
      BY <1>2, <2>1 DEF RowIds, Subs
    <3> QED BY <1>10, <2>1, <3>1, <3>2 DEF RowLink
  <2>2. CASE ~(i[1] = "webhook" /\ i[2] \in deploy.known)
    BY <1>6, <2>2 DEF RowLink, Exists
  <2> QED BY <2>1, <2>2
<1>12. ASSUME NEW s \in Subs PROVE SubLink(s)
  <2> DEFINE i == <<"webhook", s>>
  <2>1. i \in RowIds /\ i[1] = "webhook" /\ i[2] = s
    BY Ids
  <2>2. CASE s \in deploy.known
    <3>1. rows[i].status = "active" /\ rows[i].sub = s /\ ~rows[i].pending
      <4>1. rows[i] = [NoRow EXCEPT !.status = "active", !.sub = s]
        BY <1>6, <2>1, <2>2
      <4> QED BY <4>1 DEF NoRow
    <3>2. rows[i] \notin {NoRow, Deleted} /\ i # NoId
      BY <2>1, <3>1, NotRows, Ids
    <3>3. LinkedTo(s)
      BY <1>10, <3>1, <3>2 DEF LinkedTo, Exists
    <3>4. Shows(RowOf(s), s)
      <4>1. rows[i].pending = stripe[s].pending
        BY <1>1, <1>5, <2>1, <3>1, Fields
      <4> QED BY <1>5, <1>10, <2>2, <3>1, <4>1 DEF Shows
    <3>5. s \notin Requests
      BY <1>2, <2>2, Ids
    <3> QED BY <1>10, <2>2, <3>3, <3>4, <3>5 DEF SubLink
  <2>3. CASE s \notin deploy.known
    <3>1. rows[i] = NoRow
      BY <1>6, <2>1, <2>3
    <3>2. ~LinkedTo(s) /\ ~Due(s) /\ stripe[s].status = "none"
      BY <1>5, <1>10, <2>3, <3>1 DEF LinkedTo, Exists, Due
    <3> QED BY <3>1, <3>2 DEF SubLink
  <2> QED BY <2>2, <2>3
<1>13. OneDue
  BY <1>10 DEF OneDue
<1>14. HookLink
  BY <1>3, NotHooks DEF HookLink
<1> QED BY <1>7, <1>8, <1>9, <1>11, <1>12, <1>13, <1>14 DEF Links, Tied

LEMMA DeployStays ==
  ASSUME [Next]_vars PROVE deploy' = deploy
<1>1. ASSUME NEW r \in Requests, Start(r) \/ Step(r) \/ Pay(r) PROVE deploy' = deploy
  BY <1>1 DEF Start, Step, Review, List, Match, Adopt, Reserve, Judge, Open, Look, Fetch,
     Activate, Find, Check, Remove, Resync, Sync, Restore, Revive, Renew, ClearRow, Quietly,
     RowsAlone, Pay, ByStripe
<1>2. ASSUME NEW s \in Subs, Dashboard(s) \/ Change(s) \/ CancelLater(s)
      PROVE  deploy' = deploy
  BY <1>2 DEF Dashboard, Change, CancelLater, ByStripe
<1>3. CASE ByHook
  BY <1>3 DEF ByHook, Receive, Crash, Retrieve, FindCreated, CreateRow, FindUpdated, Others,
     FindDeleted, Write
<1>4. CASE UNCHANGED vars
  BY <1>4 DEF vars
<1> QED BY <1>1, <1>2, <1>3, <1>4 DEF Next, Idle

LEMMA InvKept ==
  ASSUME ConstantsOK, SubscriptionsInv, [Next]_vars PROVE SubscriptionsInv'
<1>1. TrialInv' /\ Base /\ Base' /\ harm \subseteq harm' /\ deploy' = deploy
  BY TrialInvKept, BaseKept, HarmGrows, DeployStays DEF SubscriptionsInv, TrialInv
<1>2. deploy.serial => Alone' /\ InOrder'
  BY <1>1, AloneKept, OrderKept DEF SubscriptionsInv
<1>3. ASSUME deploy.serial, harm' = {} PROVE (\A r \in Requests : StillSo(r)') /\ Links'
  <2>1. /\ harm = {} /\ Trials /\ Alone /\ InOrder /\ Links
        /\ \A r \in Requests : StillSo(r)
    BY <1>1, <1>3 DEF SubscriptionsInv, TrialInv
  <2>2. \A r \in Requests : StillSo(r)'
    BY <1>1, <1>2, <1>3, <2>1, StillKept
  <2>3. Links'
    BY <1>1, <1>3, <2>1, LinksKept
  <2> QED BY <2>2, <2>3
<1> QED BY <1>1, <1>2, <1>3 DEF SubscriptionsInv

LEMMA Mirrored ==
  ASSUME ConstantsOK, Base, Links PROVE RowsMirror
<1> SUFFICES ASSUME Settled PROVE
      /\ \A i \in All :
           rows[i].sub # None =>
             /\ rows[i].status = stripe[rows[i].sub].status
             /\ rows[i].pending = stripe[rows[i].sub].pending
             /\ stripe[rows[i].sub].trial => rows[i].trial
      /\ \A s \in Subs : Born(s) /\ ~Over(s) => Linked(s) # {}
  BY DEF RowsMirror
<1>1. hook.event.kind = "none" /\ Len(events) = 0
  BY NotHooks DEF Settled, Quiet, Base, Handling
<1>2. \A k, s : k # "none" => ~Coming(k, s)
  BY <1>1 DEF Coming
<1>3. TypeOK /\ Tied
  BY DEF Base, Links
<1>4. ASSUME NEW i \in All, rows[i].sub # None
      PROVE  /\ rows[i].status = stripe[rows[i].sub].status
             /\ rows[i].pending = stripe[rows[i].sub].pending
             /\ stripe[rows[i].sub].trial => rows[i].trial
  <2>1. i \in RowIds /\ Exists(i) /\ rows[i].sub \in Subs
    BY <1>3, <1>4, Fields DEF All
  <2>2. RowOf(rows[i].sub) = i
    BY <1>3, <1>4, <2>1 DEF Tied, RowLink
  <2>3. LinkedTo(rows[i].sub)
    BY <2>1, <2>2 DEF LinkedTo
  <2>4. Shows(i, rows[i].sub)
    BY <1>2, <1>3, <2>1, <2>2, <2>3 DEF Tied, SubLink, Late
  <2> QED BY <2>4 DEF Shows
<1>5. ASSUME NEW s \in Subs, Born(s), ~Over(s) PROVE Linked(s) # {}
  <2>1. LinkedTo(s)
    BY <1>2, <1>3, <1>5 DEF Tied, SubLink, Linking, Due
  <2> QED BY <1>3, <2>1, LinkedIs
<1> QED BY <1>4, <1>5

\* The rows can be relied on: while no row that is needed has been deleted, shared or
\* taken, in serial order every row shows what Stripe has when all events are handled, and
\* no second checkout is opened beside a live subscription; and in any order, while no row
\* that is needed is deleted, who had a trial is offered no other.
THEOREM SubscriptionsSoundAlways ==
  ASSUME ConstantsOK PROVE Spec => []SubscriptionsSound
<1>1. Init => SubscriptionsInv
  BY InitBase, InitTrials, InitRest DEF SubscriptionsInv, TrialInv
<1>2. SubscriptionsInv /\ [Next]_vars => SubscriptionsInv'
  BY InvKept
<1>3. SubscriptionsInv => SubscriptionsSound
  <2> SUFFICES ASSUME SubscriptionsInv PROVE SubscriptionsSound
    OBVIOUS
  <2>1. harm = {} => RowsMirror
    <3>1. CASE deploy.serial
      BY <3>1, Mirrored DEF SubscriptionsInv, TrialInv
    <3>2. CASE ~deploy.serial
      BY <3>2 DEF RowsMirror
    <3> QED BY <3>1, <3>2
  <2>2. harm = {} => OneAtATime
    BY DEF SubscriptionsInv, OneAtATime, StillSo, At
  <2>3. "deleted" \notin harm => OneTrial
    BY DEF SubscriptionsInv, TrialInv, Trials, CallTrial, OneTrial, InFlight, At, Places
  <2> QED BY <2>1, <2>2, <2>3 DEF SubscriptionsSound
<1> QED BY <1>1, <1>2, <1>3, PTL DEF Spec
=============================================================================
