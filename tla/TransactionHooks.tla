--------------------------- MODULE TransactionHooks ---------------------------
(***************************************************************************)
(* Transactions and the after-hooks of their writes                        *)
(* (src/packages/core/src/context/transaction.ts and                       *)
(* src/packages/shinauth/src/db/with-hooks.ts). A request writes outside   *)
(* of a transaction, in one, and in one that joins it, and its after-hooks *)
(* wait in the queue of the context that the write was made in.            *)
(*                                                                         *)
(* Several requests may delete or consume one row; every other write is of *)
(* a row of its own. Until a transaction ends, the row that it deleted is  *)
(* locked, and others still see it.                                        *)
(***************************************************************************)
EXTENDS Integers, Sequences, FiniteSets

CONSTANTS
  Requests,
  Deployments   \* the configurations and requests to consider

Operations == {"write", "delete", "consume"}   \* write: create or update

Deployment ==
  [ops       : [Requests -> SUBSET Operations],
   handler   : [Requests -> BOOLEAN],  \* runWithAdapter is around the request
   atomic    : BOOLEAN,                \* the adapter has transactions
   maxWrites : Nat,                    \* of one request
   maxBegins : Nat,                    \* likewise, transactions that nest or follow
   maxFaults : Nat]                    \* hooks that throw, and deaths

ConstantsOK == Deployments \subseteq Deployment

VARIABLES
  deploy,   \* the configuration, chosen at the start
  row,      \* whether the row is there, as committed
  holder,   \* the request whose open transaction deleted it, if any
  call,     \* the state of each request
  faults    \* how many there were

vars == <<deploy, row, holder, call, faults>>

\* A write with its after-hook. hit: it found what it changes.
Write == [op   : Operations,
          ctx  : 0..2,   \* the context: the handler's, or the transaction's
          hit  : BOOLEAN,
          fate : {"open", "kept", "undone"},
          hook : {"queued", "ran", "threw", "dropped"}]
Steps == {"work", "delete", "now", "drain", "close"}
Ended == {"ok", "failed", "dead"}
Call == [at     : {"idle"} \cup Steps \cup Ended,
         depth  : 0..2,       \* of runWithTransaction
         begins : Nat,
         log    : Seq(Write),
         error  : BOOLEAN]    \* what the queue is emptied for has thrown
NoCall == [at |-> "idle", depth |-> 0, begins |-> 0, log |-> <<>>, error |-> FALSE]

At(r, pc) == call[r].at = pc
Log(r) == call[r].log
InFlight(r) == call[r].at \in Steps
Become(r, c) == call' = [call EXCEPT ![r] = c]
Goto(r, pc) == Become(r, [call[r] EXCEPT !.at = pc])

Init ==
  /\ deploy \in Deployments
  /\ row = TRUE
  /\ holder = {}
  /\ call = [r \in Requests |-> NoCall]
  /\ faults = 0

Start(r) ==
  /\ At(r, "idle")
  /\ deploy.ops[r] # {}
  /\ Goto(r, "work")
  /\ UNCHANGED <<deploy, row, holder, faults>>

-----------------------------------------------------------------------------
\* Writes

\* Faulty: runWithTransaction always makes a context of its own.
ContextOwn(depth) == depth
\* runWithTransaction joins the context that is there.
Context(depth) == IF depth = 0 THEN 0 ELSE 1

\* Without a context the hook runs now.
Written(r, op, hit) ==
  LET c == call[r]
      open == c.depth > 0 /\ deploy.atomic
  IN Become(r, [c EXCEPT
       !.at  = IF c.depth = 0 /\ ~deploy.handler[r] THEN "now" ELSE "work",
       !.log = Append(@, [op |-> op, ctx |-> Context(c.depth), hit |-> hit,
                          fate |-> IF open THEN "open" ELSE "kept", hook |-> "queued"])])

MayWrite(r, op) ==
  At(r, "work") /\ op \in deploy.ops[r] /\ Len(Log(r)) < deploy.maxWrites

\* createWithHooks, updateWithHooks
Create(r) ==
  /\ MayWrite(r, "write")
  /\ Written(r, "write", TRUE)
  /\ UNCHANGED <<deploy, row, holder, faults>>

Visible(r) == row /\ r \notin holder
Unlocked(r) == holder \subseteq {r}

\* The row goes, in the request's transaction or at once.
Remove(r) ==
  IF call[r].depth > 0 /\ deploy.atomic
    THEN holder' = holder \cup {r} /\ UNCHANGED row
    ELSE row' = FALSE /\ UNCHANGED holder

\* deleteWithHooks finds the row first.
FindEntity(r) ==
  /\ MayWrite(r, "delete")
  /\ Visible(r)
  /\ Goto(r, "delete")
  /\ UNCHANGED <<deploy, row, holder, faults>>

Delete(r) ==
  /\ At(r, "delete") /\ Unlocked(r)
  /\ IF Visible(r) THEN Remove(r) ELSE UNCHANGED <<row, holder>>
  /\ Written(r, "delete", Visible(r))
  /\ UNCHANGED <<deploy, faults>>

\* Faulty: the row is found, and then deleted by whoever found it.
ConsumeFound(r) ==
  /\ MayWrite(r, "consume") /\ Visible(r)
  /\ Remove(r)
  /\ Written(r, "consume", TRUE)
  /\ UNCHANGED <<deploy, faults>>

\* consumeOneWithHooks: nothing, and no hook, for a row that is gone.
Consume(r) ==
  /\ MayWrite(r, "consume") /\ Unlocked(r) /\ Visible(r)
  /\ Remove(r)
  /\ Written(r, "consume", TRUE)
  /\ UNCHANGED <<deploy, faults>>

-----------------------------------------------------------------------------
\* runWithTransaction

Begin(r) ==
  /\ At(r, "work") /\ call[r].depth < 2 /\ call[r].begins < deploy.maxBegins
  /\ Become(r, [call[r] EXCEPT !.depth = @ + 1, !.begins = @ + 1])
  /\ UNCHANGED <<deploy, row, holder, faults>>

\* A function that joined a transaction returns, or throws and is caught in it.
\* Only a context of its own would have hooks to run.
Leave(r) ==
  /\ At(r, "work") /\ call[r].depth = 2
  /\ IF Context(2) = Context(1)
       THEN Become(r, [call[r] EXCEPT !.depth = 1])
       ELSE Goto(r, "drain")
  /\ UNCHANGED <<deploy, row, holder, faults>>

Settled(log, fate) ==
  [i \in DOMAIN log |-> IF log[i].fate = "open" THEN [log[i] EXCEPT !.fate = fate] ELSE log[i]]

Commit(r) ==
  /\ At(r, "work") /\ call[r].depth = 1
  /\ row' = (row /\ r \notin holder)
  /\ holder' = holder \ {r}
  /\ Become(r, [call[r] EXCEPT !.at = "drain", !.log = Settled(@, "kept"), !.error = FALSE])
  /\ UNCHANGED <<deploy, faults>>

Throw(r) ==
  /\ At(r, "work") /\ call[r].depth > 0
  /\ holder' = holder \ {r}
  /\ Become(r, [call[r] EXCEPT !.at = "drain", !.depth = 1, !.log = Settled(@, "undone"),
                               !.error = TRUE])
  /\ UNCHANGED <<deploy, row, faults>>

\* The handler returns or throws.
Close(r) ==
  /\ At(r, "work") /\ call[r].depth = 0
  /\ \E error \in BOOLEAN : Become(r, [call[r] EXCEPT !.at = "close", !.error = error])
  /\ UNCHANGED <<deploy, row, holder, faults>>

-----------------------------------------------------------------------------
\* pendingHooks

Ctx(r) == IF At(r, "drain") THEN Context(call[r].depth) ELSE 0
Queued(r) == {i \in DOMAIN Log(r) : Log(r)[i].ctx = Ctx(r) /\ Log(r)[i].hook = "queued"}
First(r) == CHOOSE i \in Queued(r) : \A j \in Queued(r) : i <= j
InHooks(r) == call[r].at \in {"now", "drain", "close"}

Hook(r) ==
  /\ InHooks(r) /\ Queued(r) # {}
  /\ Become(r, [call[r] EXCEPT !.log[First(r)].hook = "ran"])
  /\ UNCHANGED <<deploy, row, holder, faults>>

\* Nobody catches it in the queue: the hooks behind it are dropped.
HookThrows(r) ==
  /\ InHooks(r) /\ Queued(r) # {}
  /\ faults < deploy.maxFaults
  /\ faults' = faults + 1
  /\ Become(r, [call[r] EXCEPT
       !.log = [i \in DOMAIN @ |->
                  IF i \notin Queued(r) THEN @[i]
                  ELSE [@[i] EXCEPT !.hook = IF i = First(r) THEN "threw" ELSE "dropped"]],
       !.error = TRUE])
  /\ UNCHANGED <<deploy, row, holder>>

\* The queue is empty. The handler may catch what its transaction has thrown.
Drained(r) ==
  /\ InHooks(r) /\ Queued(r) = {}
  /\ IF At(r, "close")
       THEN Goto(r, IF call[r].error THEN "failed" ELSE "ok")
       ELSE \E next \in {"work"} \cup (IF call[r].error THEN {"close"} ELSE {}) :
              Become(r, [call[r] EXCEPT
                !.at = next, !.depth = IF @ = 0 THEN 0 ELSE @ - 1])
  /\ UNCHANGED <<deploy, row, holder, faults>>

\* The process dies, and with it the queues.
Die(r) ==
  /\ InFlight(r)
  /\ faults < deploy.maxFaults
  /\ faults' = faults + 1
  /\ holder' = holder \ {r}
  /\ Become(r, [call[r] EXCEPT !.at = "dead", !.log = Settled(@, "undone")])
  /\ UNCHANGED <<deploy, row>>

Step(r) ==
  \/ Create(r) \/ FindEntity(r) \/ Delete(r) \/ Consume(r)
  \/ Begin(r) \/ Leave(r) \/ Commit(r) \/ Throw(r) \/ Close(r)
  \/ Hook(r) \/ Drained(r)

\* Nothing is left to do; a request that waits for the row's lock is not this.
Idle == (\A r \in Requests : ~InFlight(r)) /\ UNCHANGED vars

Next ==
  \/ \E r \in Requests : Start(r)
  \/ \E r \in Requests : Step(r)
  \/ \E r \in Requests : HookThrows(r)
  \/ \E r \in Requests : Die(r)
  \/ Idle

Spec == Init /\ [][Next]_vars

-----------------------------------------------------------------------------
(* Properties *)

\* The state has its type.
TypeOK ==
  /\ deploy \in Deployments
  /\ row \in BOOLEAN
  /\ holder \subseteq Requests /\ Cardinality(holder) <= 1
  /\ call \in [Requests -> Call]
  /\ faults \in Nat

Writes == {x \in Requests \X (1..deploy.maxWrites) : x[2] \in DOMAIN Log(x[1])}
W(x) == Log(x[1])[x[2]]

\* An after-hook never runs while its write may still be rolled back, also where
\* transactions join one that is open. (When the transaction was rolled back it runs all
\* the same, after that.)
HookAfterEnd == \A x \in Writes : W(x).hook \in {"ran", "threw"} => W(x).fate # "open"

\* Whether a request returns, throws, or catches what it has thrown, no hook is left
\* waiting when it has ended: each ran, unless one before it in its queue threw.
EveryHookRuns ==
  \A x \in Writes : call[x[1]].at \in {"ok", "failed"} =>
    \/ W(x).hook \in {"ran", "threw"}
    \/ \E j \in 1..(x[2] - 1) : /\ W(<<x[1], j>>).hook = "threw"
                                 /\ W(<<x[1], j>>).ctx = W(x).ctx

\* However consumptions and deletions race, commit and roll back, the row goes
\* once: one consumption that is kept has it, and its hook.
RowTakenOnce ==
  /\ Cardinality({x \in Writes : /\ W(x).op # "write" /\ W(x).hit
                                 /\ W(x).fate = "kept"}) <= 1
  /\ row => ~\E x \in Writes : W(x).op # "write" /\ W(x).hit /\ W(x).fate = "kept"

\* Every hook runs, and when its transaction has ended; of the transactions that take
\* one row one keeps it.
TransactionsSound == HookAfterEnd /\ EveryHookRuns /\ RowTakenOnce
=============================================================================
