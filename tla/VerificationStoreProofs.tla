----------------------- MODULE VerificationStoreProofs -----------------------
(***************************************************************************)
(* Proofs about VerificationStore, for any number of requests and          *)
(* processes, whatever crashes, fails or expires: its type invariant; that *)
(* a value in the database is single use; that it is in a secondary        *)
(* storage that consumes atomically as well; that no consume and no find   *)
(* returns what an earlier consume or delete ended; and that a value       *)
(* implements SingleUse.                                                   *)
(***************************************************************************)
EXTENDS VerificationStore, TLAPS

\* What a configuration is made of.
LEMMA DeployTyped ==
  ASSUME deploy \in Deployments
  PROVE  /\ Home \in [Requests -> Processes]
         /\ Ops \in [Requests -> SUBSET AllOps]
         /\ HasGetAndDelete \in BOOLEAN /\ Hashed \in BOOLEAN
         /\ TTL \in Nat \ {0} /\ MaxTime \in Nat
  BY ConstantsAssumption DEF Deployment, Home, Ops, HasGetAndDelete, Hashed

\* No step changes the configuration.
LEMMA DeployFixed == [Next]_vars => deploy' = deploy
  BY DEF Next, Start, Step, Consume, Enter, Select, Claim, Purge, Take, Get, Del, Uncache, Gate,
         Insert, Fill, Lookup, Find, Cleanup, Evict, Probe, Erase, Fetch, Refill, Amend,
         Fail, Crash, Tick, Idle, vars

\* The state keeps its type, in every storage configuration.
LEMMA InitTypeOK == Init => TypeOK
<1> SUFFICES ASSUME Init PROVE TypeOK OBVIOUS
<1> USE ConstantsAssumption
<1>1. table \subseteq Row
  BY DEF Init, Row, Keys
<1>2. cache \in [Keys -> Entry]
  BY DEF Init, Entry, None, Keys
<1>3. lockq \in [Processes -> [Keys -> Seq(Requests)]]
  BY DEF Init
<1>4. call \in [Requests -> Call]
  BY DEF Init, Call, NoCall, Entry, None, Keys, Waiting, Working, Ended
<1>5. deploy \in Deployments /\ issued \in Nat /\ spent \in Nat /\ now \in Nat
  BY DEF Init
<1> QED BY <1>1, <1>2, <1>3, <1>4, <1>5 DEF TypeOK

LEMMA HelpersTyped ==
  ASSUME TypeOK
  PROVE  /\ None \in Entry
         /\ Stored \in Keys /\ Candidates \subseteq Keys /\ LastTry \in {1, 2}
         /\ \A r \in Requests : Key(r) \in Keys
         /\ \A x \in table : AsEntry(x) \in Entry
         /\ \A k \in Keys : Latest(k) \subseteq table
         /\ \A r \in Requests : Expiry(r) \in Nat
  BY DeployTyped
  DEF TypeOK, None, Entry, Stored, Candidates, Keys, LastTry, Key, AsEntry, Row,
      Latest, Expiry, Call

LEMMA QueueTyped ==
  ASSUME TypeOK, NEW r \in Requests
  PROVE  /\ HasLock(r) /\ Release(r) => lockq' \in [Processes -> [Keys -> Seq(Requests)]]
         /\ lockq' = [lockq EXCEPT ![Home[r]][Key(r)] = Append(@, r)]
              => lockq' \in [Processes -> [Keys -> Seq(Requests)]]
<1> USE DeployTyped, HelpersTyped DEF TypeOK
<1> DEFINE q == lockq[Home[r]][Key(r)]
<1>1. q \in Seq(Requests)
  OBVIOUS
<1>2. Append(q, r) \in Seq(Requests)
  BY <1>1
<1>3. q # <<>> => Tail(q) \in Seq(Requests)
  BY <1>1
<1>4. HasLock(r) => q # <<>>
  BY DEF HasLock
<1>5. lockq' = [lockq EXCEPT ![Home[r]][Key(r)] = Append(@, r)]
        => lockq' \in [Processes -> [Keys -> Seq(Requests)]]
  BY <1>2
<1>6. HasLock(r) /\ Release(r) => lockq' \in [Processes -> [Keys -> Seq(Requests)]]
  BY <1>3, <1>4, SMTT(30) DEF Release
<1> QED BY <1>5, <1>6

\* An update changes some rows where they are, and adds and removes none.
LEMMA AmendsRows ==
  ASSUME NEW r \in Requests, Amend(r)
  PROVE  \E rows \in SUBSET table :
           table' = {IF x \in rows THEN [x EXCEPT !.exp = Expiry(r)] ELSE x : x \in table}
<1>1. PICK rows \in Reached : table' = (table \ rows) \cup {[x EXCEPT !.exp = Expiry(r)] : x \in rows}
  BY DEF Amend
<1>2. rows \subseteq table
  BY DEF Reached
<1> QED BY <1>1, <1>2

LEMMA StepTypeOK == TypeOK /\ [Next]_vars => TypeOK'
<1> SUFFICES ASSUME TypeOK, [Next]_vars PROVE TypeOK' OBVIOUS
<1> DEFINE Pcs == {"idle"} \cup Waiting \cup Working \cup Ended
           Queues == [Processes -> [Keys -> Seq(Requests)]]
<1>0. /\ deploy \in Deployments /\ table \subseteq Row /\ cache \in [Keys -> Entry] /\ lockq \in Queues
      /\ call \in [Requests -> Call] /\ issued \in Nat /\ spent \in Nat /\ now \in Nat
  BY DEF TypeOK
<1>c. \A r \in Requests : call[r] \in Call
  BY <1>0
<1>a. /\ Home \in [Requests -> Processes] /\ Ops \in [Requests -> SUBSET AllOps]
      /\ TTL \in Nat \ {0}
  BY <1>0, DeployTyped
<1>k. /\ None \in Entry
      /\ Stored \in Keys /\ Candidates \subseteq Keys /\ LastTry \in {1, 2}
      /\ \A r \in Requests : Key(r) \in Keys
      /\ \A x \in table : AsEntry(x) \in Entry
      /\ \A k \in Keys : Latest(k) \subseteq table
      /\ \A r \in Requests : Expiry(r) \in Nat
  BY HelpersTyped
<1>n. issued \in Nat /\ spent \in Nat /\ now \in Nat
  BY <1>0
<1>d. \A r \in Requests, pc \in Pcs, x \in Entry, T \in SUBSET Keys :
        [call[r] EXCEPT !.at = pc, !.row = x, !.todo = T, !.dead = issued] \in Call
  BY <1>c, <1>n DEF Call
<1>e. \A r \in Requests, pc \in Pcs, T \in SUBSET Keys :
        [call[r] EXCEPT !.at = pc, !.todo = T, !.dead = issued] \in Call
  <2> TAKE r \in Requests, pc \in Pcs, T \in SUBSET Keys
  <2> HIDE DEF Pcs
  <2>1. call[r] \in Call BY <1>c
  <2> QED BY <2>1, <1>n DEF Call, Pcs
<1>l. \A r \in Requests, pc \in Pcs, T \in SUBSET Keys :
        [call[r] EXCEPT !.todo = T, !.at = pc] \in Call
  <2> TAKE r \in Requests, pc \in Pcs, T \in SUBSET Keys
  <2>1. call[r] \in Call BY <1>c
  <2> QED BY <2>1 DEF Call
<1>m. \A r \in Requests, pc \in Pcs : [call[r] EXCEPT !.at = pc, !.try = 1] \in Call
  BY <1>c, ZenonT(40) DEF Call
<1>o. \A r \in Requests, pc \in Pcs : [call[r] EXCEPT !.at = pc] \in Call
  BY <1>c DEF Call
<1>f. \A r \in Requests, pc \in Pcs : Goto(r, pc) => call' \in [Requests -> Call]
  BY <1>0, <1>o DEF Become, Goto
<1>g. \A r \in Requests, pc \in Pcs, x \in Entry :
        Keep(r, pc, x) => call' \in [Requests -> Call]
  <2> TAKE r \in Requests, pc \in Pcs, x \in Entry
  <2>1. [call[r] EXCEPT !.at = pc, !.row = x] \in Call
    BY <1>c, ZenonT(40) DEF Call
  <2> QED BY <1>0, <2>1 DEF Become, Keep
<1>h. \A r \in Requests, a \in Pcs, b \in Pcs :
        NextTry(r, a, b) => call' \in [Requests -> Call]
  <2> TAKE r \in Requests, a \in Pcs, b \in Pcs
  <2>1. [call[r] EXCEPT !.at  = IF call[r].try < LastTry THEN a ELSE b,
                        !.try = IF call[r].try < LastTry THEN 2 ELSE @,
                        !.row = None] \in Call
    BY <1>0, <1>c, <1>k, ZenonT(40) DEF Call
  <2> QED BY <1>0, <2>1 DEF Become, NextTry
<1>1. ASSUME NEW r \in Requests, NEW op \in Ops[r], Start(r, op) PROVE TypeOK'
  <2>1. FirstStep(op) \in Pcs
    BY <1>1, <1>a DEF AllOps, FirstStep, Waiting, Working
  <2>2. [NoCall EXCEPT !.op = op, !.at = FirstStep(op),
                       !.began = now, !.floor = spent] \in Call
    BY <1>0, <1>k, <1>a, <2>1 DEF Call, NoCall
  <2> QED BY <1>0, <1>k, <1>a, <1>1, <2>2 DEF Become, Start, TypeOK
<1>2. ASSUME NEW r \in Requests, Enter(r) PROVE TypeOK'
  BY <1>0, <1>k, <1>a, <1>2, <1>f, QueueTyped DEF Enter, TypeOK, Waiting
<1>3. ASSUME NEW r \in Requests, Select(r) PROVE TypeOK'
  BY <1>0, <1>k, <1>a, <1>3, <1>g, <1>h, QueueTyped DEF Select, TypeOK, Waiting, Working
<1>4. ASSUME NEW r \in Requests, Claim(r) PROVE TypeOK'
  BY <1>0, <1>k, <1>a, <1>4, <1>g, <1>h, QueueTyped DEF Claim, TypeOK, Waiting, Working
<1>5. ASSUME NEW r \in Requests, Purge(r) PROVE TypeOK'
  <2>1. [call[r] EXCEPT !.at   = IF UsesCache THEN "uncache" ELSE "gate",
                        !.todo = IF UsesCache THEN Candidates ELSE {},
                        !.dead = issued] \in Call
    <3>1. \A b \in BOOLEAN : (IF b THEN "uncache" ELSE "gate") \in Pcs
                         /\ (IF b THEN "gate" ELSE "uncache") \in Pcs
      BY DEF Working
    <3> QED BY <1>0, <1>k, <1>d, <1>e, <3>1
  <2> QED BY <1>0, <1>k, <1>a, <1>5, <2>1, QueueTyped DEF Become, Purge, TypeOK
<1>6. ASSUME NEW r \in Requests, Take(r) PROVE TypeOK'
  <2>1. [call[r] EXCEPT !.at   = IF Candidates = {Key(r)} THEN "gate" ELSE "uncache",
                        !.row  = cache[Key(r)],
                        !.todo = Candidates \ {Key(r)},
                        !.dead = issued] \in Call
    <3>1. \A b \in BOOLEAN : (IF b THEN "uncache" ELSE "gate") \in Pcs
                         /\ (IF b THEN "gate" ELSE "uncache") \in Pcs
      BY DEF Working
    <3> QED BY <1>0, <1>k, <1>d, <1>e, <3>1
  <2> QED BY <1>0, <1>k, <1>a, <1>6, <2>1, <1>h DEF Become, Take, TypeOK, Working
<1>7. ASSUME NEW r \in Requests, Get(r) PROVE TypeOK'
  BY <1>0, <1>k, <1>a, <1>7, <1>g, <1>h, QueueTyped DEF Get, TypeOK, Waiting, Working
<1>8. ASSUME NEW r \in Requests, Del(r) PROVE TypeOK'
  <2>1. [call[r] EXCEPT !.at   = IF Candidates = {Key(r)} THEN "gate" ELSE "uncache",
                        !.todo = Candidates \ {Key(r)},
                        !.dead = issued] \in Call
    <3>1. \A b \in BOOLEAN : (IF b THEN "uncache" ELSE "gate") \in Pcs
                         /\ (IF b THEN "gate" ELSE "uncache") \in Pcs
      BY DEF Working
    <3> QED BY <1>0, <1>k, <1>d, <1>e, <3>1
  <2> QED BY <1>0, <1>k, <1>a, <1>8, <2>1, QueueTyped DEF Become, Del, TypeOK
<1>9. ASSUME NEW r \in Requests, Uncache(r) PROVE TypeOK'
  <2>1. PICK k \in call[r].todo :
          /\ cache' = [cache EXCEPT ![k] = None]
          /\ Become(r, [call[r] EXCEPT !.todo = @ \ {k},
                          !.at = IF call[r].todo = {k} THEN "gate" ELSE @])
    BY <1>9 DEF Uncache
  <2>2. [call[r] EXCEPT !.todo = @ \ {k},
                        !.at = IF call[r].todo = {k} THEN "gate" ELSE @] \in Call
    <3>1. "gate" \in Pcs /\ call[r].at \in Pcs /\ call[r].todo \in SUBSET Keys
      BY <1>c DEF Call, Working
    <3>2. (IF call[r].todo = {k} THEN "gate" ELSE call[r].at) \in Pcs
          /\ call[r].todo \ {k} \in SUBSET Keys
      BY <3>1
    <3> QED BY <3>2, <1>l
  <2> QED BY <1>0, <1>k, <1>a, <1>9, <2>1, <2>2 DEF Become, Uncache, TypeOK, Call
<1>10. ASSUME NEW r \in Requests, Gate(r) PROVE TypeOK'
  <2>1. call[r].row \in Entry /\ call[r].dead \in Nat
    BY <1>0, <1>c, <1>k DEF Call
  <2> QED BY <1>0, <1>k, <1>a, <1>10, <2>1, <1>g DEF Gate, TypeOK, Ended
<1>11. ASSUME NEW r \in Requests, Insert(r) PROVE TypeOK'
  <2>1. [gen |-> issued + 1, exp |-> Expiry(r)] \in Entry
    BY <1>0, <1>k DEF Entry
  <2>2. [gen |-> issued + 1, key |-> Stored, made |-> call[r].began,
         exp |-> Expiry(r)] \in Row
    BY <1>0, <1>k DEF Row, Call
  <2> QED BY <1>0, <1>k, <1>a, <1>11, <2>1, <2>2, <1>g DEF Insert, TypeOK, Working, Ended
<1>12. ASSUME NEW r \in Requests, Fill(r) PROVE TypeOK'
  <2>1. /\ [gen |-> issued + 1, exp |-> Expiry(r)] \in Entry
        /\ call[r].row \in Entry
    BY <1>0, <1>k DEF Entry, Call
  <2> QED BY <1>0, <1>k, <1>a, <1>12, <2>1, <1>g DEF Fill, TypeOK, Ended
<1>13. ASSUME NEW r \in Requests, Lookup(r) PROVE TypeOK'
  <2>1. [call[r] EXCEPT !.at = IF UsesTable THEN "find" ELSE "done", !.try = 1] \in Call
    <3>1. "find" \in Pcs /\ "done" \in Pcs
      BY DEF Working, Ended
    <3> QED BY <3>1, <1>m
  <2> QED BY <1>0, <1>k, <1>a, <1>13, <2>1, <1>g, <1>h DEF Become, Lookup, TypeOK, Working, Ended
<1>14. ASSUME NEW r \in Requests, Find(r) PROVE TypeOK'
  BY <1>0, <1>k, <1>a, <1>14, <1>g, <1>h DEF Find, TypeOK, Working
<1>15. ASSUME NEW r \in Requests, Cleanup(r) \/ Probe(r) \/ Erase(r) PROVE TypeOK'
  <2>1. \A pc \in Pcs : [call[r] EXCEPT !.at = pc, !.dead = issued] \in Call
    BY <1>c, <1>n, ZenonT(40) DEF Call
  <2>2. \A pc \in Pcs : Become(r, [call[r] EXCEPT !.at = pc, !.dead = issued])
                        => call' \in [Requests -> Call]
    BY <1>0, <2>1 DEF Become
  <2>3. "done" \in Pcs /\ "erase" \in Pcs
    BY DEF Working, Ended
  <2> QED BY <1>0, <1>15, <2>2, <2>3, <1>f DEF Cleanup, Probe, Erase, TypeOK
<1>16. ASSUME NEW r \in Requests, Evict(r) PROVE TypeOK'
  BY <1>0, <1>k, <1>a, <1>16, <1>f DEF Evict, TypeOK, Working, Ended
<1>17. ASSUME NEW r \in Requests, Fetch(r) PROVE TypeOK'
  <2>1. [gen |-> cache[Stored].gen, exp |-> Expiry(r)] \in Entry
    BY <1>0, <1>k DEF Entry
  <2> QED BY <1>0, <1>k, <1>a, <1>17, <2>1, <1>f, <1>g DEF Fetch, TypeOK, Working, Ended
<1>18. ASSUME NEW r \in Requests, Refill(r) PROVE TypeOK'
  <2>1. call[r].row \in Entry
    BY <1>0, <1>c, <1>k DEF Call
  <2> QED BY <1>0, <1>k, <1>a, <1>18, <2>1, <1>f DEF Refill, TypeOK, Working, Ended
<1>19. ASSUME NEW r \in Requests, Amend(r) PROVE TypeOK'
  <2>1. \A x \in table : [x EXCEPT !.exp = Expiry(r)] \in Row
    BY <1>0, <1>k DEF Row
  <2>2. table' \subseteq Row
    <3>1. PICK rows \in SUBSET table :
            table' = {IF x \in rows THEN [x EXCEPT !.exp = Expiry(r)] ELSE x : x \in table}
      BY <1>19, AmendsRows
    <3>2. table \subseteq Row
      BY <1>0 DEF TypeOK
    <3> QED BY <2>1, <3>1, <3>2
  <2>3. deploy' = deploy /\ UNCHANGED <<cache, lockq, issued, spent, now>> /\ Goto(r, "done")
    BY <1>19 DEF Amend
  <2> QED BY <1>0, <1>k, <1>a, <2>2, <2>3, <1>f DEF TypeOK, Ended
<1>20. ASSUME NEW r \in Requests, Fail(r) PROVE TypeOK'
  BY <1>0, <1>k, <1>a, <1>20, <1>f, QueueTyped DEF Fail, TypeOK, Ended
<1>21. ASSUME NEW p \in Processes, Crash(p) PROVE TypeOK'
  <2>1. \A r \in Requests : [call[r] EXCEPT !.at = "failed"] \in Call
    BY <1>o DEF Ended
  <2>2. call' \in [Requests -> Call]
    BY <1>0, <1>k, <1>a, <1>21, <2>1 DEF Crash
  <2>3. lockq' \in Queues
    <3>1. <<>> \in Seq(Requests) OBVIOUS
    <3> QED BY <1>0, <1>k, <1>a, <1>21, <3>1 DEF Crash
  <2> QED BY <1>0, <1>k, <1>a, <1>21, <2>2, <2>3 DEF Crash, TypeOK
<1>22. CASE Tick \/ Idle \/ UNCHANGED vars
  BY <1>0, <1>k, <1>a, <1>22 DEF Tick, Idle, vars, TypeOK
<1> QED
  BY <1>1, <1>2, <1>3, <1>4, <1>5, <1>6, <1>7, <1>8, <1>9, <1>10, <1>11, <1>12,
     <1>13, <1>14, <1>15, <1>16, <1>17, <1>18, <1>19, <1>20, <1>21, <1>22
  DEF Next, Step, Consume

\* The type invariant holds in every reachable state.
THEOREM TypeCorrect == Spec => []TypeOK
  BY InitTypeOK, StepTypeOK, PTL DEF Spec

-----------------------------------------------------------------------------
(***************************************************************************)
(* Single use, for values kept in the database. The inductive invariant    *)
(* says where a value can be: in one row of the table, or in the hands of  *)
(* one consume, never in both.                                             *)
(***************************************************************************)
ConsumeStages == {"enter", "select", "claim", "purge", "uncache", "gate", "done", "failed"}
Holding1(c) == c.op = "consume" /\ c.at \in {"purge", "uncache", "gate", "done"} /\ c.row # None

RowsOwnGen ==
  /\ \A x \in table : x.gen \in 1..issued
  /\ \A x, y \in table : x.gen = y.gen => x = y
OnlyConsume == {"enter", "select", "claim", "purge", "take", "get", "del", "uncache", "gate"}
StagesOf(c) == IF c.op = "consume" THEN c.at \in ConsumeStages ELSE c.at \notin OnlyConsume
StagesOK == \A r \in Requests : StagesOf(call[r])
HeldLeft ==
  \A r \in Requests : Holding1(call[r]) =>
    /\ call[r].row.gen \in 1..issued
    /\ \A x \in table : x.gen # call[r].row.gen
HeldOnce ==
  \A r, q \in Requests :
    r # q /\ Holding1(call[r]) /\ Holding1(call[q]) => call[r].row.gen # call[q].row.gen
OwnershipInv == RowsOwnGen /\ StagesOK /\ HeldLeft /\ HeldOnce

\* A step of one request that takes nothing new and adds no row.
LEMMA FrameOwnership ==
  ASSUME TypeOK, OwnershipInv, NEW r \in Requests, NEW c, Become(r, c),
         table' \subseteq table, issued' = issued,
         StagesOf(c),
         Holding1(c) => Holding1(call[r]) /\ c.row.gen = call[r].row.gen
  PROVE  OwnershipInv'
<1>1. /\ call' = [call EXCEPT ![r] = c] /\ call \in [Requests -> Call]
  BY DEF Become, TypeOK
<1>2. \A q \in Requests : call'[q] = IF q = r THEN c ELSE call[q]
  BY <1>1
<1>3. RowsOwnGen'
  BY DEF OwnershipInv, RowsOwnGen
<1>4. StagesOK'
  BY <1>2 DEF OwnershipInv, StagesOK
<1>5. HeldLeft'
  BY <1>2 DEF OwnershipInv, HeldLeft
<1>6. HeldOnce'
  BY <1>2 DEF OwnershipInv, HeldOnce
<1> QED BY <1>3, <1>4, <1>5, <1>6 DEF OwnershipInv

LEMMA InitOwnership == Init => OwnershipInv
  BY ConstantsAssumption
  DEF Init, OwnershipInv, RowsOwnGen, StagesOK, StagesOf, OnlyConsume, HeldLeft, HeldOnce, Holding1, NoCall

LEMMA StepOwnership ==
  UsesTable /\ TypeOK /\ OwnershipInv /\ [Next]_vars => OwnershipInv'
<1> SUFFICES ASSUME UsesTable, TypeOK, OwnershipInv, [Next]_vars PROVE OwnershipInv' OBVIOUS
<1>c. /\ call \in [Requests -> Call] /\ issued \in Nat
      /\ \A r \in Requests : call[r] \in Call
  BY DEF TypeOK
<1>s. \A r \in Requests : StagesOf(call[r])
  BY DEF OwnershipInv, StagesOK
<1>t. Ops \in [Requests -> SUBSET AllOps]
  BY DeployTyped DEF TypeOK
<1>1. ASSUME NEW r \in Requests, NEW op \in Ops[r], Start(r, op) PROVE OwnershipInv'
  <2>1. Become(r, [NoCall EXCEPT !.op = op, !.at = FirstStep(op),
                                 !.began = now, !.floor = spent])
    BY <1>1 DEF Start
  <2>2. ~Holding1([NoCall EXCEPT !.op = op, !.at = FirstStep(op),
                                 !.began = now, !.floor = spent])
    BY DEF Holding1, NoCall
  <2>3. StagesOf([NoCall EXCEPT !.op = op, !.at = FirstStep(op),
                                !.began = now, !.floor = spent])
    BY <1>t DEF AllOps, FirstStep, ConsumeStages, OnlyConsume, StagesOf, NoCall
  <2> QED BY <1>1, <2>1, <2>2, <2>3, FrameOwnership DEF Start, NoCall
<1>2. ASSUME NEW r \in Requests, Enter(r) PROVE OwnershipInv'
  BY <1>2, <1>c, <1>s, FrameOwnership DEF Enter, At, Goto, Holding1, StagesOf, ConsumeStages, OnlyConsume, Call
<1>3. ASSUME NEW r \in Requests, Select(r) PROVE OwnershipInv'
  <2>1. CASE Latest(Key(r)) = {} /\ NextTry(r, "enter", "gate")
    BY <1>3, <2>1, <1>c, <1>s, FrameOwnership DEF Select, At, NextTry, Holding1, StagesOf, ConsumeStages, OnlyConsume, Call
  <2>2. ASSUME NEW x \in Latest(Key(r)), Keep(r, "claim", AsEntry(x)) PROVE OwnershipInv'
    BY <1>3, <2>2, <1>c, <1>s, FrameOwnership DEF Select, At, Keep, Holding1, StagesOf, ConsumeStages, OnlyConsume, Call
  <2> QED BY <1>3, <2>1, <2>2 DEF Select
<1>4. ASSUME NEW r \in Requests, Claim(r) PROVE OwnershipInv'
  <2>1. CASE NextTry(r, "enter", "gate") /\ UNCHANGED table
    BY <1>4, <2>1, <1>c, <1>s, FrameOwnership DEF Claim, At, NextTry, Holding1, StagesOf, ConsumeStages, OnlyConsume, Call
  <2>2. ASSUME NEW x \in table, table' = table \ {x}, Keep(r, "purge", AsEntry(x))
        PROVE  OwnershipInv'
    <3>1. /\ call'[r].at = "purge" /\ call'[r].op = call[r].op /\ call'[r].row.gen = x.gen
          /\ \A q \in Requests : q # r => call'[q] = call[q]
      BY <2>2, <1>c DEF Keep, Become, AsEntry, Call
    <3>2. issued' = issued
      BY <1>4 DEF Claim
    <3>3. RowsOwnGen'
      BY <2>2, <3>2 DEF OwnershipInv, RowsOwnGen
    <3>4. StagesOK'
      BY <2>2, <1>4, <3>1, <1>s DEF Claim, At, StagesOK, StagesOf, ConsumeStages, OnlyConsume
    <3>5. HeldLeft'
      BY <2>2, <3>1, <3>2 DEF OwnershipInv, HeldLeft, RowsOwnGen
    <3>6. HeldOnce'
      BY <2>2, <3>1 DEF OwnershipInv, HeldLeft, HeldOnce
    <3> QED BY <3>3, <3>4, <3>5, <3>6 DEF OwnershipInv
  <2> QED BY <1>4, <2>1, <2>2 DEF Claim
<1>5. ASSUME NEW r \in Requests, Purge(r) PROVE OwnershipInv'
  BY <1>5, <1>c, <1>s, FrameOwnership DEF Purge, At, Holding1, StagesOf, ConsumeStages, OnlyConsume, Call
<1>6. ASSUME NEW r \in Requests, Uncache(r) PROVE OwnershipInv'
  <2>1. PICK k \in call[r].todo :
          Become(r, [call[r] EXCEPT !.todo = @ \ {k},
                                    !.at = IF call[r].todo = {k} THEN "gate" ELSE @])
    BY <1>6 DEF Uncache
  <2> QED BY <1>6, <2>1, <1>c, <1>s, FrameOwnership DEF Uncache, At, Holding1, StagesOf, ConsumeStages, OnlyConsume, Call
<1>7. ASSUME NEW r \in Requests, Gate(r) PROVE OwnershipInv'
  BY <1>7, <1>c, <1>s, FrameOwnership DEF Gate, Keep, At, Holding1, StagesOf, ConsumeStages, OnlyConsume, Call
<1>8. ASSUME NEW r \in Requests, Insert(r) PROVE OwnershipInv'
  <2> DEFINE x == [gen |-> issued + 1, key |-> Stored, made |-> call[r].began,
                   exp |-> Expiry(r)]
  <2>1. call[r].op # "consume"
    BY <1>8, <1>s DEF Insert, At, StagesOf, ConsumeStages, OnlyConsume
  <2>2. /\ table' = table \cup {x} /\ issued' = issued + 1 /\ x.gen = issued + 1
        /\ ~Holding1(call'[r]) /\ StagesOf(call'[r])
        /\ \A q \in Requests : q # r => call'[q] = call[q]
    BY <1>8, <2>1, <1>c DEF Insert, Keep, Become, Holding1, StagesOf, OnlyConsume, Call
  <2> HIDE DEF x
  <2>3. RowsOwnGen'
    BY <2>2, <1>c DEF OwnershipInv, RowsOwnGen
  <2>4. StagesOK'
    BY <2>2, <1>s DEF StagesOK
  <2>5. HeldLeft'
    BY <2>2, <1>c DEF OwnershipInv, HeldLeft
  <2>6. HeldOnce'
    BY <2>2 DEF OwnershipInv, HeldOnce
  <2> QED BY <2>3, <2>4, <2>5, <2>6 DEF OwnershipInv
<1>9. ASSUME NEW r \in Requests, Fill(r) PROVE OwnershipInv'
  <2>1. call[r].op # "consume"
    BY <1>9, <1>s DEF Fill, At, StagesOf, ConsumeStages, OnlyConsume
  <2> QED BY <1>9, <2>1, <1>c, FrameOwnership DEF Fill, Keep, Holding1, StagesOf, OnlyConsume, Call
<1>10. ASSUME NEW r \in Requests, Lookup(r) \/ Find(r) PROVE OwnershipInv'
  <2>1. call[r].op # "consume"
    BY <1>10, <1>s DEF Lookup, Find, At, StagesOf, ConsumeStages, OnlyConsume
  <2>2. \A pc, y : [call[r] EXCEPT !.at = pc, !.row = y].op = call[r].op
    BY <1>c DEF Call
  <2>3. \A a, b : a \notin OnlyConsume /\ b \notin OnlyConsume /\ NextTry(r, a, b) =>
          OwnershipInv' \/ table' # table \/ issued' # issued
    BY <2>1, <1>c, FrameOwnership DEF NextTry, Holding1, StagesOf, Call
  <2>4. \A pc, y : pc \notin OnlyConsume /\ Keep(r, pc, y) =>
          OwnershipInv' \/ table' # table \/ issued' # issued
    BY <2>1, <1>c, FrameOwnership DEF Keep, Holding1, StagesOf, Call
  <2>5. \A pc : pc \notin OnlyConsume /\ Become(r, [call[r] EXCEPT !.at = pc, !.try = 1])
                  => OwnershipInv' \/ table' # table \/ issued' # issued
    BY <2>1, <1>c, FrameOwnership DEF Holding1, StagesOf, Call
  <2> QED BY <1>10, <2>3, <2>4, <2>5 DEF Lookup, Find, OnlyConsume
<1>11. ASSUME NEW r \in Requests, Cleanup(r) \/ Evict(r) \/ Probe(r) \/ Erase(r)
       PROVE  OwnershipInv'
  <2>1. call[r].op # "consume"
    BY <1>11, <1>s DEF Cleanup, Evict, Probe, Erase, At, StagesOf, ConsumeStages, OnlyConsume
  <2>2. table' \subseteq table /\ issued' = issued
    BY <1>11 DEF Cleanup, Evict, Probe, Erase
  <2>3. \E pc : pc \notin OnlyConsume
          /\ (Goto(r, pc) \/ Become(r, [call[r] EXCEPT !.at = pc, !.dead = issued]))
    BY <1>11 DEF Cleanup, Evict, Probe, Erase, OnlyConsume
  <2> QED BY <2>1, <2>2, <2>3, <1>c, FrameOwnership DEF Goto, Holding1, StagesOf, Call
<1>12. ASSUME NEW r \in Requests, Fetch(r) \/ Refill(r) PROVE OwnershipInv'
  <2>1. call[r].op # "consume"
    BY <1>12, <1>s DEF Fetch, Refill, At, StagesOf, ConsumeStages, OnlyConsume
  <2>2. /\ table' = table /\ issued' = issued
        /\ \E pc : pc \notin OnlyConsume /\ (Goto(r, pc) \/ \E y : Keep(r, pc, y))
    BY <1>12 DEF Fetch, Refill, OnlyConsume
  <2> QED BY <2>1, <2>2, <1>c, FrameOwnership DEF Goto, Keep, Holding1, StagesOf, Call
<1>13. ASSUME NEW r \in Requests, Amend(r) PROVE OwnershipInv'
  <2>1. call[r].op # "consume"
    BY <1>13, <1>s DEF Amend, At, StagesOf, ConsumeStages, OnlyConsume
  <2>2. \A y \in table' : \E x \in table : y.gen = x.gen
    BY <1>13, AmendsRows DEF TypeOK, Row
  <2>3. \A y, z \in table' : y.gen = z.gen => y = z
    <3>0. PICK rows \in SUBSET table :
            table' = {IF x \in rows THEN [x EXCEPT !.exp = Expiry(r)] ELSE x : x \in table}
      BY <1>13, AmendsRows
    <3> DEFINE F(x) == IF x \in rows THEN [x EXCEPT !.exp = Expiry(r)] ELSE x
    <3>1. \A x \in table : F(x).gen = x.gen
      BY DEF TypeOK, Row
    <3>2. \A y \in table' : \E x \in table : y = F(x)
      BY <3>0
    <3> HIDE DEF F
    <3> QED BY <3>1, <3>2 DEF OwnershipInv, RowsOwnGen
  <2>4. /\ issued' = issued /\ call'[r].op # "consume" /\ StagesOf(call'[r])
        /\ \A q \in Requests : q # r => call'[q] = call[q]
    BY <1>13, <2>1, <1>c DEF Amend, Goto, Become, StagesOf, OnlyConsume, Call
  <2>5. ~Holding1(call'[r])
    BY <2>4 DEF Holding1
  <2>6. RowsOwnGen'
    BY <2>2, <2>3, <2>4 DEF OwnershipInv, RowsOwnGen
  <2>7. StagesOK'
    BY <2>4, <1>s DEF StagesOK
  <2>8. HeldLeft'
    BY <2>2, <2>4, <2>5 DEF OwnershipInv, HeldLeft
  <2>9. HeldOnce'
    BY <2>4, <2>5 DEF OwnershipInv, HeldOnce
  <2> QED BY <2>6, <2>7, <2>8, <2>9 DEF OwnershipInv
<1>14. ASSUME NEW r \in Requests, Fail(r) PROVE OwnershipInv'
  BY <1>14, <1>c, <1>s, FrameOwnership DEF Fail, Goto, Holding1, StagesOf, ConsumeStages, OnlyConsume, Call
<1>15. ASSUME NEW p \in Processes, Crash(p) PROVE OwnershipInv'
  <2>1. \A r \in Requests : \/ call'[r] = call[r]
                            \/ call'[r].at = "failed" /\ call'[r].op = call[r].op
    BY <1>15, <1>c DEF Crash, Call
  <2>2. table' = table /\ issued' = issued
    BY <1>15 DEF Crash
  <2>3. \A r \in Requests : Holding1(call'[r]) => call'[r] = call[r]
    BY <2>1 DEF Holding1
  <2>4. RowsOwnGen' /\ HeldLeft' /\ HeldOnce'
    BY <2>2, <2>3 DEF OwnershipInv, RowsOwnGen, HeldLeft, HeldOnce
  <2>5. StagesOK'
    BY <2>1, <1>s DEF StagesOK, StagesOf, ConsumeStages, OnlyConsume
  <2> QED BY <2>4, <2>5 DEF OwnershipInv
\* Out of reach while the values are in the table.
<1>16. ASSUME NEW r \in Requests, Take(r) \/ Get(r) \/ Del(r) PROVE OwnershipInv'
  BY <1>16, <1>s DEF Take, Get, Del, At, StagesOf, ConsumeStages, OnlyConsume
<1>17. CASE Tick \/ Idle \/ UNCHANGED vars
  BY <1>17 DEF Tick, Idle, vars, OwnershipInv, RowsOwnGen, StagesOK, HeldLeft, HeldOnce
<1> QED
  BY <1>1, <1>2, <1>3, <1>4, <1>5, <1>6, <1>7, <1>8, <1>9, <1>10, <1>11, <1>12,
     <1>13, <1>14, <1>15, <1>16, <1>17
  DEF Next, Step, Consume

\* In the database a value is given to one consume at most, for any number of
\* requests and processes, with or without the cache beside it.
THEOREM SingleUseInDatabase == Spec => [](UsesTable => AtMostOnce)
<1> DEFINE Inv == TypeOK /\ (UsesTable => OwnershipInv)
<1>1. Inv => (UsesTable => AtMostOnce)
  BY DEF OwnershipInv, HeldOnce, Holding1, AtMostOnce, Won, At
<1>2. Init => Inv
  BY InitTypeOK, InitOwnership
<1>3. Inv /\ [Next]_vars => Inv'
  BY StepTypeOK, StepOwnership, DeployFixed DEF UsesTable, Storage
<1> HIDE DEF Inv
<1> QED BY <1>1, <1>2, <1>3, PTL DEF Spec
-----------------------------------------------------------------------------
(***************************************************************************)
(* No replay, for values in the database under one key. The invariant:     *)
(* whatever is left in the table is newer than everything that a finished  *)
(* consume or delete invalidated, and than what a consume on its way out   *)
(* is about to invalidate.                                                 *)
(***************************************************************************)
RowsFresh ==
  /\ spent \in 0..issued
  /\ \A x \in table : x.key = "plain" /\ spent < x.gen
\* c claims, or has claimed, a value that was there when it started.
ClaimFresh(c) ==
  /\ c.floor <= spent
  /\ c.op = "consume" /\ c.at \in {"claim", "purge", "uncache", "gate", "done"} /\ c.row # None
       => c.floor < c.row.gen
\* c has deleted every row up to c.dead.
PurgeDone(c) ==
  c.op = "consume" /\ c.at \in {"uncache", "gate"} /\ c.row # None =>
    c.dead <= issued /\ \A x \in table : c.dead < x.gen
ReplayInv ==
  /\ RowsFresh
  /\ \A r \in Requests : ClaimFresh(call[r]) /\ PurgeDone(call[r])

\* A step of one request that adds no row: only its own state and the bound
\* of what is spent have to be looked at.
LEMMA FrameReplay ==
  ASSUME TypeOK, ReplayInv, NEW r \in Requests, NEW c, Become(r, c),
         table' \subseteq table, issued' = issued, spent <= spent',
         RowsFresh',
         c.op = "consume" /\ c.at \in {"uncache", "gate"} /\ c.row # None =>
           c.dead <= issued /\ \A x \in table' : c.dead < x.gen,
         c.floor \in Nat, c.floor <= spent,
         c.op = "consume" /\ c.at \in {"claim", "purge", "uncache", "gate", "done"} /\ c.row # None
           => c.floor < c.row.gen
  PROVE  ReplayInv'
<1>1. /\ call \in [Requests -> Call] /\ issued \in Nat /\ spent \in Nat
      /\ \A q \in Requests : call[q] \in Call
  BY DEF TypeOK
<1>2. \A q \in Requests : call'[q] = IF q = r THEN c ELSE call[q]
  BY <1>1 DEF Become
<1>3. spent' \in Nat
  BY <1>1 DEF RowsFresh
<1>4. \A q \in Requests : q # r => ClaimFresh(call[q])' /\ PurgeDone(call[q])'
  BY <1>1, <1>2, <1>3 DEF ReplayInv, ClaimFresh, PurgeDone, Call
<1>5. PurgeDone(call[r])'
  BY <1>2 DEF PurgeDone
<1>6. ClaimFresh(call[r])'
  BY <1>1, <1>2, <1>3 DEF ClaimFresh
<1> QED BY <1>4, <1>5, <1>6 DEF ReplayInv

LEMMA InitReplay == ~Hashed /\ Init => ReplayInv
  BY ConstantsAssumption
  DEF Init, ReplayInv, RowsFresh, ClaimFresh, PurgeDone, NoCall

LEMMA StepReplay ==
  UsesTable /\ ~Hashed /\ TypeOK /\ OwnershipInv /\ ReplayInv /\ [Next]_vars => ReplayInv'
<1> SUFFICES ASSUME UsesTable, ~Hashed, TypeOK, OwnershipInv, ReplayInv, [Next]_vars
             PROVE  ReplayInv'
  OBVIOUS
<1>c. /\ call \in [Requests -> Call] /\ issued \in Nat /\ spent \in Nat
      /\ \A r \in Requests : call[r] \in Call
  BY DEF TypeOK
<1>s. \A r \in Requests : StagesOf(call[r])
  BY DEF OwnershipInv, StagesOK
<1>k. Stored = "plain" /\ \A r \in Requests : Key(r) = "plain"
  BY DEF Stored, Key
<1>f. \A r \in Requests :
        /\ call[r].floor \in Nat /\ call[r].dead \in Nat /\ call[r].floor <= spent
        /\ ClaimFresh(call[r]) /\ PurgeDone(call[r])
  BY <1>c DEF ReplayInv, ClaimFresh, Call
<1>r. RowsFresh
  BY DEF ReplayInv
\* Steps that leave the table alone, or shrink it, and spend nothing.
<1>q. \A r \in Requests : \A c :
        /\ Become(r, c) /\ table' \subseteq table /\ issued' = issued /\ spent' = spent
        /\ c.floor = call[r].floor
        /\ c.op = "consume" /\ c.at \in {"uncache", "gate"} /\ c.row # None =>
             c.dead <= issued /\ \A x \in table' : c.dead < x.gen
        /\ c.op = "consume" /\ c.at \in {"claim", "purge", "uncache", "gate", "done"}
             /\ c.row # None => c.floor < c.row.gen
        => ReplayInv'
  <2> TAKE r \in Requests
  <2> TAKE c
  <2> HAVE /\ Become(r, c) /\ table' \subseteq table /\ issued' = issued /\ spent' = spent
           /\ c.floor = call[r].floor
           /\ c.op = "consume" /\ c.at \in {"uncache", "gate"} /\ c.row # None =>
                c.dead <= issued /\ \A x \in table' : c.dead < x.gen
           /\ c.op = "consume" /\ c.at \in {"claim", "purge", "uncache", "gate", "done"}
                /\ c.row # None => c.floor < c.row.gen
  <2>1. RowsFresh'
    BY <1>r DEF RowsFresh
  <2> QED BY <2>1, <1>c, <1>f, FrameReplay
<1>1. ASSUME NEW r \in Requests, NEW op \in Ops[r], Start(r, op) PROVE ReplayInv'
  <2> DEFINE c == [NoCall EXCEPT !.op = op, !.at = FirstStep(op),
                                 !.began = now, !.floor = spent]
  <2>1. /\ Become(r, c) /\ c.row = None /\ c.floor = spent
        /\ table' = table /\ issued' = issued /\ spent' = spent
    BY <1>1 DEF Start, NoCall
  <2>2. RowsFresh'
    BY <2>1, <1>r DEF RowsFresh
  <2> HIDE DEF c
  <2> QED BY <2>1, <2>2, <1>c, FrameReplay
<1>2. ASSUME NEW r \in Requests, Enter(r) PROVE ReplayInv'
  BY <1>2, <1>q, <1>c DEF Enter, Goto, Call
<1>3. ASSUME NEW r \in Requests, Select(r) PROVE ReplayInv'
  <2>1. CASE Latest(Key(r)) = {} /\ NextTry(r, "enter", "gate")
    BY <1>3, <2>1, <1>q, <1>c DEF Select, NextTry, Call
  <2>2. ASSUME NEW x \in Latest(Key(r)), Keep(r, "claim", AsEntry(x)) PROVE ReplayInv'
    <3>1. x \in table
      BY DEF Latest
    <3>2. call[r].floor < x.gen /\ AsEntry(x).gen = x.gen
      BY <3>1, <1>f, <1>r, <1>c DEF RowsFresh, AsEntry, TypeOK, Row
    <3> QED BY <1>3, <2>2, <3>2, <1>q, <1>c DEF Select, Keep, Call
  <2> QED BY <1>3, <2>1, <2>2 DEF Select
<1>4. ASSUME NEW r \in Requests, Claim(r) PROVE ReplayInv'
  <2>1. CASE NextTry(r, "enter", "gate") /\ UNCHANGED table
    BY <1>4, <2>1, <1>q, <1>c DEF Claim, NextTry, Call
  <2>2. ASSUME NEW x \in table, table' = table \ {x}, Keep(r, "purge", AsEntry(x))
        PROVE  ReplayInv'
    <3>1. call[r].floor < x.gen /\ AsEntry(x).gen = x.gen
      BY <1>f, <1>r, <1>c DEF RowsFresh, AsEntry, TypeOK, Row
    <3> QED BY <1>4, <2>2, <3>1, <1>q, <1>c DEF Claim, Keep, Call
  <2> QED BY <1>4, <2>1, <2>2 DEF Claim
<1>5. ASSUME NEW r \in Requests, Purge(r) PROVE ReplayInv'
  <2>1. table' = {}
    BY <1>5, <1>k, <1>r DEF Purge, RowsFresh
  <2> DEFINE c == [call[r] EXCEPT !.at   = IF UsesCache THEN "uncache" ELSE "gate",
                                  !.todo = IF UsesCache THEN Candidates ELSE {},
                                  !.dead = issued]
  <2>2. Become(r, c) /\ issued' = issued /\ spent' = spent
    BY <1>5 DEF Purge
  <2>3. c.op = call[r].op /\ c.floor = call[r].floor /\ c.row = call[r].row /\ c.dead = issued
    BY <1>c DEF Call
  <2>4. c.op = "consume" /\ c.row # None => c.floor < c.row.gen
    BY <1>5, <1>f, <2>3 DEF Purge, At, ClaimFresh
  <2> HIDE DEF c
  <2> QED BY <2>1, <2>2, <2>3, <2>4, <1>q, <1>c
<1>6. ASSUME NEW r \in Requests, Uncache(r) PROVE ReplayInv'
  <2>1. PICK k \in call[r].todo :
          Become(r, [call[r] EXCEPT !.todo = @ \ {k},
                                    !.at = IF call[r].todo = {k} THEN "gate" ELSE @])
    BY <1>6 DEF Uncache
  <2> QED BY <1>6, <2>1, <1>q, <1>c, <1>f DEF Uncache, At, ClaimFresh, PurgeDone, Call
<1>7. ASSUME NEW r \in Requests, Gate(r) PROVE ReplayInv'
  <2> DEFINE c == [call[r] EXCEPT !.at = "done",
                     !.row = IF call[r].row.exp < now THEN None ELSE call[r].row]
  <2>1. Become(r, c) /\ table' = table /\ issued' = issued
    BY <1>7 DEF Gate, Keep
  <2>2. /\ c.op = call[r].op /\ c.at = "done" /\ c.floor = call[r].floor
        /\ c.row = None \/ c.row = call[r].row
    BY <1>c DEF Call
  <2>3. RowsFresh' /\ spent <= spent'
    <3>1. CASE spent' = spent
      BY <3>1, <2>1, <1>r, <1>c DEF RowsFresh
    <3>2. CASE spent' = call[r].dead /\ call[r].row # None /\ call[r].dead > spent
      <4>1. call[r].op = "consume"
        BY <1>7, <1>s DEF Gate, At, StagesOf, OnlyConsume
      <4> QED BY <1>7, <3>2, <4>1, <2>1, <1>f, <1>r, <1>c DEF Gate, At, PurgeDone, RowsFresh
    <3> QED BY <1>7, <3>1, <3>2 DEF Gate
  <2> HIDE DEF c
  <2> QED BY <1>7, <2>1, <2>2, <2>3, <1>c, <1>f, FrameReplay DEF Gate, At, ClaimFresh
<1>8. ASSUME NEW r \in Requests, Insert(r) PROVE ReplayInv'
  <2> DEFINE x == [gen |-> issued + 1, key |-> Stored, made |-> call[r].began,
                   exp |-> Expiry(r)]
  <2>1. call[r].op # "consume"
    BY <1>8, <1>s DEF Insert, At, StagesOf, ConsumeStages
  <2>2. /\ table' = table \cup {x} /\ issued' = issued + 1 /\ spent' = spent
        /\ x.gen = issued + 1 /\ x.key = "plain"
        /\ call'[r].op = call[r].op /\ call'[r].floor = call[r].floor
        /\ \A q \in Requests : q # r => call'[q] = call[q]
    BY <1>8, <1>k, <1>c DEF Insert, Keep, Become, Call
  <2> HIDE DEF x
  <2>3. RowsFresh'
    BY <2>2, <1>r, <1>c DEF RowsFresh
  <2>4. \A q \in Requests : ClaimFresh(call[q])'
    BY <2>1, <2>2, <1>f DEF ClaimFresh
  <2>5. \A q \in Requests : PurgeDone(call[q])'
    <3>1. \A q \in Requests : call[q].dead <= issued => call[q].dead < issued + 1
      BY <1>c, <1>f
    <3>2. \A q \in Requests : call[q].dead <= issued => call[q].dead <= issued + 1
      BY <1>c, <1>f
    <3> QED BY <2>1, <2>2, <3>1, <3>2, <1>f DEF PurgeDone
  <2> QED BY <2>3, <2>4, <2>5 DEF ReplayInv
<1>9. ASSUME NEW r \in Requests, Fill(r) PROVE ReplayInv'
  <2>1. call[r].op # "consume"
    BY <1>9, <1>s DEF Fill, At, StagesOf, ConsumeStages
  <2> QED BY <1>9, <2>1, <1>q, <1>c DEF Fill, Keep, Call
<1>10. ASSUME NEW r \in Requests, Lookup(r) \/ Find(r) PROVE ReplayInv'
  <2>1. call[r].op # "consume" /\ table' = table /\ issued' = issued /\ spent' = spent
    BY <1>10, <1>s DEF Lookup, Find, At, StagesOf, ConsumeStages
  <2>2. \A a, b : NextTry(r, a, b) => ReplayInv'
    BY <2>1, <1>c, <1>q DEF NextTry, Call
  <2>3. \A pc, y : Keep(r, pc, y) => ReplayInv'
    BY <2>1, <1>c, <1>q DEF Keep, Call
  <2>4. \A pc : Become(r, [call[r] EXCEPT !.at = pc, !.try = 1]) => ReplayInv'
    BY <2>1, <1>c, <1>q DEF Call
  <2> QED BY <1>10, <2>2, <2>3, <2>4 DEF Lookup, Find
<1>11. ASSUME NEW r \in Requests, Cleanup(r) \/ Evict(r) PROVE ReplayInv'
  <2>1. call[r].op # "consume"
    BY <1>11, <1>s DEF Cleanup, Evict, At, StagesOf, ConsumeStages
  <2> QED BY <1>11, <2>1, <1>c, <1>q DEF Cleanup, Evict, Goto, Call
\* A delete counts when no row is left.
<1>12. ASSUME NEW r \in Requests, Probe(r) \/ Erase(r) PROVE ReplayInv'
  <2>1. call[r].op # "consume"
    BY <1>12, <1>s DEF Probe, Erase, At, StagesOf, ConsumeStages
  <2>2. PICK pc : \/ Goto(r, pc)
                  \/ Become(r, [call[r] EXCEPT !.at = pc, !.dead = issued])
    BY <1>12 DEF Probe, Erase
  <2>3. /\ table' \subseteq table /\ issued' = issued
        /\ spent' = spent \/ (spent' = issued /\ table' = {})
    BY <1>12, <1>k, <1>r DEF Probe, Erase, RowsFresh
  <2>4. RowsFresh' /\ spent <= spent'
    BY <2>3, <1>r, <1>c DEF RowsFresh
  <2> QED BY <2>1, <2>2, <2>3, <2>4, <1>c, <1>f, FrameReplay DEF Goto, Call
<1>13. ASSUME NEW r \in Requests, Fetch(r) \/ Refill(r) PROVE ReplayInv'
  <2>1. call[r].op # "consume" /\ table' = table /\ issued' = issued /\ spent' = spent
    BY <1>13, <1>s DEF Fetch, Refill, At, StagesOf, ConsumeStages
  <2>2. \E pc : Goto(r, pc) \/ \E y : Keep(r, pc, y)
    BY <1>13 DEF Fetch, Refill
  <2> QED BY <2>1, <2>2, <1>c, <1>q DEF Goto, Keep, Call
<1>14. ASSUME NEW r \in Requests, Amend(r) PROVE ReplayInv'
  <2>1. call[r].op # "consume"
    BY <1>14, <1>s DEF Amend, At, StagesOf, ConsumeStages
  <2>2. \A y \in table' : \E x \in table : y.gen = x.gen /\ y.key = x.key
    BY <1>14, AmendsRows DEF TypeOK, Row
  <2>3. /\ issued' = issued /\ spent' = spent
        /\ call'[r].op = call[r].op /\ call'[r].floor = call[r].floor
        /\ \A q \in Requests : q # r => call'[q] = call[q]
    BY <1>14, <1>c DEF Amend, Goto, Become, Call
  <2>4. RowsFresh'
    BY <2>2, <2>3, <1>r DEF RowsFresh
  <2>5. \A q \in Requests : ClaimFresh(call[q])'
    BY <2>1, <2>3, <1>f DEF ClaimFresh
  <2>6. \A q \in Requests : PurgeDone(call[q])'
    BY <2>1, <2>2, <2>3, <1>f DEF PurgeDone
  <2> QED BY <2>4, <2>5, <2>6 DEF ReplayInv
<1>15. ASSUME NEW r \in Requests, Fail(r) PROVE ReplayInv'
  BY <1>15, <1>q, <1>c DEF Fail, Goto, Call
<1>16. ASSUME NEW p \in Processes, Crash(p) PROVE ReplayInv'
  <2>1. \A r \in Requests : \/ call'[r] = call[r]
                            \/ call'[r].at = "failed" /\ call'[r].floor = call[r].floor
    BY <1>16, <1>c DEF Crash, Call
  <2>2. table' = table /\ issued' = issued /\ spent' = spent
    BY <1>16 DEF Crash
  <2> QED BY <2>1, <2>2, <1>f, <1>r DEF ReplayInv, RowsFresh, ClaimFresh, PurgeDone
<1>17. ASSUME NEW r \in Requests, Take(r) \/ Get(r) \/ Del(r) PROVE ReplayInv'
  BY <1>17, <1>s DEF Take, Get, Del, At, StagesOf, ConsumeStages, OnlyConsume
<1>18. CASE Tick \/ Idle \/ UNCHANGED vars
  BY <1>18 DEF Tick, Idle, vars, ReplayInv, RowsFresh, ClaimFresh, PurgeDone
<1> QED
  BY <1>1, <1>2, <1>3, <1>4, <1>5, <1>6, <1>7, <1>8, <1>9, <1>10, <1>11, <1>12,
     <1>13, <1>14, <1>15, <1>16, <1>17, <1>18
  DEF Next, Step, Consume

\* In the database, with the identifier stored under one key, nothing that was
\* issued before a finished consume, or a delete that left no row, can be redeemed by
\* a request that starts after it.
THEOREM NoReplayInDatabase == Spec => [](UsesTable /\ ~Hashed => NoReplay)
<1> DEFINE Inv == TypeOK /\ (UsesTable /\ ~Hashed => OwnershipInv /\ ReplayInv)
<1>1. Inv => (UsesTable /\ ~Hashed => NoReplay)
  BY DEF ReplayInv, ClaimFresh, NoReplay, Won, At
<1>2. Init => Inv
  BY InitTypeOK, InitOwnership, InitReplay
<1>3. Inv /\ [Next]_vars => Inv'
  BY StepTypeOK, StepOwnership, StepReplay, DeployFixed DEF UsesTable, Storage, Hashed
<1> HIDE DEF Inv
<1> QED BY <1>1, <1>2, <1>3, PTL DEF Spec
-----------------------------------------------------------------------------
(***************************************************************************)
(* Finds, in the database alone. A find answers with the row it read just  *)
(* before its cleanup, and the rows that it can read are fresh.            *)
(***************************************************************************)
FindStages == {"find", "cleanup", "done", "failed"}
FindKnows(c) ==
  c.op = "find" =>
    /\ c.at \in FindStages
    /\ c.at \in {"cleanup", "done"} /\ c.row # None => c.floor < c.row.gen
FindInv == \A r \in Requests : FindKnows(call[r])

\* A step of one request is its own affair, and never changes what it is doing.
LEMMA StepKeeps ==
  ASSUME TypeOK, NEW r \in Requests, Step(r) \/ Fail(r)
  PROVE  /\ call'[r].op = call[r].op /\ call'[r].floor = call[r].floor
         /\ \A q \in Requests : q # r => call'[q] = call[q]
<1> DEFINE Kept == /\ call'[r].op = call[r].op /\ call'[r].floor = call[r].floor
                   /\ \A q \in Requests : q # r => call'[q] = call[q]
<1>c. call \in [Requests -> Call] /\ call[r] \in Call
  BY DEF TypeOK
<1>1. \A c : Become(r, c) /\ c.op = call[r].op /\ c.floor = call[r].floor => Kept
  BY <1>c DEF Become
<1>2. \A pc : Goto(r, pc) => Kept
  BY <1>1, <1>c DEF Goto, Call
<1>3. \A pc, x : Keep(r, pc, x) => Kept
  BY <1>1, <1>c DEF Keep, Call
<1>4. \A a, b : NextTry(r, a, b) => Kept
  BY <1>1, <1>c DEF NextTry, Call
<1>5. \A pc, x, T, d : Become(r, [call[r] EXCEPT !.at = pc, !.row = x, !.todo = T, !.dead = d]) => Kept
  BY <1>1, <1>c DEF Call
<1>6. \A pc, T, d : Become(r, [call[r] EXCEPT !.at = pc, !.todo = T, !.dead = d]) => Kept
  BY <1>1, <1>c DEF Call
<1>7. \A pc, T : Become(r, [call[r] EXCEPT !.todo = T, !.at = pc]) => Kept
  BY <1>1, <1>c DEF Call
<1>8. \A pc, t : Become(r, [call[r] EXCEPT !.at = pc, !.try = t]) => Kept
  BY <1>1, <1>c DEF Call
<1> SUFFICES Kept OBVIOUS
<1> HIDE DEF Kept
<1>9. CASE Enter(r) \/ Select(r) \/ Claim(r) \/ Get(r) \/ Gate(r)
  BY <1>9, <1>2, <1>3, <1>4 DEF Enter, Select, Claim, Get, Gate
<1>10. CASE Purge(r) \/ Take(r) \/ Del(r)
  BY <1>10, <1>4, <1>5, <1>6 DEF Purge, Take, Del
<1>11. CASE Uncache(r)
  BY <1>11, <1>7 DEF Uncache
<1>12. CASE Insert(r) \/ Fill(r) \/ Find(r) \/ Cleanup(r) \/ Evict(r) \/ Probe(r) \/ Erase(r)
  BY <1>12, <1>2, <1>3, <1>4 DEF Insert, Fill, Find, Cleanup, Evict, Probe, Erase
<1>13. CASE Lookup(r)
  BY <1>13, <1>3, <1>4, <1>8 DEF Lookup
<1>14. CASE Fetch(r) \/ Refill(r) \/ Amend(r) \/ Fail(r)
  BY <1>14, <1>2, <1>3 DEF Fetch, Refill, Amend, Fail
<1> QED BY <1>9, <1>10, <1>11, <1>12, <1>13, <1>14 DEF Step, Consume

LEMMA FrameFind ==
  ASSUME TypeOK, FindInv, NEW r \in Requests, NEW c, Become(r, c), FindKnows(c)
  PROVE  FindInv'
<1>1. \A q \in Requests : call'[q] = IF q = r THEN c ELSE call[q]
  BY DEF TypeOK, Become
<1> QED BY <1>1 DEF FindInv

LEMMA StepFind ==
  UsesTable /\ ~UsesCache /\ ~Hashed /\ TypeOK /\ OwnershipInv /\ ReplayInv /\ FindInv
    /\ [Next]_vars => FindInv'
<1> SUFFICES ASSUME UsesTable, ~UsesCache, ~Hashed, TypeOK, OwnershipInv, ReplayInv, FindInv,
                    [Next]_vars
             PROVE  FindInv'
  OBVIOUS
<1>c. /\ call \in [Requests -> Call] /\ spent \in Nat
      /\ \A r \in Requests : call[r] \in Call
  BY DEF TypeOK
<1>f. \A r \in Requests : FindKnows(call[r]) /\ call[r].floor \in Nat /\ call[r].floor <= spent
  BY <1>c DEF FindInv, ReplayInv, ClaimFresh, Call
<1>s. \A r \in Requests : StagesOf(call[r])
  BY DEF OwnershipInv, StagesOK
<1>o. \A r \in Requests : Step(r) /\ call[r].op # "find" => FindInv'
  BY StepKeeps DEF FindInv, FindKnows
<1>1. ASSUME NEW r \in Requests, NEW op \in Ops[r], Start(r, op) PROVE FindInv'
  <2> DEFINE c == [NoCall EXCEPT !.op = op, !.at = FirstStep(op),
                                 !.began = now, !.floor = spent]
  <2>1. Become(r, c)
    BY <1>1 DEF Start
  <2>2. c.op = op /\ c.row = None /\ c.at = FirstStep(op)
    BY DEF NoCall
  <2>3. FindKnows(c)
    BY <2>2 DEF FindKnows, FirstStep, FindStages
  <2> QED BY <2>1, <2>3, FrameFind
<1>2. ASSUME NEW r \in Requests, Consume(r) PROVE FindInv'
  <2>1. call[r].op = "consume"
    BY <1>2, <1>s DEF Consume, Enter, Select, Claim, Purge, Take, Get, Del, Uncache, Gate, At,
                      StagesOf, OnlyConsume
  <2> QED BY <1>2, <2>1, <1>o DEF Step
<1>3. ASSUME NEW r \in Requests,
             Insert(r) \/ Fill(r) \/ Lookup(r) \/ Evict(r) \/ Probe(r) \/ Erase(r)
               \/ Fetch(r) \/ Refill(r) \/ Amend(r)
      PROVE  FindInv'
  <2>1. call[r].op # "find"
    BY <1>3, <1>f DEF Insert, Fill, Lookup, Evict, Probe, Erase, Fetch, Refill, Amend, At,
                      FindKnows, FindStages
  <2> QED BY <1>3, <2>1, <1>o DEF Step
<1>4. ASSUME NEW r \in Requests, Find(r) PROVE FindInv'
  <2>1. CASE NextTry(r, "find", "cleanup")
    BY <2>1, <1>c, FrameFind DEF NextTry, FindKnows, FindStages, Call
  <2>2. ASSUME NEW x \in Latest(Key(r)), Keep(r, "cleanup", AsEntry(x)) PROVE FindInv'
    <3>1. x \in table /\ AsEntry(x).gen = x.gen
      BY DEF Latest, AsEntry
    <3>2. call[r].floor < x.gen
      BY <3>1, <1>f, <1>c DEF ReplayInv, RowsFresh, TypeOK, Row
    <3> QED BY <2>2, <3>1, <3>2, <1>c, FrameFind DEF Keep, FindKnows, FindStages, Call
  <2> QED BY <1>4, <2>1, <2>2 DEF Find
<1>5. ASSUME NEW r \in Requests, Cleanup(r) PROVE FindInv'
  BY <1>5, <1>c, <1>f, FrameFind DEF Cleanup, Goto, At, FindKnows, FindStages, Call
<1>6. ASSUME NEW r \in Requests, Fail(r) PROVE FindInv'
  BY <1>6, <1>c, FrameFind DEF Fail, Goto, FindKnows, FindStages, Call
<1>7. ASSUME NEW p \in Processes, Crash(p) PROVE FindInv'
  <2>1. \A r \in Requests : \/ call'[r] = call[r]
                            \/ call'[r].at = "failed" /\ call'[r].op = call[r].op
    BY <1>7, <1>c DEF Crash, Call
  <2> QED BY <2>1, <1>f DEF FindInv, FindKnows, FindStages
<1>8. CASE Tick \/ Idle \/ UNCHANGED vars
  BY <1>8 DEF Tick, Idle, vars, FindInv, FindKnows
<1> QED
  BY <1>1, <1>2, <1>3, <1>4, <1>5, <1>6, <1>7, <1>8 DEF Next, Step

-----------------------------------------------------------------------------
(***************************************************************************)
(* Single use, for values kept in the secondary storage alone. Nothing     *)
(* there refuses a second taker: what makes a value single use is either   *)
(* the storage's own getAndDelete, or the lock, and that one only among    *)
(* the requests of one process. An update writes back what it read, so     *)
(* none may be under way.                                                  *)
(***************************************************************************)
NoUpdates == \A r \in Requests : "update" \notin Ops[r]
OneProcess == \A r, q \in Requests : Home[r] = Home[q]
TakesAtomic == ~UsesTable /\ NoUpdates /\ (HasGetAndDelete \/ OneProcess)

CacheStages(c) ==
  \/ c.op = "none" /\ c.at = "idle"
  \/ c.op = "create" /\ c.at \in {"fill", "done", "failed"}
  \/ c.op = "find" /\ c.at \in {"lookup", "done", "failed"}
  \/ c.op = "delete" /\ c.at \in {"evict", "done", "failed"}
  \/ c.op = "consume" /\ c.at \in {"uncache", "gate", "done", "failed"}
  \/ c.op = "consume" /\ c.at = "take" /\ HasGetAndDelete
  \/ c.op = "consume" /\ c.at \in {"enter", "get", "del"} /\ ~HasGetAndDelete

Taken(c) == c.op = "consume" /\ c.at \in {"del", "uncache", "gate", "done"} /\ c.row # None

\* An entry is what its number says, and its number is nobody else's.
EntriesOwnGen ==
  /\ \A k \in Keys : cache[k].gen <= issued /\ (cache[k].gen = 0 => cache[k] = None)
  /\ \A k, l \in Keys : cache[k].gen = cache[l].gen /\ cache[k].gen # 0 => k = l
CacheStagesOK == \A r \in Requests : CacheStages(call[r])
\* A value in hand is out of the cache, or is about to be deleted under the lock.
TakenOut ==
  \A r \in Requests : Taken(call[r]) =>
    /\ call[r].row.gen \in 1..issued
    /\ \A k \in Keys : cache[k].gen = call[r].row.gen => At(r, "del") /\ k = Key(r)
TakenOnce ==
  \A r, q \in Requests :
    r # q /\ Taken(call[r]) /\ Taken(call[q]) => call[r].row.gen # call[q].row.gen
Locked == \A r \in Requests : At(r, "del") => HasLock(r)
CacheInv == EntriesOwnGen /\ CacheStagesOK /\ TakenOut /\ TakenOnce /\ Locked

LEMMA CacheDeploy ==
  ASSUME TypeOK, ~UsesTable
  PROVE  UsesCache /\ Stored \in Keys /\ \A r \in Requests : Key(r) \in Keys /\ Home[r] \in Processes
  BY DeployTyped, HelpersTyped DEF TypeOK, UsesTable, UsesCache

\* Who steps away from the head of a queue leaves the other queues alone, and who
\* joins one does not change its head.
LEMMA LockKept ==
  ASSUME TypeOK, NEW r \in Requests, NEW q \in Requests, q # r, HasLock(q),
         call'[q] = call[q], deploy' = deploy,
         \/ lockq' = lockq
         \/ HasLock(r) /\ Release(r)
         \/ lockq' = [lockq EXCEPT ![Home[r]][Key(r)] = Append(@, r)]
  PROVE  HasLock(q)'
<1> DEFINE Q(x) == lockq[Home[x]][Key(x)]
<1>t. /\ lockq \in [Processes -> [Keys -> Seq(Requests)]]
      /\ \A x \in Requests : Home[x] \in Processes /\ Key(x) \in Keys
  BY DeployTyped, HelpersTyped DEF TypeOK
<1>1. Home' = Home /\ Key(q)' = Key(q)
  BY DEF Home, Key, Hashed
<1>2. Q(q) \in Seq(Requests) /\ Q(q) # <<>> /\ Q(q)[1] = q
  BY <1>t DEF HasLock
<1>3. Q(q)' = Q(q) => HasLock(q)'
  BY <1>2 DEF HasLock
<1>4. CASE HasLock(r) /\ Release(r)
  <2>1. ~(Home[r] = Home[q] /\ Key(r) = Key(q))
    BY <1>2, <1>4 DEF HasLock
  <2>2. lockq'[Home[q]][Key(q)] = lockq[Home[q]][Key(q)]
    BY <2>1, <1>4, <1>t DEF Release
  <2> QED BY <2>2, <1>1, <1>3
<1>5. CASE lockq' = [lockq EXCEPT ![Home[r]][Key(r)] = Append(@, r)]
  <2>1. lockq'[Home[q]][Key(q)] \in {Q(q), Append(Q(q), r)}
    BY <1>5, <1>t
  <2>2. Append(Q(q), r) # <<>> /\ Append(Q(q), r)[1] = q
    BY <1>2
  <2> QED BY <2>1, <2>2, <1>1, <1>2 DEF HasLock
<1> QED BY <1>1, <1>3, <1>4, <1>5

LEMMA EntriesCleared ==
  ASSUME EntriesOwnGen, \A k \in Keys : cache'[k] \in {cache[k], None}, issued' = issued,
         issued \in Nat
  PROVE  EntriesOwnGen'
<1>1. None.gen = 0
  BY DEF None
<1>2. \A k \in Keys : cache'[k].gen # 0 => cache'[k] = cache[k]
  BY <1>1
<1>3. \A k \in Keys : cache'[k].gen <= issued' /\ (cache'[k].gen = 0 => cache'[k] = None)
  BY <1>1 DEF EntriesOwnGen
<1>4. \A k, l \in Keys : cache'[k].gen = cache'[l].gen /\ cache'[k].gen # 0 => k = l
  BY <1>2 DEF EntriesOwnGen
<1> QED BY <1>3, <1>4 DEF EntriesOwnGen

\* A step of one request that issues nothing, adds nothing to the cache and takes
\* nothing new from it.
LEMMA FrameCache ==
  ASSUME TypeOK, CacheInv, NEW r \in Requests, NEW c, Become(r, c), deploy' = deploy,
         \A k \in Keys : cache'[k] \in {cache[k], None}, issued' = issued,
         CacheStages(c), c.at # "del",
         Taken(c) => /\ Taken(call[r]) /\ c.row = call[r].row
                     /\ \A k \in Keys : cache'[k].gen # c.row.gen,
         \/ lockq' = lockq
         \/ HasLock(r) /\ Release(r)
         \/ lockq' = [lockq EXCEPT ![Home[r]][Key(r)] = Append(@, r)]
  PROVE  CacheInv'
<1>1. \A q \in Requests : call'[q] = IF q = r THEN c ELSE call[q]
  BY DEF TypeOK, Become
<1>2. \A q \in Requests : q # r => Key(q)' = Key(q)
  BY <1>1 DEF Key, Hashed
<1>3. EntriesOwnGen'
  BY EntriesCleared DEF CacheInv, TypeOK
<1>4. CacheStagesOK'
  BY <1>1 DEF CacheInv, CacheStagesOK, CacheStages, HasGetAndDelete
<1>5. TakenOut'
  <2> SUFFICES ASSUME NEW q \in Requests, Taken(call[q])'
               PROVE  /\ call'[q].row.gen \in 1..issued'
                      /\ \A k \in Keys : cache'[k].gen = call'[q].row.gen
                                           => At(q, "del")' /\ k = Key(q)'
    BY DEF TakenOut
  <2>1. CASE q = r
    BY <2>1, <1>1 DEF CacheInv, TakenOut
  <2>2. CASE q # r
    BY <2>2, <1>1, <1>2 DEF CacheInv, TakenOut, At, None
  <2> QED BY <2>1, <2>2
<1>6. TakenOnce'
  BY <1>1 DEF CacheInv, TakenOnce
<1>7. Locked'
  BY <1>1, LockKept DEF CacheInv, Locked, At
<1> QED BY <1>3, <1>4, <1>5, <1>6, <1>7 DEF CacheInv

\* A request takes the entry of its key: under the lock before it deletes it, or
\* together with the delete.
LEMMA TakeCache ==
  ASSUME TakesAtomic, TypeOK, CacheInv, NEW r \in Requests, NEW c, Become(r, c),
         deploy' = deploy, issued' = issued, call[r].op = "consume",
         Visible(Key(r)), c.op = "consume", c.row = cache[Key(r)], c.try = call[r].try,
         \/ /\ At(r, "get") /\ HasLock(r) /\ c.at = "del"
            /\ UNCHANGED <<cache, lockq>>
         \/ /\ At(r, "take") /\ c.at \in {"gate", "uncache"}
            /\ cache' = [cache EXCEPT ![Key(r)] = None] /\ UNCHANGED lockq
  PROVE  CacheInv'
<1> DEFINE g == cache[Key(r)].gen
<1>k. Key(r) \in Keys
  BY HelpersTyped
<1>c. \A q \in Requests : call[q] \in Call
  BY DEF TypeOK
<1>1. \A q \in Requests : call'[q] = IF q = r THEN c ELSE call[q]
  BY DEF TypeOK, Become
<1>2. \A q \in Requests : Key(q)' = Key(q)
  BY <1>1 DEF Key, Hashed
<1>3. g \in 1..issued
  BY <1>k DEF CacheInv, EntriesOwnGen, Visible, TypeOK, Entry
<1>4. \A k \in Keys : cache'[k] \in {cache[k], None}
  BY <1>k DEF TypeOK
<1>5. EntriesOwnGen'
  BY <1>4, EntriesCleared DEF CacheInv, TypeOK
<1>6. CacheStages(c)
  BY DEF CacheInv, CacheStagesOK, CacheStages, At
<1>7. CacheStagesOK'
  BY <1>1, <1>6 DEF CacheInv, CacheStagesOK, CacheStages, HasGetAndDelete
<1>8. ASSUME NEW q \in Requests, q # r, Taken(call[q])
      PROVE  call[q].row.gen # g
  <2>1. SUFFICES ASSUME call[q].row.gen = g PROVE FALSE
    OBVIOUS
  <2>2. At(q, "del") /\ Key(q) = Key(r) /\ HasLock(q)
    BY <1>k, <1>8, <2>1 DEF CacheInv, TakenOut, Locked
  <2>3. ~HasGetAndDelete
    BY <1>8, <2>2 DEF CacheInv, CacheStagesOK, CacheStages, At
  <2>4. HasLock(r) /\ Home[r] = Home[q]
    BY <2>3 DEF TakesAtomic, OneProcess, CacheInv, CacheStagesOK, CacheStages, At
  <2> QED BY <2>2, <2>4, <1>8 DEF HasLock
<1>9. TakenOut'
  <2> SUFFICES ASSUME NEW q \in Requests, Taken(call[q])'
               PROVE  /\ call'[q].row.gen \in 1..issued'
                      /\ \A k \in Keys : cache'[k].gen = call'[q].row.gen
                                           => At(q, "del")' /\ k = Key(q)'
    BY DEF TakenOut
  <2>1. CASE q = r
    <3>1. call'[q].row.gen = g
      BY <2>1, <1>1
    <3>2. ASSUME NEW k \in Keys, cache'[k].gen = g PROVE c.at = "del" /\ k = Key(r)
      <4>1. cache'[k] = cache[k]
        BY <3>2, <1>3, <1>4 DEF None
      <4>2. k = Key(r)
        BY <3>2, <4>1, <1>k, <1>3 DEF CacheInv, EntriesOwnGen
      <4> QED BY <3>2, <4>2, <1>k, <1>3 DEF TypeOK, None
    <3> QED BY <2>1, <3>1, <3>2, <1>1, <1>2, <1>3 DEF At
  <2>2. CASE q # r
    BY <2>2, <1>1, <1>2, <1>4 DEF CacheInv, TakenOut, At, None
  <2> QED BY <2>1, <2>2
<1>10. TakenOnce'
  BY <1>1, <1>8 DEF CacheInv, TakenOnce
<1>11. Locked'
  <2> SUFFICES ASSUME NEW q \in Requests, At(q, "del")' PROVE HasLock(q)'
    BY DEF Locked
  <2>1. lockq' = lockq /\ Home' = Home /\ Key(q)' = Key(q)
    BY <1>2 DEF Home
  <2>2. HasLock(q)
    BY <1>1 DEF CacheInv, Locked, At
  <2> QED BY <2>1, <2>2 DEF HasLock
<1> QED BY <1>5, <1>7, <1>9, <1>10, <1>11 DEF CacheInv

LEMMA InitCache == Init => CacheInv
<1> SUFFICES ASSUME Init PROVE CacheInv OBVIOUS
<1>1. EntriesOwnGen
  BY DEF Init, EntriesOwnGen, None, Keys
<1>2. \A r \in Requests : call[r] = NoCall
  BY DEF Init
<1> QED BY <1>1, <1>2 DEF CacheInv, CacheStagesOK, CacheStages, TakenOut, Taken, TakenOnce, Locked, At, NoCall

LEMMA StepCache ==
  TakesAtomic /\ TypeOK /\ CacheInv /\ [Next]_vars => CacheInv'
<1> SUFFICES ASSUME TakesAtomic, TypeOK, CacheInv, [Next]_vars PROVE CacheInv' OBVIOUS
<1>c. /\ call \in [Requests -> Call] /\ issued \in Nat
      /\ \A r \in Requests : call[r] \in Call
      /\ cache \in [Keys -> Entry]
  BY DEF TypeOK
<1>s. \A r \in Requests : CacheStages(call[r])
  BY DEF CacheInv, CacheStagesOK
<1>u. ~UsesTable /\ UsesCache /\ \A r \in Requests : Key(r) \in Keys
  BY CacheDeploy DEF TakesAtomic
<1>d. deploy' = deploy
  BY DeployFixed
<1>k. Stored \in Keys
  BY CacheDeploy DEF TakesAtomic
<1>1. ASSUME NEW r \in Requests, NEW op \in Ops[r], Start(r, op) PROVE CacheInv'
  <2> DEFINE c == [NoCall EXCEPT !.op = op, !.at = FirstStep(op),
                                 !.began = now, !.floor = spent]
  <2>1. Become(r, c) /\ cache' = cache /\ issued' = issued /\ lockq' = lockq
    BY <1>1 DEF Start
  <2>2. c.op = op /\ c.row = None /\ c.at = FirstStep(op)
    BY DEF NoCall
  <2>3. op \in AllOps \ {"update"}
    BY DeployTyped DEF TypeOK, TakesAtomic, NoUpdates
  <2>4. CacheStages(c) /\ c.at # "del" /\ ~Taken(c)
    BY <1>u, <2>2, <2>3 DEF AllOps, CacheStages, FirstStep, Taken
  <2> HIDE DEF c
  <2> QED BY <1>d, <2>1, <2>4, FrameCache
<1>2. ASSUME NEW r \in Requests, Enter(r) PROVE CacheInv'
  BY <1>2, <1>c, <1>d, <1>s, <1>u, FrameCache DEF Enter, At, Goto, CacheStages, Taken, Call
<1>3. ASSUME NEW r \in Requests, NEW a, NEW b, NextTry(r, a, b), call[r].op = "consume",
             a \in {"enter", "take"}, b = "gate", call[r].at \in {"get", "take"},
             a = "enter" <=> At(r, "get"),
             \A k \in Keys : cache'[k] \in {cache[k], None}, issued' = issued,
             lockq' = lockq \/ (HasLock(r) /\ Release(r))
      PROVE  CacheInv'
  <2> DEFINE c == [call[r] EXCEPT !.at  = IF call[r].try < LastTry THEN a ELSE b,
                                  !.try = IF call[r].try < LastTry THEN 2 ELSE @,
                                  !.row = None]
  <2>1. Become(r, c)
    BY <1>3 DEF NextTry
  <2>2. c.op = "consume" /\ c.row = None /\ c.at \in {a, b}
    BY <1>3, <1>c DEF Call
  <2>3. CacheStages(c) /\ c.at # "del" /\ ~Taken(c)
    BY <1>3, <1>s, <2>2 DEF At, CacheStages, Taken
  <2> HIDE DEF c
  <2> QED BY <1>3, <1>d, <2>1, <2>3, FrameCache
<1>4. ASSUME NEW r \in Requests, Take(r) PROVE CacheInv'
  <2>1. call[r].op = "consume" /\ At(r, "take")
    BY <1>4, <1>s DEF Take, At, CacheStages
  <2>2. CASE Visible(Key(r))
    <3> DEFINE c == [call[r] EXCEPT
                       !.at   = IF Candidates = {Key(r)} THEN "gate" ELSE "uncache",
                       !.row  = cache[Key(r)], !.todo = Candidates \ {Key(r)},
                       !.dead = issued]
    <3>1. Become(r, c)
      BY <1>4, <2>2 DEF Take
    <3>2. c.op = "consume" /\ c.row = cache[Key(r)] /\ c.try = call[r].try
          /\ c.at \in {"gate", "uncache"}
      BY <2>1, <1>c DEF Call
    <3> HIDE DEF c
    <3> QED BY <1>4, <1>d, <2>1, <2>2, <3>1, <3>2, TakeCache DEF Take
  <2>3. CASE ~Visible(Key(r))
    <3>1. NextTry(r, "take", "gate") /\ issued' = issued /\ lockq' = lockq
      BY <1>4, <2>3 DEF Take
    <3>2. \A k \in Keys : cache'[k] \in {cache[k], None}
      BY <1>4, <1>u, <1>c DEF Take
    <3> QED BY <1>3, <2>1, <3>1, <3>2 DEF At
  <2> QED BY <2>2, <2>3
<1>5. ASSUME NEW r \in Requests, Get(r) PROVE CacheInv'
  <2>1. call[r].op = "consume" /\ At(r, "get") /\ HasLock(r)
    BY <1>5, <1>s DEF Get, At, CacheStages
  <2>2. CASE Visible(Key(r))
    <3> DEFINE c == [call[r] EXCEPT !.at = "del", !.row = cache[Key(r)]]
    <3>1. Become(r, c)
      BY <1>5, <2>2 DEF Get, Keep
    <3>2. c.op = "consume" /\ c.row = cache[Key(r)] /\ c.try = call[r].try /\ c.at = "del"
      BY <2>1, <1>c DEF Call
    <3> HIDE DEF c
    <3> QED BY <1>5, <1>d, <2>1, <2>2, <3>1, <3>2, TakeCache DEF Get
  <2>3. CASE ~Visible(Key(r))
    <3>1. NextTry(r, "enter", "gate") /\ issued' = issued /\ Release(r) /\ cache' = cache
      BY <1>5, <2>3 DEF Get
    <3> QED BY <1>3, <2>1, <3>1 DEF At
  <2> QED BY <2>2, <2>3
<1>6. ASSUME NEW r \in Requests, Del(r) PROVE CacheInv'
  <2> DEFINE c == [call[r] EXCEPT
                     !.at   = IF Candidates = {Key(r)} THEN "gate" ELSE "uncache",
                     !.todo = Candidates \ {Key(r)}, !.dead = issued]
  <2>1. /\ Become(r, c) /\ cache' = [cache EXCEPT ![Key(r)] = None] /\ issued' = issued
        /\ HasLock(r) /\ Release(r) /\ At(r, "del")
    BY <1>6 DEF Del
  <2>2. c.op = call[r].op /\ c.row = call[r].row /\ c.at \in {"gate", "uncache"}
    BY <1>c DEF Call
  <2>3. call[r].op = "consume"
    BY <2>1, <1>s DEF At, CacheStages
  <2>4. \A k \in Keys : cache'[k] \in {cache[k], None}
    BY <2>1, <1>u, <1>c
  <2>5. ASSUME Taken(c), NEW k \in Keys PROVE cache'[k].gen # c.row.gen
    <3>1. Taken(call[r]) /\ call[r].row.gen \in 1..issued
      BY <2>1, <2>2, <2>3, <2>5 DEF Taken, At, CacheInv, TakenOut
    <3>2. CASE k = Key(r)
      BY <3>1, <3>2, <2>1, <2>2, <1>c, <1>u DEF None
    <3>3. CASE k # Key(r)
      BY <3>1, <3>3, <2>1, <2>2, <1>c, <1>u DEF CacheInv, TakenOut
    <3> QED BY <3>2, <3>3
  <2>6. CacheStages(c) /\ c.at # "del" /\ (Taken(c) => Taken(call[r]))
    BY <2>1, <2>2, <2>3 DEF CacheStages, Taken, At
  <2> HIDE DEF c
  <2> QED BY <1>d, <2>1, <2>2, <2>4, <2>5, <2>6, FrameCache
<1>7. ASSUME NEW r \in Requests, Uncache(r) PROVE CacheInv'
  <2>1. PICK k \in call[r].todo :
          /\ cache' = [cache EXCEPT ![k] = None]
          /\ Become(r, [call[r] EXCEPT !.todo = @ \ {k},
                                       !.at = IF call[r].todo = {k} THEN "gate" ELSE @])
    BY <1>7 DEF Uncache
  <2> DEFINE c == [call[r] EXCEPT !.todo = @ \ {k},
                                  !.at = IF call[r].todo = {k} THEN "gate" ELSE @]
  <2>2. c.op = call[r].op /\ c.row = call[r].row /\ c.at \in {"gate", "uncache"}
    BY <1>7, <1>c DEF Uncache, At, Call
  <2>3. At(r, "uncache") /\ call[r].op = "consume" /\ issued' = issued /\ lockq' = lockq
    BY <1>7, <1>s DEF Uncache, At, CacheStages
  <2>4. \A l \in Keys : cache'[l] \in {cache[l], None}
    BY <2>1, <1>c DEF Call
  <2>5. CacheStages(c) /\ c.at # "del" /\ (Taken(c) => Taken(call[r]))
    BY <2>2, <2>3 DEF CacheStages, Taken, At
  <2>6. Taken(c) => \A l \in Keys : cache'[l].gen # c.row.gen
    BY <2>2, <2>3, <2>4, <2>5 DEF CacheInv, TakenOut, At, None
  <2> HIDE DEF c
  <2>7. Become(r, c)
    BY <2>1 DEF c
  <2> QED BY <1>d, <2>2, <2>3, <2>4, <2>5, <2>6, <2>7, FrameCache
<1>8. ASSUME NEW r \in Requests, Gate(r) PROVE CacheInv'
  <2> DEFINE c == [call[r] EXCEPT !.at = "done",
                     !.row = IF call[r].row.exp < now THEN None ELSE call[r].row]
  <2>1. Become(r, c) /\ cache' = cache /\ issued' = issued /\ lockq' = lockq
    BY <1>8 DEF Gate, Keep
  <2>2. c.op = call[r].op /\ c.at = "done" /\ (c.row = None \/ c.row = call[r].row)
    BY <1>c DEF Call
  <2>3. call[r].op = "consume" /\ At(r, "gate")
    BY <1>8, <1>s DEF Gate, At, CacheStages
  <2>4. CacheStages(c) /\ c.at # "del" /\ (Taken(c) => Taken(call[r]) /\ c.row = call[r].row)
    BY <2>2, <2>3 DEF CacheStages, Taken, At
  <2>5. Taken(c) => \A l \in Keys : cache'[l].gen # c.row.gen
    BY <2>1, <2>3, <2>4 DEF CacheInv, TakenOut, At
  <2> HIDE DEF c
  <2> QED BY <1>d, <2>1, <2>4, <2>5, FrameCache
<1>9. ASSUME NEW r \in Requests, Fill(r) PROVE CacheInv'
  <2> DEFINE x == [gen |-> issued + 1, exp |-> Expiry(r)]
  <2>1. call[r].op = "create"
    BY <1>9, <1>s DEF Fill, At, CacheStages
  <2>2. /\ cache' \in {cache, [cache EXCEPT ![Stored] = x]} /\ issued' = issued + 1
        /\ lockq' = lockq /\ Keep(r, "done", x) /\ x.gen = issued + 1
    BY <1>9, <1>u DEF Fill
  <2> HIDE DEF x
  <2>3. /\ call'[r].op = "create" /\ call'[r].at = "done"
        /\ \A q \in Requests : q # r => call'[q] = call[q]
    BY <2>1, <2>2, <1>c DEF Keep, Become, Call
  <2>4. \A k \in Keys : cache'[k] = cache[k] \/ (cache'[k].gen = issued + 1 /\ k = Stored)
    BY <2>2, <1>c, <1>k
  <2>5. EntriesOwnGen'
    <3>1. \A k \in Keys : cache'[k].gen <= issued' /\ (cache'[k].gen = 0 => cache'[k] = None)
      BY <2>2, <2>4, <1>c DEF CacheInv, EntriesOwnGen, Entry
    <3>2. \A k, l \in Keys : cache'[k].gen = cache'[l].gen /\ cache'[k].gen # 0 => k = l
      BY <2>4, <1>c DEF CacheInv, EntriesOwnGen, Entry
    <3> QED BY <3>1, <3>2 DEF EntriesOwnGen
  <2>6. CacheStagesOK'
    BY <2>3, <1>s, <1>d DEF CacheStagesOK, CacheStages, HasGetAndDelete
  <2>7. \A q \in Requests : Taken(call'[q]) => q # r /\ call'[q] = call[q]
    BY <2>3 DEF Taken
  <2>8. \A q \in Requests : q # r => Key(q)' = Key(q)
    BY <2>3, <1>d DEF Key, Hashed
  <2>9. TakenOut'
    BY <2>2, <2>4, <2>7, <2>8, <1>c DEF CacheInv, TakenOut, At
  <2>10. TakenOnce'
    BY <2>7 DEF CacheInv, TakenOnce
  <2>11. Locked'
    BY <2>2, <2>3, <1>d, LockKept DEF CacheInv, Locked, At
  <2> QED BY <2>5, <2>6, <2>9, <2>10, <2>11 DEF CacheInv
<1>10. ASSUME NEW r \in Requests, Lookup(r) \/ Evict(r) PROVE CacheInv'
  <2>1. call[r].op # "consume" /\ issued' = issued /\ lockq' = lockq
    BY <1>10, <1>s DEF Lookup, Evict, At, CacheStages
  <2>2. \A k \in Keys : cache'[k] \in {cache[k], None}
    BY <1>10, <1>c, <1>k DEF Lookup, Evict
  <2>3. ASSUME NEW c, Become(r, c), c.op = call[r].op, CacheStages(c), c.at # "del"
        PROVE  CacheInv'
    BY <1>d, <2>1, <2>2, <2>3, FrameCache DEF Taken
  <2>4. CASE Evict(r)
    <3>1. call[r].op = "delete" /\ Goto(r, "done")
      BY <2>4, <1>s, <1>u DEF Evict, At, CacheStages
    <3> QED BY <3>1, <2>3, <1>c DEF Goto, CacheStages, Call
  <2>5. CASE Lookup(r)
    <3>1. call[r].op = "find"
      BY <2>5, <1>s DEF Lookup, At, CacheStages
    <3>2. \A y : Keep(r, "done", y) => CacheInv'
      BY <3>1, <2>3, <1>c DEF Keep, CacheStages, Call
    <3>3. NextTry(r, "lookup", "lookup") => CacheInv'
      BY <3>1, <2>3, <1>c DEF NextTry, CacheStages, Call
    <3>4. Become(r, [call[r] EXCEPT !.at = "done", !.try = 1]) => CacheInv'
      BY <3>1, <2>3, <1>c DEF CacheStages, Call
    <3> QED BY <2>5, <1>u, <3>2, <3>3, <3>4 DEF Lookup
  <2> QED BY <1>10, <2>4, <2>5
<1>11. ASSUME NEW r \in Requests, Fail(r) PROVE CacheInv'
  <2> DEFINE c == [call[r] EXCEPT !.at = "failed"]
  <2>1. /\ Become(r, c) /\ cache' = cache /\ issued' = issued
        /\ lockq' = lockq \/ (HasLock(r) /\ Release(r))
    BY <1>11 DEF Fail, Goto
  <2>2. c.op = call[r].op /\ c.at = "failed" /\ call[r].at # "idle"
    BY <1>11, <1>c DEF Fail, Call, Working
  <2>3. CacheStages(c) /\ ~Taken(c)
    BY <2>2, <1>s DEF CacheStages, Taken
  <2> HIDE DEF c
  <2> QED BY <1>d, <2>1, <2>2, <2>3, FrameCache
<1>12. ASSUME NEW p \in Processes, Crash(p) PROVE CacheInv'
  <2>1. \A q \in Requests : \/ call'[q] = call[q] /\ (Home[q] # p \/ ~At(q, "del"))
                            \/ /\ call'[q].at = "failed" /\ call'[q].op = call[q].op
                               /\ call[q].at # "idle"
    BY <1>12, <1>c DEF Crash, At, Waiting, Working, Call
  <2>2. cache' = cache /\ issued' = issued
    BY <1>12 DEF Crash
  <2>3. \A q \in Requests : Taken(call'[q]) => call'[q] = call[q]
    BY <2>1 DEF Taken
  <2>4. \A q \in Requests : call'[q] = call[q] => Key(q)' = Key(q)
    BY <1>d DEF Key, Hashed
  <2>5. EntriesOwnGen'
    BY <2>2 DEF CacheInv, EntriesOwnGen
  <2>6. CacheStagesOK'
    BY <2>1, <1>s, <1>d DEF CacheStagesOK, CacheStages, HasGetAndDelete
  <2>7. TakenOut'
    BY <2>2, <2>3, <2>4 DEF CacheInv, TakenOut, At
  <2>8. TakenOnce'
    BY <2>3 DEF CacheInv, TakenOnce
  <2>9. Locked'
    <3> SUFFICES ASSUME NEW q \in Requests, At(q, "del")' PROVE HasLock(q)'
      BY DEF Locked
    <3>1. call'[q] = call[q] /\ Home[q] # p /\ At(q, "del") /\ HasLock(q)
      BY <2>1 DEF At, CacheInv, Locked
    <3>2. lockq'[Home[q]] = lockq[Home[q]]
      BY <1>12, <3>1, DeployTyped DEF Crash, TypeOK
    <3> QED BY <3>1, <3>2, <2>4, <1>d DEF HasLock, Home
  <2> QED BY <2>5, <2>6, <2>7, <2>8, <2>9 DEF CacheInv
\* Out of reach while the values are in the secondary storage alone.
<1>13. ASSUME NEW r \in Requests,
              Select(r) \/ Claim(r) \/ Purge(r) \/ Insert(r) \/ Find(r) \/ Cleanup(r)
                \/ Probe(r) \/ Erase(r) \/ Fetch(r) \/ Refill(r) \/ Amend(r)
       PROVE  CacheInv'
  BY <1>13, <1>s DEF Select, Claim, Purge, Insert, Find, Cleanup, Probe, Erase, Fetch, Refill,
                     Amend, At, CacheStages
<1>14. CASE Tick \/ Idle \/ UNCHANGED vars
  BY <1>14 DEF Tick, Idle, vars, CacheInv, EntriesOwnGen, CacheStagesOK, CacheStages,
     HasGetAndDelete, TakenOut, TakenOnce, Locked, At, Key, Hashed, HasLock, Home
<1> QED
  BY <1>1, <1>2, <1>4, <1>5, <1>6, <1>7, <1>8, <1>9, <1>10, <1>11, <1>12, <1>13, <1>14
  DEF Next, Step, Consume

\* In the secondary storage a value is given to one consume at most, when taking it
\* is atomic and no update puts it back.
THEOREM SingleUseInStorage == Spec => [](TakesAtomic => AtMostOnce)
<1> DEFINE Inv == TypeOK /\ (TakesAtomic => CacheInv)
<1>1. Inv => (TakesAtomic => AtMostOnce)
  BY DEF CacheInv, TakenOnce, Taken, AtMostOnce, Won, At
<1>2. Init => Inv
  BY InitTypeOK, InitCache
<1>3. Inv /\ [Next]_vars => Inv'
  BY StepTypeOK, StepCache, DeployFixed
  DEF TakesAtomic, UsesTable, Storage, NoUpdates, HasGetAndDelete, OneProcess, Ops, Home
<1> HIDE DEF Inv
<1> QED BY <1>1, <1>2, <1>3, PTL DEF Spec

-----------------------------------------------------------------------------
(***************************************************************************)
(* No replay and fresh finds in the secondary storage, under one key: the  *)
(* entry is newer than everything spent, and than what a consume on its    *)
(* way out is about to spend.                                              *)
(***************************************************************************)
EntryFresh ==
  /\ spent \in 0..issued
  /\ cache["hashed"] = None
  /\ cache["plain"] # None => spent < cache["plain"].gen
ReadFresh(c) ==
  /\ c.floor <= spent
  /\ c.op \in {"consume", "find"} /\ c.row # None => c.floor < c.row.gen
Emptied(c) ==
  c.op = "consume" /\ c.at \in {"uncache", "gate"} /\ c.row # None =>
    c.dead <= issued /\ (cache["plain"] # None => c.dead < cache["plain"].gen)
StorageFreshInv ==
  EntryFresh /\ \A r \in Requests : ReadFresh(call[r]) /\ Emptied(call[r])

LEMMA InitStorageFresh == ~Hashed /\ Init => StorageFreshInv
<1> SUFFICES ASSUME ~Hashed, Init PROVE StorageFreshInv OBVIOUS
<1>1. /\ issued = 0 /\ spent = 0 /\ cache["hashed"] = None /\ cache["plain"] = None
      /\ \A r \in Requests : call[r] = NoCall
  BY DEF Init, Keys
<1> QED BY <1>1 DEF StorageFreshInv, EntryFresh, ReadFresh, Emptied, NoCall

LEMMA FrameStorageFresh ==
  ASSUME TypeOK, StorageFreshInv, NEW r \in Requests,
         \A q \in Requests : q # r => call'[q] = call[q],
         call'[r].floor \in Nat, call'[r].floor <= spent,
         \A k \in Keys : cache'[k] \in {cache[k], None}, issued' = issued, spent <= spent',
         EntryFresh', Emptied(call[r])',
         call'[r].op \in {"consume", "find"} /\ call'[r].row # None
           => call'[r].floor < call'[r].row.gen
  PROVE  StorageFreshInv'
<1>1. /\ issued \in Nat /\ spent \in Nat /\ spent' \in Nat
      /\ \A q \in Requests : call[q] \in Call
  BY DEF TypeOK, EntryFresh
<1>2. "plain" \in Keys
  BY DEF Keys
<1>3. ASSUME NEW q \in Requests, q # r PROVE ReadFresh(call[q])' /\ Emptied(call[q])'
  BY <1>1, <1>2, <1>3 DEF StorageFreshInv, ReadFresh, Emptied, Call
<1>4. ReadFresh(call[r])'
  BY <1>1 DEF ReadFresh
<1> QED BY <1>3, <1>4 DEF StorageFreshInv

LEMMA StepStorageFresh ==
  TakesAtomic /\ ~Hashed /\ TypeOK /\ CacheInv /\ StorageFreshInv /\ [Next]_vars
    => StorageFreshInv'
<1> SUFFICES ASSUME TakesAtomic, ~Hashed, TypeOK, CacheInv, StorageFreshInv, [Next]_vars
             PROVE  StorageFreshInv'
  OBVIOUS
<1>c. /\ call \in [Requests -> Call] /\ issued \in Nat /\ spent \in Nat
      /\ \A r \in Requests : call[r] \in Call
      /\ cache \in [Keys -> Entry]
  BY DEF TypeOK
<1>s. \A r \in Requests : CacheStages(call[r])
  BY DEF CacheInv, CacheStagesOK
<1>u. ~UsesTable /\ UsesCache
  BY CacheDeploy DEF TakesAtomic
<1>k. /\ Stored = "plain" /\ "plain" \in Keys /\ "hashed" \in Keys
      /\ \A r \in Requests : Key(r) = "plain"
  BY DEF Stored, Key, Keys
<1>f. \A r \in Requests :
        /\ call[r].floor \in Nat /\ call[r].dead \in Nat /\ call[r].floor <= spent
        /\ ReadFresh(call[r]) /\ Emptied(call[r])
  BY <1>c DEF StorageFreshInv, ReadFresh, Call
<1>e. EntryFresh
  BY DEF StorageFreshInv
\* What is visible is newer than anything that was spent when a request started.
<1>v. \A r \in Requests : Visible("plain") => call[r].floor < cache["plain"].gen
  BY <1>c, <1>e, <1>f, <1>k DEF Visible, EntryFresh, Entry
<1>b. ASSUME NEW r \in Requests
      PROVE  /\ \A a, b : NextTry(r, a, b) => call'[r].row = None
             /\ \A pc, x : Keep(r, pc, x) => call'[r].row = x /\ call'[r].at = pc
             /\ \A pc, t : Become(r, [call[r] EXCEPT !.at = pc, !.try = t])
                             => call'[r].row = call[r].row
  <2>1. \A a, b : NextTry(r, a, b) => call'[r].row = None
    BY <1>c DEF NextTry, Become, Call
  <2>2. \A pc, x : Keep(r, pc, x) => call'[r].row = x /\ call'[r].at = pc
    BY <1>c DEF Keep, Become, Call
  <2>3. \A pc, t : Become(r, [call[r] EXCEPT !.at = pc, !.try = t])
                     => call'[r].row = call[r].row
    BY <1>c DEF Become, Call
  <2> QED BY <2>1, <2>2, <2>3
\* A step that leaves the entry alone, or clears it, and spends nothing.
<1>q. ASSUME NEW r \in Requests, Step(r) \/ Fail(r),
             \A k \in Keys : cache'[k] \in {cache[k], None}, issued' = issued, spent' = spent,
             call'[r].op = "consume" /\ call'[r].at \in {"uncache", "gate"} /\ call'[r].row # None
               => call'[r].dead <= issued
                  /\ (cache'["plain"] # None => call'[r].dead < cache'["plain"].gen),
             call'[r].op \in {"consume", "find"} /\ call'[r].row # None
               => call'[r].floor < call'[r].row.gen
      PROVE  StorageFreshInv'
  <2>1. EntryFresh'
    BY <1>q, <1>e, <1>k DEF EntryFresh
  <2>2. call'[r].floor \in Nat /\ call'[r].floor <= spent
    BY <1>q, <1>f, StepKeeps
  <2>3. Emptied(call[r])'
    BY <1>q DEF Emptied
  <2> QED BY <1>q, <1>c, <2>1, <2>2, <2>3, StepKeeps, FrameStorageFresh
<1>1. ASSUME NEW r \in Requests, NEW op \in Ops[r], Start(r, op) PROVE StorageFreshInv'
  <2>1. /\ cache' = cache /\ issued' = issued /\ spent' = spent
        /\ \A q \in Requests : q # r => call'[q] = call[q]
        /\ call'[r].row = None /\ call'[r].floor = spent
    BY <1>1, <1>c DEF Start, Become, NoCall
  <2>2. EntryFresh' /\ Emptied(call[r])'
    BY <2>1, <1>e DEF EntryFresh, Emptied
  <2> QED BY <2>1, <2>2, <1>c, FrameStorageFresh
<1>2. ASSUME NEW r \in Requests, Enter(r) \/ Fail(r) PROVE StorageFreshInv'
  <2>1. /\ cache' = cache /\ issued' = issued /\ spent' = spent
        /\ call'[r].at \in {"get", "failed"} /\ call'[r].row = call[r].row
    BY <1>2, <1>u, <1>c DEF Enter, Fail, Goto, Become, Call
  <2>2. call'[r].floor = call[r].floor /\ call'[r].op = call[r].op
    BY <1>2, StepKeeps DEF Step, Consume
  <2> QED BY <1>2, <2>1, <2>2, <1>q, <1>f DEF Step, Consume, ReadFresh
<1>3. ASSUME NEW r \in Requests, Take(r) PROVE StorageFreshInv'
  <2>1. /\ cache' = [cache EXCEPT !["plain"] = None] /\ issued' = issued /\ spent' = spent
    BY <1>3, <1>k DEF Take
  <2>2. \/ call'[r].row = None
        \/ Visible("plain") /\ call'[r].row = cache["plain"] /\ call'[r].dead = issued
    <3>1. CASE ~Visible("plain")
      BY <1>3, <3>1, <1>b, <1>k DEF Take
    <3>2. CASE Visible("plain")
      <4>1. Become(r, [call[r] EXCEPT
                         !.at   = IF Candidates = {Key(r)} THEN "gate" ELSE "uncache",
                         !.row  = cache[Key(r)], !.todo = Candidates \ {Key(r)},
                         !.dead = issued])
        BY <1>3, <3>2, <1>k DEF Take
      <4> QED BY <3>2, <4>1, <1>c, <1>k DEF Become, Call
    <3> QED BY <3>1, <3>2
  <2>3. cache'["plain"] = None /\ \A k \in Keys : cache'[k] \in {cache[k], None}
    BY <2>1, <1>c, <1>k
  <2>4. call'[r].floor = call[r].floor
    BY <1>3, StepKeeps DEF Step, Consume
  <2> QED BY <1>3, <2>1, <2>2, <2>3, <2>4, <1>c, <1>q, <1>v DEF Step, Consume
<1>4. ASSUME NEW r \in Requests, Get(r) PROVE StorageFreshInv'
  <2>1. cache' = cache /\ issued' = issued /\ spent' = spent
    BY <1>4 DEF Get
  <2>2. \/ call'[r].row = None
        \/ Visible("plain") /\ call'[r].row = cache["plain"] /\ call'[r].at = "del"
    BY <1>4, <1>b, <1>k DEF Get
  <2>3. call'[r].floor = call[r].floor
    BY <1>4, StepKeeps DEF Step, Consume
  <2> QED BY <1>4, <2>1, <2>2, <2>3, <1>q, <1>v DEF Step, Consume
<1>5. ASSUME NEW r \in Requests, Del(r) PROVE StorageFreshInv'
  <2>1. /\ cache' = [cache EXCEPT !["plain"] = None] /\ issued' = issued /\ spent' = spent
        /\ At(r, "del")
    BY <1>5, <1>k DEF Del
  <2>2. call'[r].row = call[r].row /\ call'[r].dead = issued
    BY <1>5, <1>c DEF Del, Become, Call
  <2>3. cache'["plain"] = None /\ \A k \in Keys : cache'[k] \in {cache[k], None}
    BY <2>1, <1>c, <1>k
  <2>4. call'[r].floor = call[r].floor /\ call'[r].op = call[r].op
    BY <1>5, StepKeeps DEF Step, Consume
  <2> QED BY <1>5, <2>1, <2>2, <2>3, <2>4, <1>c, <1>q, <1>f DEF Step, Consume, ReadFresh, At
<1>6. ASSUME NEW r \in Requests, Uncache(r) PROVE StorageFreshInv'
  <2>1. PICK k \in call[r].todo :
          /\ cache' = [cache EXCEPT ![k] = None]
          /\ Become(r, [call[r] EXCEPT !.todo = @ \ {k},
                                       !.at = IF call[r].todo = {k} THEN "gate" ELSE @])
    BY <1>6 DEF Uncache
  <2>2. At(r, "uncache") /\ issued' = issued /\ spent' = spent
    BY <1>6 DEF Uncache
  <2>3. call'[r].row = call[r].row /\ call'[r].dead = call[r].dead
    BY <2>1, <1>c DEF Become, Call
  <2>4. \A l \in Keys : cache'[l] \in {cache[l], None}
    BY <2>1, <1>c DEF Call
  <2>5. call'[r].floor = call[r].floor /\ call'[r].op = call[r].op
    BY <1>6, StepKeeps DEF Step, Consume
  <2>6. call'[r].op = "consume" /\ call'[r].row # None =>
          call'[r].dead <= issued /\ (cache'["plain"] # None => call'[r].dead < cache'["plain"].gen)
    BY <2>2, <2>3, <2>4, <2>5, <1>f, <1>k DEF Emptied, At
  <2> QED BY <1>6, <2>2, <2>3, <2>4, <2>5, <2>6, <1>q, <1>f, <1>s
          DEF Step, Consume, ReadFresh, CacheStages, At
<1>7. ASSUME NEW r \in Requests, Gate(r) PROVE StorageFreshInv'
  <2>1. /\ cache' = cache /\ issued' = issued /\ At(r, "gate") /\ call[r].op = "consume"
        /\ call'[r].at = "done" /\ call'[r].row \in {None, call[r].row}
    BY <1>7, <1>s, <1>c DEF Gate, Keep, Become, At, CacheStages, Call
  <2>2. \/ spent' = spent
        \/ spent' = call[r].dead /\ call[r].row # None /\ call[r].dead > spent
    BY <1>7 DEF Gate
  <2>3. EntryFresh' /\ spent <= spent'
    BY <2>1, <2>2, <1>c, <1>e, <1>f DEF EntryFresh, Emptied, At
  <2>4. call'[r].floor = call[r].floor /\ call'[r].op = call[r].op
        /\ \A q \in Requests : q # r => call'[q] = call[q]
    BY <1>7, StepKeeps DEF Step, Consume
  <2>5. Emptied(call[r])'
    BY <2>1 DEF Emptied
  <2> QED BY <2>1, <2>3, <2>4, <2>5, <1>f, FrameStorageFresh DEF ReadFresh, At
<1>8. ASSUME NEW r \in Requests, Fill(r) PROVE StorageFreshInv'
  <2>1. call[r].op = "create"
    BY <1>8, <1>s DEF Fill, At, CacheStages
  <2>2. /\ issued' = issued + 1 /\ spent' = spent /\ cache'["hashed"] = cache["hashed"]
        /\ cache'["plain"] = cache["plain"] \/ cache'["plain"].gen = issued + 1
    BY <1>8, <1>c, <1>u, <1>k DEF Fill, Keys
  <2>3. call'[r].floor = call[r].floor /\ call'[r].op = call[r].op
        /\ \A q \in Requests : q # r => call'[q] = call[q]
    BY <1>8, StepKeeps DEF Step
  <2>4. EntryFresh'
    BY <2>2, <1>c, <1>e DEF EntryFresh
  <2>5. \A q \in Requests : ReadFresh(call[q])'
    BY <2>1, <2>2, <2>3, <1>f DEF ReadFresh
  <2>6. \A q \in Requests : call[q].dead <= issued =>
          call[q].dead <= issued + 1 /\ call[q].dead < issued + 1
    BY <1>c, <1>f
  <2>7. \A q \in Requests : Emptied(call[q])'
    BY <2>1, <2>2, <2>3, <2>6, <1>f DEF Emptied
  <2> QED BY <2>4, <2>5, <2>7 DEF StorageFreshInv
<1>9. ASSUME NEW r \in Requests, Lookup(r) PROVE StorageFreshInv'
  <2>1. call[r].op = "find" /\ cache' = cache /\ issued' = issued /\ spent' = spent
    BY <1>9, <1>s DEF Lookup, At, CacheStages
  <2>2. \/ Visible("plain") /\ call'[r].row = cache["plain"]
        \/ call'[r].row = None \/ call'[r].row = call[r].row
    BY <1>9, <1>b, <1>k DEF Lookup
  <2>3. call'[r].floor = call[r].floor /\ call'[r].op = call[r].op
    BY <1>9, StepKeeps DEF Step
  <2> QED BY <1>9, <2>1, <2>2, <2>3, <1>q, <1>f, <1>v DEF Step, ReadFresh
\* A delete has emptied the storage before anything counts as spent.
<1>10. ASSUME NEW r \in Requests, Evict(r) PROVE StorageFreshInv'
  <2>1. /\ call[r].op = "delete" /\ issued' = issued /\ spent' = issued
        /\ cache' = [cache EXCEPT !["plain"] = None]
    BY <1>10, <1>s, <1>u, <1>k DEF Evict, At, CacheStages
  <2>2. cache'["plain"] = None /\ \A k \in Keys : cache'[k] \in {cache[k], None}
    BY <2>1, <1>c, <1>k
  <2>3. EntryFresh' /\ spent <= spent'
    BY <2>1, <2>2, <1>c, <1>e, <1>k DEF EntryFresh
  <2>4. call'[r].floor = call[r].floor /\ call'[r].op = call[r].op
        /\ \A q \in Requests : q # r => call'[q] = call[q]
    BY <1>10, StepKeeps DEF Step
  <2>5. Emptied(call[r])'
    BY <2>1, <2>4 DEF Emptied
  <2> QED BY <2>1, <2>2, <2>3, <2>4, <2>5, <1>f, FrameStorageFresh
<1>11. ASSUME NEW p \in Processes, Crash(p) PROVE StorageFreshInv'
  <2>1. \A r \in Requests : \/ call'[r] = call[r]
                            \/ /\ call'[r].at = "failed" /\ call'[r].floor = call[r].floor
                               /\ call'[r].op = call[r].op /\ call'[r].row = call[r].row
    BY <1>11, <1>c DEF Crash, Call
  <2>2. cache' = cache /\ issued' = issued /\ spent' = spent
    BY <1>11 DEF Crash
  <2> QED BY <2>1, <2>2, <1>f, <1>e DEF StorageFreshInv, EntryFresh, ReadFresh, Emptied
<1>12. ASSUME NEW r \in Requests,
              Select(r) \/ Claim(r) \/ Purge(r) \/ Insert(r) \/ Find(r) \/ Cleanup(r)
                \/ Probe(r) \/ Erase(r) \/ Fetch(r) \/ Refill(r) \/ Amend(r)
       PROVE  StorageFreshInv'
  BY <1>12, <1>s DEF Select, Claim, Purge, Insert, Find, Cleanup, Probe, Erase, Fetch, Refill,
                     Amend, At, CacheStages
<1>13. CASE Tick \/ Idle \/ UNCHANGED vars
  BY <1>13 DEF Tick, Idle, vars, StorageFreshInv, EntryFresh, ReadFresh, Emptied
<1> QED
  BY <1>1, <1>2, <1>3, <1>4, <1>5, <1>6, <1>7, <1>8, <1>9, <1>10, <1>11, <1>12, <1>13
  DEF Next, Step, Consume

\* Nothing issued before a finished consume or delete can be redeemed by a request
\* that starts after it, in the secondary storage under one key.
THEOREM NoReplayInStorage == Spec => [](TakesAtomic /\ ~Hashed => NoReplay)
<1> DEFINE Inv == TypeOK /\ (TakesAtomic => CacheInv)
                         /\ (TakesAtomic /\ ~Hashed => StorageFreshInv)
<1>1. Inv => (TakesAtomic /\ ~Hashed => NoReplay)
  BY DEF StorageFreshInv, ReadFresh, NoReplay, Won, At
<1>2. Init => Inv
  BY InitTypeOK, InitCache, InitStorageFresh
<1>3. Inv /\ [Next]_vars => Inv'
  BY StepTypeOK, StepCache, StepStorageFresh, DeployFixed
  DEF TakesAtomic, UsesTable, Storage, NoUpdates, HasGetAndDelete, OneProcess, Ops, Home, Hashed
<1> HIDE DEF Inv
<1> QED BY <1>1, <1>2, <1>3, PTL DEF Spec

\* With one store and one key, a find that starts after a consume or a delete has
\* finished does not see a value from before it.
THEOREM FindsFresh == Spec => [](~Hashed /\ (UsesTable \/ TakesAtomic) => FindFresh)
<1> DEFINE InTable == UsesTable /\ ~Hashed
           InCache == TakesAtomic /\ ~Hashed
           Inv == /\ TypeOK
                  /\ InTable => OwnershipInv /\ ReplayInv
                  /\ InTable /\ ~UsesCache => FindInv
                  /\ TakesAtomic => CacheInv
                  /\ InCache => StorageFreshInv
<1>1. Inv => (~Hashed /\ (UsesTable \/ TakesAtomic) => FindFresh)
  BY DEF FindInv, FindKnows, StorageFreshInv, ReadFresh, FindFresh, Found, At
<1>2. Init => Inv
  <2>1. Init => FindInv
    BY DEF Init, FindInv, FindKnows, NoCall
  <2> QED BY <2>1, InitTypeOK, InitOwnership, InitReplay, InitCache, InitStorageFresh
<1>3. Inv /\ [Next]_vars => Inv'
  BY StepTypeOK, StepOwnership, StepReplay, StepFind, StepCache, StepStorageFresh, DeployFixed
  DEF TakesAtomic, UsesTable, UsesCache, Storage, NoUpdates, HasGetAndDelete, OneProcess, Ops,
      Home, Hashed
<1> HIDE DEF Inv
<1> QED BY <1>1, <1>2, <1>3, PTL DEF Spec

-----------------------------------------------------------------------------
(***************************************************************************)
(* The store implements SingleUse wherever taking is atomic: in the table  *)
(* (with the cache beside it or not, with updates or not), and in the      *)
(* secondary storage under the conditions above. A claim moves a value     *)
(* from the store to a hand, where it stays live; the gate redeems it, or  *)
(* discards it when it has expired; a request that fails drops it.         *)
(***************************************************************************)
InHandSteps == {"purge", "del", "uncache", "gate"}
Holder(r) == call[r].op = "consume" /\ call[r].at \in InHandSteps /\ call[r].row.gen # 0
Live == InStore \cup InHand
Redeemed == {<<r, call[r].row.gen>> : r \in {q \in Requests : Won(q)}}
Sound == \/ UsesTable /\ OwnershipInv
         \/ TakesAtomic /\ CacheInv

LEMMA LiveIs ==
  ASSUME NEW g
  PROVE  g \in Live <=> \/ g \in InStore
                        \/ \E r \in Requests : Holder(r) /\ g = call[r].row.gen
  BY DEF Live, InHand, Holder, InHandSteps

LEMMA LiveIsNext ==
  ASSUME NEW g
  PROVE  g \in Live' <=> \/ g \in InStore'
                         \/ \E r \in Requests : Holder(r)' /\ g = call'[r].row.gen
  BY DEF Live, InHand, Holder, InHandSteps

\* Consumes are where consumes are, whatever the storage.
LEMMA ConsumesKnown ==
  ASSUME Sound, NEW r \in Requests
  PROVE  IF call[r].op = "consume" THEN call[r].at \in OnlyConsume \cup Ended
                                   ELSE call[r].at \notin OnlyConsume
<1>1. CASE UsesTable /\ OwnershipInv
  BY <1>1 DEF OwnershipInv, StagesOK, StagesOf, ConsumeStages, OnlyConsume, Ended
<1>2. CASE TakesAtomic /\ CacheInv
  BY <1>2 DEF CacheInv, CacheStagesOK, CacheStages, OnlyConsume, Ended
<1> QED BY <1>1, <1>2 DEF Sound

\* Nothing gets into the store but what a create puts there.
LEMMA StoreShrinks ==
  ASSUME TypeOK, Sound, NEW r \in Requests, Step(r) \/ Fail(r), ~Insert(r), ~Fill(r)
  PROVE  issued' = issued /\ InStore' \subseteq InStore
<1>d. UsesTable' = UsesTable
  BY DeployFixed DEF Next, UsesTable, Storage
<1>i. issued' = issued
  BY DEF Step, Consume, Enter, Select, Claim, Purge, Take, Get, Del, Uncache, Gate,
         Lookup, Find, Cleanup, Evict, Probe, Erase, Fetch, Refill, Amend, Fail
<1>1. CASE UsesTable /\ OwnershipInv
  <2>1. CASE Amend(r)
    <3>1. \A y \in table' : \E x \in table : y.gen = x.gen
      BY <2>1, AmendsRows DEF TypeOK, Row
    <3> QED BY <3>1, <1>1, <1>d, <1>i DEF InStore
  <2>2. CASE ~Amend(r)
    <3>1. table' \subseteq table
      BY <2>2 DEF Step, Consume, Enter, Select, Claim, Purge, Take, Get, Del, Uncache, Gate,
                  Lookup, Find, Cleanup, Evict, Probe, Erase, Fetch, Refill, Fail
    <3> QED BY <3>1, <1>1, <1>d, <1>i DEF InStore
  <2> QED BY <2>1, <2>2
<1>2. CASE TakesAtomic /\ CacheInv
  <2>1. CacheStages(call[r]) /\ ~UsesTable
    BY <1>2 DEF CacheInv, CacheStagesOK, TakesAtomic
  <2>2. ~Refill(r)
    BY <2>1 DEF Refill, At, CacheStages
  <2>3. cache' = cache \/ \E k \in Keys : cache' = [cache EXCEPT ![k] = None]
    <3>1. Key(r) \in Keys /\ Stored \in Keys
      BY HelpersTyped
    <3>2. call[r].todo \subseteq Keys
      BY DEF TypeOK, Call
    <3> QED BY <2>2, <3>1, <3>2
            DEF Step, Consume, Enter, Select, Claim, Purge, Take, Get, Del, Uncache, Gate,
                Lookup, Find, Cleanup, Evict, Probe, Erase, Fetch, Amend, Fail
  <2>4. \A k \in Keys : cache'[k].gen \in {cache[k].gen, 0}
    <3>1. cache \in [Keys -> Entry] /\ None.gen = 0
      BY DEF TypeOK, None
    <3>2. \A k \in Keys : cache'[k] \in {cache[k], None}
      BY <2>3, <3>1
    <3> QED BY <3>1, <3>2
  <2> QED BY <2>1, <2>4, <1>d, <1>i DEF InStore
<1> QED BY <1>1, <1>2 DEF Sound

\* Before its gate, a request answers nobody, and holds what it held or what was in
\* the store.
LEMMA HandMoves ==
  ASSUME TypeOK, Sound, NEW r \in Requests, Step(r) \/ Fail(r), ~Gate(r)
  PROVE  /\ ~Won(r) /\ ~Won(r)'
         /\ Holder(r)' => \/ Holder(r) /\ call'[r].row = call[r].row
                          \/ call'[r].row.gen \in InStore
<1> DEFINE Fine == /\ ~Won(r)'
                   /\ Holder(r)' => \/ Holder(r) /\ call'[r].row = call[r].row
                                    \/ call'[r].row.gen \in InStore
<1>c. call \in [Requests -> Call] /\ call[r] \in Call
  BY DEF TypeOK
<1>s. IF call[r].op = "consume" THEN call[r].at \in OnlyConsume \cup Ended
                                ELSE call[r].at \notin OnlyConsume
  BY ConsumesKnown
<1>n. None.gen = 0
  BY DEF None
<1>o. call'[r].op = call[r].op
  BY StepKeeps
<1>w. ~Won(r)
  BY DEF Won, At, Step, Consume, Enter, Select, Claim, Purge, Take, Get, Del, Uncache, Gate,
         Insert, Fill, Lookup, Find, Cleanup, Evict, Probe, Erase, Fetch, Refill, Amend,
         Fail, Working, Waiting
<1> SUFFICES Fine BY <1>w
<1>1. CASE Enter(r)
  <2>1. call'[r].at \in {"select", "get"}
    BY <1>1, <1>c DEF Enter, Goto, Become, Call
  <2> QED BY <2>1 DEF Won, Holder, InHandSteps, At
<1>2. ASSUME NEW a \in {"enter", "take"}, NextTry(r, a, "gate") PROVE Fine
  <2>1. call'[r].row = None /\ call'[r].at # "done"
    BY <1>2, <1>c DEF NextTry, Become, Call
  <2> QED BY <2>1, <1>n DEF Won, Holder, At
<1>3. CASE Select(r)
  <2>1. ASSUME NEW x, Keep(r, "claim", x) PROVE Fine
    <3>1. call'[r].at = "claim"
      BY <2>1, <1>c DEF Keep, Become, Call
    <3> QED BY <3>1 DEF Won, Holder, InHandSteps, At
  <2> QED BY <2>1, <1>2, <1>3 DEF Select
<1>4. CASE Claim(r)
  <2>1. CASE NextTry(r, "enter", "gate")
    BY <2>1, <1>2
  <2>2. ASSUME NEW x \in table, Keep(r, "purge", AsEntry(x)) PROVE Fine
    <3>1. UsesTable
      BY <1>4, <1>s DEF Claim, At, Sound, CacheInv, CacheStagesOK, CacheStages
    <3>2. call'[r].at = "purge" /\ call'[r].row.gen = x.gen
      BY <2>2, <1>c DEF Keep, Become, AsEntry, Call
    <3> QED BY <3>1, <3>2 DEF Won, At, InStore
  <2> QED BY <2>1, <2>2, <1>4 DEF Claim
<1>5. CASE Purge(r)
  <2>1. call'[r].at \in {"uncache", "gate"} /\ call'[r].row = call[r].row
    BY <1>5, <1>c DEF Purge, Become, Call
  <2> QED BY <2>1, <1>5, <1>o DEF Purge, Won, Holder, InHandSteps, At
<1>6. CASE Take(r) \/ Get(r)
  <2>1. ~UsesTable /\ Key(r) \in Keys
    BY <1>6, <1>s, HelpersTyped DEF Take, Get, At, Sound, OwnershipInv, StagesOK, StagesOf, ConsumeStages,
                      OnlyConsume, TakesAtomic
  <2>2. ASSUME NEW c, Become(r, c), c.row = cache[Key(r)], c.at # "done" PROVE Fine
    <3>1. call'[r] = c
      BY <2>2, <1>c DEF Become
    <3> QED BY <3>1, <2>1, <2>2 DEF Won, At, Holder, InStore
  <2>3. CASE NextTry(r, "enter", "gate") \/ NextTry(r, "take", "gate")
    BY <2>3, <1>2
  <2>4. CASE Get(r) /\ Keep(r, "del", cache[Key(r)])
    BY <2>2, <2>4, <1>c DEF Keep, Call
  <2>5. CASE Take(r) /\ Visible(Key(r))
    <3> DEFINE c == [call[r] EXCEPT
                       !.at   = IF Candidates = {Key(r)} THEN "gate" ELSE "uncache",
                       !.row  = cache[Key(r)], !.todo = Candidates \ {Key(r)},
                       !.dead = issued]
    <3>1. Become(r, c)
      BY <2>5 DEF Take
    <3>2. c.row = cache[Key(r)] /\ c.at # "done"
      BY <1>c DEF Call
    <3> HIDE DEF c
    <3> QED BY <3>1, <3>2, <2>2
  <2> QED BY <1>6, <2>3, <2>4, <2>5 DEF Take, Get
<1>7. CASE Del(r)
  <2>1. call'[r].at \in {"uncache", "gate"} /\ call'[r].row = call[r].row
    BY <1>7, <1>c DEF Del, Become, Call
  <2> QED BY <2>1, <1>7, <1>o DEF Del, Won, Holder, InHandSteps, At
<1>8. CASE Uncache(r)
  <2>1. call'[r].at \in {"uncache", "gate"} /\ call'[r].row = call[r].row
    BY <1>8, <1>c DEF Uncache, Become, At, Call
  <2> QED BY <2>1, <1>8, <1>o DEF Uncache, Won, Holder, InHandSteps, At
<1>9. CASE Fail(r)
  <2>1. call'[r].at = "failed"
    BY <1>9, <1>c DEF Fail, Goto, Become, Call
  <2> QED BY <2>1 DEF Won, Holder, InHandSteps, At
<1>10. CASE call[r].op # "consume"
  BY <1>10, <1>o DEF Won, Holder
<1>11. ASSUME Insert(r) \/ Fill(r) \/ Lookup(r) \/ Find(r) \/ Cleanup(r) \/ Evict(r) \/ Probe(r)
                \/ Erase(r) \/ Fetch(r) \/ Refill(r) \/ Amend(r)
       PROVE  call[r].op # "consume"
  BY <1>11, <1>s DEF Insert, Fill, Lookup, Find, Cleanup, Evict, Probe, Erase, Fetch, Refill, Amend,
                     At, OnlyConsume, Ended
<1> HIDE DEF Fine
<1> QED BY <1>1, <1>3, <1>4, <1>5, <1>6, <1>7, <1>8, <1>9, <1>10, <1>11 DEF Step, Consume

\* A step that issues nothing discards some values, or stutters.
LEMMA DiscardsSome ==
  ASSUME TypeOK, Sound, NEW r \in Requests, Step(r) \/ Fail(r),
         ~Insert(r), ~Fill(r), ~Gate(r)
  PROVE  Promise!Next
<1>1. issued' = issued /\ InStore' \subseteq InStore
  BY StoreShrinks
<1>2. \A q \in Requests : q # r => call'[q] = call[q]
  BY StepKeeps
<1>3. Redeemed' = Redeemed
  BY <1>2, HandMoves DEF Redeemed, Won, At
<1>4. \A q \in Requests : Holder(q)' => call'[q].row.gen \in Live
  <2> SUFFICES ASSUME NEW q \in Requests, Holder(q)' PROVE call'[q].row.gen \in Live
    OBVIOUS
  <2>1. \/ Holder(q) /\ call'[q].row = call[q].row
        \/ call'[q].row.gen \in InStore
    BY <1>2, HandMoves DEF Holder
  <2> QED BY <2>1, LiveIs
<1>5. Live' \subseteq Live
  BY <1>1, <1>4, LiveIs, LiveIsNext
<1>6. Promise!Discard
  BY <1>1, <1>3, <1>5 DEF Live, Redeemed, Promise!Discard
<1> QED BY <1>6 DEF Promise!Next

\* The gate redeems the value in hand: it is in no other hand and not in the store.
LEMMA Redeems ==
  ASSUME TypeOK, Sound, NEW r \in Requests, Gate(r)
  PROVE  Promise!Next
<1> DEFINE g == call[r].row.gen
<1>c. call \in [Requests -> Call] /\ call[r] \in Call
  BY DEF TypeOK
<1>1. issued' = issued /\ InStore' \subseteq InStore /\ At(r, "gate")
  BY StoreShrinks DEF Gate, Step, Consume, At, Insert, Fill
<1>2. call[r].op = "consume" /\ call'[r].op = "consume" /\ call'[r].at = "done"
      /\ call'[r].row \in {None, call[r].row}
      /\ \A q \in Requests : q # r => call'[q] = call[q]
  BY <1>c, <1>1, ConsumesKnown DEF Gate, Keep, Become, At, OnlyConsume, Call
<1>3. ~Won(r) /\ ~Holder(r)'
  BY <1>1, <1>2 DEF Won, Holder, InHandSteps, At
<1>4. Live' \subseteq Live
  BY <1>1, <1>2, <1>3, LiveIs, LiveIsNext DEF Holder
<1>5. CASE call'[r].row = None
  <2>1. Redeemed' = Redeemed
    BY <1>2, <1>3, <1>5 DEF Redeemed, Won, At
  <2> QED BY <1>1, <1>4, <2>1 DEF Live, Redeemed, Promise!Discard, Promise!Next
<1>6. CASE call'[r].row = call[r].row /\ call[r].row # None
  <2>1. /\ g # 0 /\ g \notin InStore'
        /\ \A q \in Requests : q # r /\ Holder(q) => call[q].row.gen # g
    <3>n. None.gen = 0
      BY DEF None
    <3>d. UsesTable' = UsesTable
      BY <1>1, DeployFixed DEF Next, Step, Consume, UsesTable, Storage
    <3>1. CASE UsesTable /\ OwnershipInv
      <4>1. g \in 1..issued /\ \A x \in table : x.gen # g
        BY <3>1, <1>1, <1>2, <1>6 DEF OwnershipInv, HeldLeft, Holding1, At
      <4>2. g \notin InStore
        BY <3>1, <4>1 DEF InStore
      <4>3. ASSUME NEW q \in Requests, q # r, Holder(q) PROVE call[q].row.gen # g
        <5>1. Holding1(call[q]) /\ Holding1(call[r])
          BY <4>3, <3>1, <3>n, <1>1, <1>2, <1>6
          DEF Holder, InHandSteps, Holding1, At, OwnershipInv, StagesOK, StagesOf, ConsumeStages
        <5> QED BY <4>3, <3>1, <5>1 DEF OwnershipInv, HeldOnce
      <4> QED BY <4>1, <4>2, <4>3, <1>1
    <3>2. CASE TakesAtomic /\ CacheInv
      <4>1. Taken(call[r]) /\ g \in 1..issued /\ \A k \in Keys : cache[k].gen # g
        BY <3>2, <1>1, <1>2, <1>6 DEF CacheInv, TakenOut, Taken, At
      <4>2. g \notin InStore
        BY <3>2, <4>1 DEF TakesAtomic, InStore
      <4>3. ASSUME NEW q \in Requests, q # r, Holder(q) PROVE call[q].row.gen # g
        <5>1. Taken(call[q])
          BY <4>3, <3>2, <3>n
          DEF Holder, InHandSteps, Taken, CacheInv, CacheStagesOK, CacheStages
        <5> QED BY <4>1, <4>3, <3>2, <5>1 DEF CacheInv, TakenOnce
      <4> QED BY <4>1, <4>2, <4>3, <1>1
    <3> QED BY <3>1, <3>2 DEF Sound
  <2>2. Holder(r) /\ g \in Live
    BY <2>1, <1>1, <1>2, LiveIs DEF Holder, InHandSteps, At
  <2>3. InStore' = InStore
    <3>1. table' = table /\ cache' = cache /\ UsesTable' = UsesTable
      BY <1>1, DeployFixed DEF Gate, Next, Step, Consume, UsesTable, Storage
    <3> QED BY <3>1 DEF InStore
  <2>4. Live' = Live \ {g}
    <3>1. \A x : x \in Live' <=> x \in Live /\ x # g
      <4> SUFFICES ASSUME NEW x PROVE x \in Live' <=> x \in Live /\ x # g
        OBVIOUS
      <4>1. \A q \in Requests : Holder(q)' <=> q # r /\ Holder(q)
        BY <1>2, <1>3 DEF Holder
      <4>2. \A q \in Requests : q # r => call'[q].row.gen = call[q].row.gen
        BY <1>2
      <4> QED BY <4>1, <4>2, <2>1, <2>2, <2>3, LiveIs, LiveIsNext
    <3> QED BY <3>1
  <2>5. Redeemed' = Redeemed \cup {<<r, g>>}
    <3>1. \A q \in Requests : Won(q)' <=> q = r \/ Won(q)
      BY <1>2, <1>3, <1>6 DEF Won, At
    <3>2. \A q \in Requests : Won(q)' => call'[q].row.gen = call[q].row.gen
      BY <1>2, <1>6
    <3> QED BY <3>1, <3>2 DEF Redeemed
  <2>6. PICK x : x = g
    OBVIOUS
  <2> HIDE DEF g
  <2>7. x \in Live /\ Promise!Redeem(r, x)
    BY <1>1, <2>2, <2>4, <2>5, <2>6 DEF Live, Redeemed, Promise!Redeem
  <2> QED BY <2>7 DEF Live, Promise!Next
<1> QED BY <1>2, <1>5, <1>6

\* A create issues: into the table, or into the secondary storage, where it may also
\* arrive already expired. The cache beside the table issues nothing.
LEMMA Issues ==
  ASSUME TypeOK, Sound, NEW r \in Requests, Insert(r) \/ Fill(r)
  PROVE  Promise!Next
<1>c. call \in [Requests -> Call] /\ call[r] \in Call /\ issued \in Nat
  BY DEF TypeOK
<1>d. UsesTable' = UsesTable
  BY DeployFixed DEF Next, Step, UsesTable, Storage
<1>1. call[r].op # "consume"
  BY ConsumesKnown DEF Insert, Fill, At, OnlyConsume, Ended
<1>2. call'[r].op # "consume" /\ \A q \in Requests : q # r => call'[q] = call[q]
  BY <1>1, StepKeeps DEF Step
<1>3. Redeemed' = Redeemed
  <2>1. \A q \in Requests : Won(q)' <=> Won(q)
    BY <1>1, <1>2 DEF Won, At
  <2>2. \A q \in Requests : Won(q) => call'[q] = call[q]
    BY <1>1, <1>2 DEF Won
  <2> QED BY <2>1, <2>2 DEF Redeemed
<1>4. \A q \in Requests : Holder(q)' => Holder(q) /\ call'[q] = call[q]
  BY <1>2 DEF Holder
<1>5. ASSUME issued' = issued + 1, InStore' \subseteq InStore \cup {issued + 1}
      PROVE  Promise!Next
  <2>1. Live' \subseteq Live \cup {issued + 1}
    BY <1>4, <1>5, LiveIs, LiveIsNext
  <2>2. Promise!Issue
    BY <1>3, <1>5, <2>1 DEF Live, Redeemed, Promise!Issue
  <2> QED BY <2>2 DEF Promise!Next
<1>6. CASE Insert(r)
  <2>1. UsesTable
    BY <1>6 DEF Insert, At, Sound, TakesAtomic, CacheInv, CacheStagesOK, CacheStages
  <2> DEFINE x == [gen |-> issued + 1, key |-> Stored, made |-> call[r].began,
                   exp |-> Expiry(r)]
  <2>2. table' = table \cup {x} /\ x.gen = issued + 1 /\ issued' = issued + 1
    BY <1>6 DEF Insert
  <2> HIDE DEF x
  <2>3. InStore' \subseteq InStore \cup {issued + 1}
    BY <1>d, <2>1, <2>2 DEF InStore
  <2> QED BY <1>5, <2>2, <2>3
<1>7. CASE Fill(r) /\ UsesTable
  <2>1. issued' = issued /\ table' = table
    BY <1>7 DEF Fill
  <2>2. InStore' = InStore
    BY <1>7, <1>d, <2>1 DEF InStore
  <2>3. Live' \subseteq Live
    BY <1>4, <2>2, LiveIs, LiveIsNext
  <2>4. Promise!Discard
    BY <1>3, <2>1, <2>3 DEF Live, Redeemed, Promise!Discard
  <2> QED BY <2>4 DEF Promise!Next
<1>8. CASE Fill(r) /\ ~UsesTable
  <2> DEFINE x == [gen |-> issued + 1, exp |-> Expiry(r)]
  <2>1. /\ cache' \in {cache, [cache EXCEPT ![Stored] = x]} /\ issued' = issued + 1
        /\ x.gen = issued + 1
    BY <1>8 DEF Fill
  <2> HIDE DEF x
  <2>2. \A k \in Keys : cache'[k] = cache[k] \/ cache'[k].gen = issued + 1
    BY <2>1, HelpersTyped DEF TypeOK
  <2>3. InStore' \subseteq InStore \cup {issued + 1}
    BY <1>8, <1>d, <2>2 DEF InStore
  <2> QED BY <1>5, <2>1, <2>3
<1> QED BY <1>6, <1>7, <1>8

LEMMA RefinesInit == Init => Promise!Init
<1> SUFFICES ASSUME Init PROVE Promise!Init OBVIOUS
<1>1. /\ issued \in {0, 1} /\ \A x \in table : x.gen = 1 /\ issued = 1
      /\ \A k \in Keys : cache[k].gen \in {0, issued}
  BY DEF Init, None
<1>2. \A r \in Requests : ~Holder(r) /\ ~Won(r)
  BY DEF Init, NoCall, Holder, Won
<1>3. Redeemed = {}
  BY <1>2 DEF Redeemed
<1>4. InStore \subseteq 1..issued
  BY <1>1 DEF InStore
<1>5. Live \subseteq 1..issued
  BY <1>2, <1>4, LiveIs
<1> QED BY <1>1, <1>3, <1>5 DEF Live, Redeemed, Promise!Init

LEMMA RefinesNext ==
  TypeOK /\ Sound /\ [Next]_vars => [Promise!Next]_Promise!vars
<1> SUFFICES ASSUME TypeOK, Sound, [Next]_vars PROVE [Promise!Next]_Promise!vars OBVIOUS
<1>c. call \in [Requests -> Call] /\ \A r \in Requests : call[r] \in Call
  BY DEF TypeOK
<1>d. UsesTable' = UsesTable
  BY DeployFixed DEF UsesTable, Storage
<1>1. ASSUME NEW r \in Requests, NEW op \in Ops[r], Start(r, op)
      PROVE  UNCHANGED Promise!vars
  <2>1. /\ call[r].at = "idle" /\ table' = table /\ cache' = cache /\ issued' = issued
        /\ call'[r].row = None /\ \A q \in Requests : q # r => call'[q] = call[q]
    BY <1>1, <1>c DEF Start, At, Become, NoCall
  <2>2. ~Won(r) /\ ~Won(r)' /\ ~Holder(r) /\ ~Holder(r)'
    BY <2>1 DEF Won, Holder, At, InHandSteps, None
  <2>3. Redeemed' = Redeemed
    BY <2>1, <2>2 DEF Redeemed, Won, At
  <2>4. InStore' = InStore
    BY <2>1, <1>d DEF InStore
  <2>5. \A q \in Requests : (Holder(q)' <=> Holder(q)) /\ (Holder(q) => call'[q] = call[q])
    BY <2>1, <2>2 DEF Holder
  <2>6. Live' = Live
    BY <2>4, <2>5, LiveIs, LiveIsNext, ZenonT(40)
  <2> QED BY <2>1, <2>3, <2>6 DEF Live, Redeemed, Promise!vars
<1>2. ASSUME NEW r \in Requests, Step(r) \/ Fail(r) PROVE Promise!Next
  BY <1>2, DiscardsSome, Redeems, Issues
\* The values in the hands of a process that dies are discarded.
<1>3. ASSUME NEW p \in Processes, Crash(p) PROVE Promise!Next
  <2>1. \A q \in Requests : \/ call'[q] = call[q]
                            \/ call'[q].at = "failed" /\ call[q].at # "done"
    BY <1>3, <1>c DEF Crash, Waiting, Working, Call
  <2>2. table' = table /\ cache' = cache /\ issued' = issued
    BY <1>3 DEF Crash
  <2>3. \A q \in Requests : (Won(q)' <=> Won(q)) /\ (Won(q) => call'[q] = call[q])
    BY <2>1 DEF Won, At
  <2>4. \A q \in Requests : Holder(q)' => Holder(q) /\ call'[q] = call[q]
    BY <2>1 DEF Holder, InHandSteps
  <2>5. InStore' = InStore
    BY <2>2, <1>d DEF InStore
  <2>6. Redeemed' = Redeemed
    BY <2>3 DEF Redeemed
  <2>7. Live' \subseteq Live
    BY <2>4, <2>5, LiveIs, LiveIsNext
  <2>8. Promise!Discard
    BY <2>2, <2>6, <2>7 DEF Live, Redeemed, Promise!Discard
  <2> QED BY <2>8 DEF Promise!Next
<1>4. CASE Tick \/ Idle \/ UNCHANGED vars
  <2>1. UNCHANGED <<deploy, table, cache, call, issued>>
    BY <1>4 DEF Tick, Idle, vars
  <2>2. Live' = Live /\ Redeemed' = Redeemed
    BY <2>1, <1>d DEF Live, InStore, InHand, Redeemed, Won, At
  <2> QED BY <2>1, <2>2 DEF Live, Redeemed, Promise!vars
<1> QED BY <1>1, <1>2, <1>3, <1>4 DEF Next

\* The store keeps the single-use promise for any number of requests and processes:
\* in the database, and in the secondary storage where taking is atomic.
THEOREM Implements == Spec /\ (UsesTable \/ TakesAtomic) => ImplementsSingleUse
<1> DEFINE Inv == TypeOK /\ Sound
<1>1. Init /\ (UsesTable \/ TakesAtomic) => Inv
  BY InitTypeOK, InitOwnership, InitCache DEF Sound
<1>2. Inv /\ [Next]_vars => Inv'
  BY StepTypeOK, StepOwnership, StepCache, DeployFixed
  DEF Sound, TakesAtomic, UsesTable, Storage, NoUpdates, HasGetAndDelete, OneProcess, Ops, Home
<1>3. Inv /\ [Next]_vars => [Promise!Next]_Promise!vars
  BY RefinesNext
<1>4. Init => Promise!Init
  BY RefinesInit
<1> HIDE DEF Inv
<1> QED BY <1>1, <1>2, <1>3, <1>4, PTL DEF Spec, ImplementsSingleUse, Promise!Spec
=============================================================================
