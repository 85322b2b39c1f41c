--------------------------- MODULE FactorsProofs ---------------------------
(***************************************************************************)
(* Proofs about SessionStore and the components beside it in Factors. Of   *)
(* the sessions: the type invariant for every configuration; with the      *)
(* sessions in the database alone, that revocation and updates take effect *)
(* whatever the requests, their overlap and failures; and with a cache,    *)
(* that they do for requests that do not overlap and do not fail. Of bans, *)
(* that they hold; and of one-time codes, that they keep their terms. (The *)
(* second factor and the way into an account are in SignInProofs.)         *)
(***************************************************************************)
EXTENDS Factors, FiniteSetTheorems, TLAPS

Pcs == {"idle"} \cup Steps \cup Ended

LEMMA DeployTyped ==
  ASSUME deploy \in Deployments
  PROVE  /\ Ops \in [Requests -> SUBSET AllOps]
         /\ deploy.maxInFlight \in Nat /\ deploy.maxFailures \in Nat
  BY ConstantsAssumption DEF Deployment, Ops

\* No step changes the configuration.
LEMMA DeployFixed == [Next]_vars => deploy' = deploy
<1> SUFFICES ASSUME [Next]_vars PROVE deploy' = deploy
  OBVIOUS
<1>1. ASSUME NEW r \in Requests, CreateSession(r) \/ FindSession(r) \/ UpdateSession(r)
      PROVE  deploy' = deploy
  BY <1>1 DEF CreateSession, Insert, Enlist, Relist, Owner, Store, FindSession, Find, Read,
              UpdateSession, Merge, Write, Position, Reposition, Amend
<1>2. ASSUME NEW r \in Requests, DeleteSession(r) \/ DeleteUserSessions(r) \/ DeleteSessions(r)
      PROVE  deploy' = deploy
  BY <1>2 DEF DeleteSession, Check, Locate, Unlist, Evict, Probe, Erase, DeleteUserSessions,
              Members, Expel, Disband, EraseAll, DeleteSessions, Peek, Drop, EraseMany
<1>3. ASSUME NEW r \in Requests, ListSessions(r) \/ UpdateUser(r) \/ Fail(r)
      PROVE  deploy' = deploy
  BY <1>3 DEF ListSessions, Browse, Show, ReadAll, UpdateUser, Save, Devices, RefreshGet,
              RefreshSet, RefreshFail, Fail
<1> QED BY <1>1, <1>2, <1>3 DEF Next, Start, Step, Lose, Idle, vars

LEMMA InitTypeOK == Init => TypeOK
<1> SUFFICES ASSUME Init PROVE TypeOK OBVIOUS
<1>1. \A t \in Tokens : NoCall(t) \in Call
  BY DEF NoCall, Call, NothingHeld, Absent, Copy
<1>2. call \in [Requests -> Call]
  BY <1>1 DEF Init
<1>3. cache \in [Tokens -> Copy]
  BY DEF Init, Present, Absent, Copy
<1> QED BY <1>2, <1>3, ConstantsAssumption DEF Init, TypeOK

\* What a step may do to the state of its request without leaving its type.
LEMMA CallTyped ==
  ASSUME TypeOK, NEW r \in Requests, NEW pc \in Pcs
  PROVE  /\ Goto(r, pc) => call' \in [Requests -> Call]
         /\ \A x \in Copy : Hold(r, pc, x) => call' \in [Requests -> Call]
         /\ \A T \in SUBSET Tokens :
              /\ [call[r] EXCEPT !.at = pc, !.seen = T] \in Call
              /\ [call[r] EXCEPT !.at = pc, !.todo = T] \in Call
         /\ \A u \in SUBSET Requests : [call[r] EXCEPT !.at = pc, !.user = u] \in Call
         /\ \A h \in [Tokens -> Copy] : [call[r] EXCEPT !.at = pc, !.held = h] \in Call
<1>0. call[r] \in Call /\ call \in [Requests -> Call]
  BY DEF TypeOK
<1>p. pc \in {"idle"} \cup Steps \cup Ended
  BY DEF Pcs
<1>1. [call[r] EXCEPT !.at = pc] \in Call
  BY <1>0, <1>p DEF Call
<1>2. \A x \in Copy : [call[r] EXCEPT !.at = pc, !.held[Tok(r)] = x] \in Call
  BY <1>0, <1>p DEF Call
<1>3. \A T \in SUBSET Tokens : [call[r] EXCEPT !.at = pc, !.seen = T] \in Call
  BY <1>0, <1>p DEF Call
<1>4. \A T \in SUBSET Tokens : [call[r] EXCEPT !.at = pc, !.todo = T] \in Call
  BY <1>0, <1>p DEF Call
<1>5. \A u \in SUBSET Requests : [call[r] EXCEPT !.at = pc, !.user = u] \in Call
  BY <1>0, <1>p DEF Call
<1>6. \A h \in [Tokens -> Copy] : [call[r] EXCEPT !.at = pc, !.held = h] \in Call
  BY <1>0, <1>p DEF Call
<1>7. Goto(r, pc) => call' \in [Requests -> Call]
  BY <1>0, <1>1 DEF Goto, Become
<1>8. \A x \in Copy : Hold(r, pc, x) => call' \in [Requests -> Call]
  BY <1>0, <1>2 DEF Hold, Become
<1> QED BY <1>3, <1>4, <1>5, <1>6, <1>7, <1>8

LEMMA PcsTyped ==
  /\ Steps \subseteq Pcs /\ Ended \subseteq Pcs
  /\ "done" \in Pcs /\ "failed" \in Pcs /\ "missed" \in Pcs
  /\ \A pc \in Pcs : OrEnd(pc) \in Pcs
  BY DEF Pcs, Steps, Ended, OrEnd

LEMMA SettleTyped ==
  ASSUME NEW c \in Call
  PROVE  Settle(c) \in Call
<1>1. "done" \in Ended /\ "failed" \in Ended
  BY DEF Ended
<1>2. [c EXCEPT !.at = IF c.ok THEN "done" ELSE "failed"] \in Call
  BY <1>1 DEF Call
<1> QED BY <1>2 DEF Settle

LEMMA StepTypeOK == TypeOK /\ [Next]_vars => TypeOK'
<1> SUFFICES ASSUME TypeOK, [Next]_vars PROVE TypeOK' OBVIOUS
<1>0. /\ rows \subseteq Tokens /\ saved \subseteq Requests /\ cache \in [Tokens -> Copy]
      /\ list \subseteq Tokens /\ call \in [Requests -> Call] /\ failures \in Nat
      /\ deploy' \in Deployments
  BY DeployFixed DEF TypeOK
<1>c. \A r \in Requests : /\ call[r] \in Call /\ Tok(r) \in Tokens
                          /\ call[r].seen \subseteq Tokens /\ call[r].todo \subseteq Tokens
                          /\ call[r].user \subseteq Requests /\ call[r].at \in Pcs
                          /\ call[r].held \in [Tokens -> Copy]
  BY <1>0 DEF Call, Tok, Pcs
<1>u. UserUpdates \subseteq Requests
  BY DEF UserUpdates
<1>p. \A h \in SUBSET Requests : Present(h) \in Copy
  BY DEF Present, Copy
<1>a. Absent \in Copy
  BY DEF Absent, Copy
<1>h. \A t \in Tokens : cache[t] \in Copy /\ cache[t].has \subseteq Requests
  BY <1>0 DEF Copy
<1>b. \A r \in Requests : \A x \in Call : Become(r, x) => call' \in [Requests -> Call]
  BY <1>0 DEF Become
<1>1. ASSUME NEW r \in Requests, NEW op \in Ops[r], Start(r, op) PROVE TypeOK'
  <2>1. op \in AllOps /\ FirstStep(op) \in Steps
    BY DeployTyped DEF TypeOK, AllOps, Creates, Revokes, Updates, FirstStep, Steps
  <2>2. NoCall(Tok(r)) \in Call
    BY <1>c DEF NoCall, Call, NothingHeld, Absent, Copy
  <2>3. [NoCall(Tok(r)) EXCEPT !.op = op, !.at = FirstStep(op),
                               !.before = {q \in Requests : Done(q)}] \in Call
    BY <2>1, <2>2 DEF Call
  <2> QED BY <1>1, <1>0, <2>3, <1>b DEF Start, TypeOK
<1>2. ASSUME NEW r \in Requests, CreateSession(r) PROVE TypeOK'
  <2>p. /\ "relist" \in Pcs /\ "owner" \in Pcs /\ "store" \in Pcs /\ "done" \in Pcs
        /\ "enlist" \in Pcs
    BY DEF Pcs, Steps, Ended
  <2>1. CASE Insert(r)
    BY <2>1, <1>0, <1>c, <2>p, CallTyped DEF Insert, TypeOK
  <2>2. CASE Enlist(r)
    BY <2>2, <1>0, <1>b, <2>p, CallTyped DEF Enlist, TypeOK
  <2>3. CASE Relist(r)
    BY <2>3, <1>0, <1>c, <2>p, CallTyped DEF Relist, TypeOK
  <2>4. CASE Owner(r)
    BY <2>4, <1>0, <1>b, <1>u, <2>p, CallTyped DEF Owner, TypeOK
  <2>5. CASE Store(r)
    BY <2>5, <1>0, <1>c, <1>p, <2>p, CallTyped DEF Store, TypeOK
  <2> QED BY <1>2, <2>1, <2>2, <2>3, <2>4, <2>5 DEF CreateSession
<1>3. ASSUME NEW r \in Requests, FindSession(r) PROVE TypeOK'
  <2>p. "read" \in Pcs /\ "done" \in Pcs
    BY DEF Pcs, Steps, Ended
  <2>1. CASE Find(r)
    BY <2>1, <1>0, <1>c, <1>h, <2>p, CallTyped DEF Find, TypeOK
  <2>2. CASE Read(r)
    BY <2>2, <1>0, <1>p, <1>a, <2>p, CallTyped DEF Read, TypeOK
  <2> QED BY <1>3, <2>1, <2>2 DEF FindSession
<1>4. ASSUME NEW r \in Requests, UpdateSession(r) PROVE TypeOK'
  <2>p. /\ "write" \in Pcs /\ "position" \in Pcs /\ "reposition" \in Pcs
        /\ "amend" \in Pcs /\ "done" \in Pcs
    BY DEF Pcs, Steps, Ended
  <2>1. CASE Merge(r)
    BY <2>1, <1>0, <1>c, <1>h, <1>p, <2>p, CallTyped DEF Merge, TypeOK
  <2>2. CASE Write(r)
    BY <2>2, <1>0, <1>c, <2>p, CallTyped DEF Write, TypeOK
  <2>3. CASE Position(r)
    BY <2>3, <1>0, <1>b, <2>p, CallTyped DEF Position, TypeOK
  <2>4. CASE Reposition(r)
    BY <2>4, <1>0, <1>c, <2>p, CallTyped DEF Reposition, TypeOK
  <2>5. CASE Amend(r)
    BY <2>5, <1>0, <2>p, CallTyped DEF Amend, TypeOK
  <2> QED BY <1>4, <2>1, <2>2, <2>3, <2>4, <2>5 DEF UpdateSession
<1>5. ASSUME NEW r \in Requests, DeleteSession(r) PROVE TypeOK'
  <2>p. /\ "locate" \in Pcs /\ "evict" \in Pcs /\ "unlist" \in Pcs /\ "probe" \in Pcs
        /\ "erase" \in Pcs /\ "done" \in Pcs /\ "missed" \in Pcs /\ OrEnd("probe") \in Pcs
    BY DEF Pcs, Steps, Ended, OrEnd
  <2>1. CASE Check(r)
    BY <2>1, <1>0, <2>p, CallTyped DEF Check, TypeOK
  <2>2. CASE Locate(r)
    BY <2>2, <1>0, <1>b, <2>p, CallTyped DEF Locate, TypeOK
  <2>3. CASE Unlist(r)
    BY <2>3, <1>0, <1>c, <2>p, CallTyped DEF Unlist, TypeOK
  <2>4. CASE Evict(r)
    BY <2>4, <1>0, <1>a, <1>c, <2>p, CallTyped DEF Evict, TypeOK
  <2>5. CASE Probe(r)
    <3>1. \A pc \in Pcs : Goto(r, pc) => call' \in [Requests -> Call]
      BY CallTyped
    <3>2. (IF Tok(r) \in rows THEN "erase" ELSE "done") \in Pcs
      BY <2>p
    <3>3. call' \in [Requests -> Call]
      BY <2>5, <2>p, <3>1, <3>2 DEF Probe
    <3>4. failures' \in Nat
      BY <2>5, <1>0 DEF Probe
    <3> QED BY <2>5, <3>3, <3>4, <1>0 DEF Probe, TypeOK
  <2>6. CASE Erase(r)
    BY <2>6, <1>0, <2>p, CallTyped DEF Erase, TypeOK
  <2> QED BY <1>5, <2>1, <2>2, <2>3, <2>4, <2>5, <2>6 DEF DeleteSession
<1>6. ASSUME NEW r \in Requests, DeleteUserSessions(r) PROVE TypeOK'
  <2>p. "disband" \in Pcs /\ "expel" \in Pcs /\ "done" \in Pcs /\ OrEnd("eraseAll") \in Pcs
    BY DEF Pcs, Steps, Ended, OrEnd
  <2>1. CASE Members(r)
    BY <2>1, <1>0, <1>b, <2>p, CallTyped DEF Members, TypeOK
  <2>2. CASE Expel(r)
    <3>1. PICK t \in call[r].todo :
            /\ cache' = [cache EXCEPT ![t] = Absent]
            /\ Become(r, [call[r] EXCEPT !.at = IF call[r].todo = {t} THEN "disband" ELSE @,
                                         !.todo = @ \ {t}])
      BY <2>2 DEF Expel
    <3>2. (IF call[r].todo = {t} THEN "disband" ELSE call[r].at) \in Pcs
          /\ call[r].todo \ {t} \in SUBSET Tokens
      BY <1>c, <2>p
    <3>3. call' \in [Requests -> Call]
      BY <3>1, <3>2, <1>b, CallTyped
    <3> QED BY <2>2, <3>1, <3>3, <1>0, <1>a DEF Expel, TypeOK
  <2>3. CASE Disband(r)
    BY <2>3, <1>0, <2>p, CallTyped DEF Disband, TypeOK
  <2>4. CASE EraseAll(r)
    BY <2>4, <1>0, <2>p, CallTyped DEF EraseAll, TypeOK
  <2> QED BY <1>6, <2>1, <2>2, <2>3, <2>4 DEF DeleteUserSessions
<1>7. ASSUME NEW r \in Requests, DeleteSessions(r) PROVE TypeOK'
  <2>p. "drop" \in Pcs /\ "done" \in Pcs /\ OrEnd("eraseMany") \in Pcs
    BY DEF Pcs, Steps, Ended, OrEnd
  <2>1. CASE Peek(r)
    BY <2>1, <1>0, <2>p, CallTyped DEF Peek, TypeOK
  <2>2. CASE Drop(r)
    BY <2>2, <1>0, <1>a, <1>c, <2>p, CallTyped DEF Drop, TypeOK
  <2>3. CASE EraseMany(r)
    BY <2>3, <1>0, <2>p, CallTyped DEF EraseMany, TypeOK
  <2> QED BY <1>7, <2>1, <2>2, <2>3 DEF DeleteSessions
<1>8. ASSUME NEW r \in Requests, ListSessions(r) PROVE TypeOK'
  <2>p. "show" \in Pcs /\ "done" \in Pcs
    BY DEF Pcs, Steps, Ended
  <2>1. CASE Browse(r)
    BY <2>1, <1>0, <1>b, <2>p, CallTyped DEF Browse, TypeOK
  <2>2. CASE Show(r)
    <3>1. PICK t \in call[r].todo :
            Become(r, [call[r] EXCEPT !.at = IF call[r].todo = {t} THEN "done" ELSE @,
                                      !.todo = @ \ {t}, !.held[t] = cache[t]])
      BY <2>2 DEF Show
    <3>2. (IF call[r].todo = {t} THEN "done" ELSE call[r].at) \in Pcs
          /\ call[r].todo \ {t} \in SUBSET Tokens /\ t \in Tokens
      BY <1>c, <2>p
    <3>3. \A pc \in Pcs, T \in SUBSET Tokens, x \in Copy :
            [call[r] EXCEPT !.at = pc, !.todo = T, !.held[t] = x] \in Call
      <4> TAKE pc \in Pcs, T \in SUBSET Tokens, x \in Copy
      <4>1. call[r] \in Call /\ pc \in {"idle"} \cup Steps \cup Ended /\ t \in Tokens
        BY <1>c, <3>2 DEF Pcs
      <4>2. [call[r].held EXCEPT ![t] = x] \in [Tokens -> Copy]
        BY <4>1 DEF Call
      <4> QED BY <4>1, <4>2 DEF Call
    <3>4. call' \in [Requests -> Call]
      BY <3>1, <3>2, <3>3, <1>b, <1>h
    <3> QED BY <2>2, <3>4, <1>0 DEF Show, TypeOK
  <2>3. CASE ReadAll(r)
    <3>1. \A T : [t \in Tokens |-> IF t \in T THEN Present(saved) ELSE Absent] \in [Tokens -> Copy]
      BY <1>0, <1>p, <1>a
    <3>2. call' \in [Requests -> Call]
      BY <2>3, <3>1, <1>b, <2>p, CallTyped DEF ReadAll
    <3> QED BY <2>3, <3>2, <1>0 DEF ReadAll, TypeOK
  <2> QED BY <1>8, <2>1, <2>2, <2>3 DEF ListSessions
<1>9. ASSUME NEW r \in Requests, UpdateUser(r) PROVE TypeOK'
  <2>p. "devices" \in Pcs /\ "refresh" \in Pcs /\ "done" \in Pcs
    BY DEF Pcs, Steps, Ended
  <2>s. \A T \in SUBSET Tokens, t \in Tokens, x \in Copy, b \in BOOLEAN :
          /\ [call[r] EXCEPT !.todo = T, !.held[t] = x] \in Call
          /\ [call[r] EXCEPT !.held[t] = x] \in Call
          /\ [call[r] EXCEPT !.todo = T, !.held[t] = x, !.ok = b] \in Call
    <3> TAKE T \in SUBSET Tokens, t \in Tokens, x \in Copy, b \in BOOLEAN
    <3>1. call[r] \in Call
      BY <1>c
    <3>2. [call[r].held EXCEPT ![t] = x] \in [Tokens -> Copy]
      BY <3>1 DEF Call
    <3>3. [call[r] EXCEPT !.todo = T, !.held[t] = x] \in Call
      BY <3>1, <3>2 DEF Call
    <3>4. [call[r] EXCEPT !.held[t] = x] \in Call
      BY <3>1, <3>2 DEF Call
    <3>5. [call[r] EXCEPT !.todo = T, !.held[t] = x, !.ok = b] \in Call
      BY <3>1, <3>2 DEF Call
    <3> QED BY <3>3, <3>4, <3>5
  <2>1. CASE Save(r)
    BY <2>1, <1>0, <1>b, <1>u, <2>p, CallTyped DEF Save, TypeOK
  <2>2. CASE Devices(r)
    BY <2>2, <1>0, <1>b, <2>p, CallTyped DEF Devices, TypeOK
  <2>3. CASE RefreshGet(r)
    <3>1. PICK t \in call[r].todo :
            Become(r, Settle([call[r] EXCEPT !.todo = @ \ {t}, !.held[t] = cache[t]]))
      BY <2>3 DEF RefreshGet
    <3>2. t \in Tokens /\ call[r].todo \ {t} \in SUBSET Tokens /\ cache[t] \in Copy
      BY <1>c, <1>h
    <3>3. call' \in [Requests -> Call]
      BY <3>1, <3>2, <2>s, <1>b, SettleTyped
    <3> QED BY <2>3, <3>3, <1>0 DEF RefreshGet, TypeOK
  <2>4. CASE RefreshSet(r)
    <3>1. PICK t \in Tokens :
            /\ cache' = [cache EXCEPT ![t] =
                           Present((call[r].held[t].has \ UserUpdates) \cup call[r].user)]
            /\ Become(r, Settle([call[r] EXCEPT !.held[t] = Absent]))
      BY <2>4 DEF RefreshSet
    <3>2. (call[r].held[t].has \ UserUpdates) \cup call[r].user \in SUBSET Requests
      <4>1. call[r].held[t] \in Copy
        BY <1>c
      <4> QED BY <4>1, <1>c DEF Copy
    <3>3. call' \in [Requests -> Call]
      BY <3>1, <2>s, <1>a, <1>b, SettleTyped
    <3>4. cache' \in [Tokens -> Copy]
      BY <3>1, <3>2, <1>0, <1>p
    <3> QED BY <2>4, <3>3, <3>4, <1>0 DEF RefreshSet, TypeOK
  <2>5. CASE RefreshFail(r)
    <3>1. PICK t \in call[r].todo \cup {u \in Tokens : call[r].held[u].there} :
            Become(r, Settle([call[r] EXCEPT !.todo = @ \ {t}, !.held[t] = Absent,
                                             !.ok = FALSE]))
      BY <2>5 DEF RefreshFail
    <3>2. t \in Tokens /\ call[r].todo \ {t} \in SUBSET Tokens
      BY <1>c
    <3>3. call' \in [Requests -> Call]
      BY <3>1, <3>2, <2>s, <1>a, <1>b, SettleTyped
    <3> QED BY <2>5, <3>3, <1>0 DEF RefreshFail, TypeOK
  <2> QED BY <1>9, <2>1, <2>2, <2>3, <2>4, <2>5 DEF UpdateUser
<1>10. ASSUME NEW r \in Requests, Fail(r) PROVE TypeOK'
  <2>1. call' \in [Requests -> Call]
    BY <1>10, PcsTyped, CallTyped DEF Fail
  <2>2. failures' \in Nat
    BY <1>10, <1>0 DEF Fail
  <2> QED BY <1>10, <2>1, <2>2, <1>0 DEF Fail, TypeOK
<1>11. ASSUME NEW t \in Tokens, Lose(t) PROVE TypeOK'
  BY <1>11, <1>0, <1>a DEF Lose, TypeOK
<1>12. CASE Idle \/ UNCHANGED vars
  BY <1>12, <1>0 DEF Idle, vars, TypeOK
<1> QED
  BY <1>1, <1>2, <1>3, <1>4, <1>5, <1>6, <1>7, <1>8, <1>9, <1>10, <1>11, <1>12
  DEF Next, Step

\* The type invariant holds in every reachable state.
THEOREM TypeCorrect == Spec => []TypeOK
  BY InitTypeOK, StepTypeOK, PTL DEF Spec
-----------------------------------------------------------------------------
(* Sessions in the database alone. *)

InDatabase == Storage = "database"

\* The places of an operation that works on the tables alone.
Path(op) ==
  CASE op = "none"               -> {"idle"}
    [] op = "createSession"      -> {"insert"} \cup Ended
    [] op = "findSession"        -> {"read"} \cup Ended
    [] op = "updateSession"      -> {"amend"} \cup Ended
    [] op = "deleteSession"      -> {"probe", "erase"} \cup Ended
    [] op = "deleteUserSessions" -> {"eraseAll"} \cup Ended
    [] op = "deleteSessions"     -> {"eraseMany"} \cup Ended
    [] op = "listSessions"       -> {"readAll"} \cup Ended
    [] op = "updateUser"         -> {"save"} \cup Ended

OnPath == \A r \in Requests : call[r].at \in Path(call[r].op)

\* A token is created once.
OneCreator ==
  \A r \in Requests : call[r].op = "createSession" =>
    /\ Tok(r) \notin Initial
    /\ \A q \in Requests : call[q].op = "createSession" /\ Tok(q) = Tok(r) => q = r

TokensKnown ==
  \A r \in Requests : call[r].op \notin {"none", "createSession"} => Known(Tok(r))
BeforeDone == \A r \in Requests : \A q \in call[r].before : q \in Requests /\ Done(q)

\* A revocation that is done left no row of what it revoked.
RowsGone ==
  \A q \in Requests : Done(q) =>
    /\ call[q].op \in Revokes => Tok(q) \notin rows
    /\ call[q].op = "deleteUserSessions" => \A t \in Tokens : Existed(t, q) => t \notin rows

\* An update that is done is in the database, unless its session is gone.
UpdatesSaved ==
  \A q \in Requests : Done(q) =>
    /\ call[q].op = "updateUser" => q \in saved
    /\ call[q].op = "updateSession" /\ Tok(q) \in rows => q \in saved

RowsKept == \A t \in Tokens : Known(t) => t \in rows \/ Revoking(t)

DbInv == /\ OnPath /\ OneCreator /\ TokensKnown /\ BeforeDone
         /\ RowsGone /\ UpdatesSaved /\ RowsKept
         /\ RevokedStaysRevoked /\ RevokeAllCovers /\ UpdatesSeen
         /\ SessionsSurvive /\ ListingComplete

LEMMA InitDbInv == Init /\ InDatabase => DbInv
<1> SUFFICES ASSUME Init, InDatabase PROVE DbInv OBVIOUS
<1>1. \A r \in Requests : /\ call[r].op = "none" /\ call[r].at = "idle" /\ call[r].before = {}
                          /\ ~Done(r) /\ ~Found(r)
  BY DEF Init, NoCall, Done, At, Found
<1>2. rows = Initial
  BY DEF Init, InDatabase, UsesTable, Storage
<1>3. OnPath
  BY <1>1 DEF OnPath, Path
<1>4. RowsKept
  BY <1>1, <1>2 DEF RowsKept, Known
<1> QED
  BY <1>1, <1>3, <1>4
  DEF DbInv, OneCreator, TokensKnown, BeforeDone, RowsGone, UpdatesSaved, RevokedStaysRevoked,
      RevokeAllCovers, UpdatesSeen, SessionsSurvive, ListingComplete

\* With the database alone, these are all the steps that matter.
DbAction(r) ==
  \/ Insert(r) \/ Read(r) \/ Amend(r) \/ Probe(r) \/ Erase(r) \/ EraseAll(r)
  \/ EraseMany(r) \/ ReadAll(r) \/ Save(r) \/ Fail(r)

DbPlaces == {"idle", "insert", "read", "amend", "probe", "erase", "eraseAll", "eraseMany",
             "readAll", "save"} \cup Ended

LEMMA PathPlaces == \A op \in AllOps \cup {"none"} : Path(op) \subseteq DbPlaces
  BY DEF Path, DbPlaces, AllOps, Creates, Revokes, Updates

LEMMA DbSteps ==
  ASSUME TypeOK, OnPath, NEW r \in Requests, Step(r)
  PROVE  DbAction(r)
<1>1. call[r].at \in DbPlaces
  <2>1. call[r].op \in AllOps \cup {"none"}
    BY DEF TypeOK, Call
  <2> QED BY <2>1, PathPlaces DEF OnPath
<1>2. /\ ~Enlist(r) /\ ~Relist(r) /\ ~Owner(r) /\ ~Store(r) /\ ~Find(r)
      /\ ~Merge(r) /\ ~Write(r) /\ ~Position(r) /\ ~Reposition(r)
      /\ ~Check(r) /\ ~Locate(r) /\ ~Unlist(r) /\ ~Evict(r)
  BY <1>1 DEF DbPlaces, Ended, At, Enlist, Relist, Owner, Store, Find, Merge, Write, Position,
              Reposition, Check, Locate, Unlist, Evict
<1>3. /\ ~Members(r) /\ ~Expel(r) /\ ~Disband(r) /\ ~Peek(r) /\ ~Drop(r)
      /\ ~Browse(r) /\ ~Show(r) /\ ~Devices(r)
      /\ ~RefreshGet(r) /\ ~RefreshSet(r) /\ ~RefreshFail(r)
  BY <1>1 DEF DbPlaces, Ended, At, Members, Expel, Disband, Peek, Drop, Browse, Show, Devices,
              RefreshGet, RefreshSet, RefreshFail
<1> QED BY <1>2, <1>3 DEF Step, DbAction, CreateSession, FindSession, UpdateSession,
              DeleteSession, DeleteUserSessions, DeleteSessions, ListSessions, UpdateUser

\* One request moves on; what it is, and the other requests, stay the same.
Advances(r) ==
  /\ call[r].at \in Steps
  /\ \A q \in Requests : q # r => call'[q] = call[q]
  /\ call'[r].op = call[r].op /\ call'[r].tok = call[r].tok
  /\ call'[r].before = call[r].before
  /\ call'[r].at # "idle"

LEMMA NotDone == \A r \in Requests : call[r].at \in Steps => ~Done(r) /\ ~At(r, "idle")
  BY DEF Steps, Done, At

LEMMA DbAdvances ==
  ASSUME TypeOK, NEW r \in Requests, DbAction(r)
  PROVE  Advances(r)
<1>0. call \in [Requests -> Call] /\ call[r] \in Call
  BY DEF TypeOK
<1>g. \A pc : pc # "idle" /\ call[r].at \in Steps /\ Goto(r, pc) => Advances(r)
  BY <1>0 DEF Goto, Become, Advances, Call
<1>h. \A pc, c : pc # "idle" /\ call[r].at \in Steps /\ Hold(r, pc, c) => Advances(r)
  BY <1>0 DEF Hold, Become, Advances, Call
<1>1. CASE Insert(r)
  BY <1>1, <1>g DEF Insert, At, Steps
<1>2. CASE Read(r)
  BY <1>2, <1>h DEF Read, At, Steps
<1>3. CASE Amend(r)
  BY <1>3, <1>g DEF Amend, At, Steps
<1>4. CASE Probe(r)
  BY <1>4, <1>g DEF Probe, At, Steps
<1>5. CASE Erase(r) \/ EraseAll(r) \/ EraseMany(r)
  BY <1>5, <1>g DEF Erase, EraseAll, EraseMany, At, Steps
<1>6. CASE ReadAll(r)
  <2>1. PICK h : call' = [call EXCEPT ![r] = [call[r] EXCEPT !.at = "done", !.held = h]]
    BY <1>6 DEF ReadAll, Become
  <2> QED BY <1>6, <2>1, <1>0 DEF ReadAll, At, Steps, Advances, Call
<1>7. CASE Save(r)
  BY <1>7, <1>0 DEF Save, At, Steps, Become, Advances, Call
<1>8. CASE Fail(r)
  BY <1>8, <1>g DEF Fail
<1> QED BY <1>1, <1>2, <1>3, <1>4, <1>5, <1>6, <1>7, <1>8 DEF DbAction

\* What is known, done, created and being revoked is preserved.
LEMMA AdvanceFrame ==
  ASSUME TypeOK, OneCreator, TokensKnown, BeforeDone, NEW r \in Requests, Advances(r)
  PROVE  /\ \A q \in Requests : /\ call'[q].op = call[q].op /\ call'[q].tok = call[q].tok
                                /\ call'[q].before = call[q].before
                                /\ Done(q) => Done(q)'
                                /\ Done(q)' /\ q # r => Done(q)
                                /\ \A t \in Tokens : Existed(t, q)' = Existed(t, q)
         /\ \A t : Known(t) => Known(t)'
         /\ \A t : Known(t)' /\ ~Known(t) =>
                     t = Tok(r) /\ call[r].op = "createSession" /\ Done(r)'
         /\ \A t : Revoking(t) => Revoking(t)'
         /\ OneCreator' /\ TokensKnown' /\ BeforeDone'
<1>1. \A q \in Requests : /\ call'[q].op = call[q].op /\ call'[q].tok = call[q].tok
                          /\ call'[q].before = call[q].before
  BY DEF Advances
<1>2. ~Done(r)
  BY NotDone DEF Advances
<1>3. \A q \in Requests : (Done(q) => Done(q)') /\ (Done(q)' /\ q # r => Done(q))
  BY <1>2 DEF Advances, Done, At
<1>4. BeforeDone'
  BY <1>1, <1>3 DEF BeforeDone
<1>5. \A q \in Requests : \A t \in Tokens : Existed(t, q)' = Existed(t, q)
  BY <1>1 DEF Existed, BeforeDone, Tok
<1>6. \A t : Known(t) => Known(t)'
  BY <1>1, <1>3 DEF Known, Tok
<1>7. \A t : Known(t)' /\ ~Known(t) =>
               t = Tok(r) /\ call[r].op = "createSession" /\ Done(r)'
  BY <1>1, <1>3 DEF Known, Tok
<1>8. \A t : Revoking(t) => Revoking(t)'
  BY <1>1 DEF Advances, Revoking, Tok, At
<1>9. OneCreator'
  BY <1>1 DEF OneCreator, Tok
<1>10. TokensKnown'
  BY <1>1, <1>6 DEF TokensKnown, Tok
<1> QED BY <1>1, <1>3, <1>4, <1>5, <1>6, <1>7, <1>8, <1>9, <1>10

\* A new request disturbs nothing: it is not done, and nobody has it before.
LEMMA StartDbInv ==
  ASSUME TypeOK, DbInv, InDatabase, NEW r \in Requests, NEW op \in Ops[r], Start(r, op)
  PROVE  DbInv'
<1>0. call \in [Requests -> Call] /\ call[r] \in Call /\ op \in AllOps
  BY DeployTyped DEF TypeOK
<1>1. call[r].op = "none" /\ ~Done(r) /\ At(r, "idle")
  <2>1. At(r, "idle") /\ ~Done(r)
    BY DEF Start, At, Done
  <2>2. call[r].op \in AllOps \cup {"none"} /\ call[r].at \in Path(call[r].op)
    BY <1>0 DEF Call, DbInv, OnPath
  <2>3. \A o \in AllOps : "idle" \notin Path(o)
    BY DEF Path, AllOps, Creates, Revokes, Updates, Ended
  <2> QED BY <2>1, <2>2, <2>3 DEF At
<1>2. FirstStep(op) \in Path(op) /\ FirstStep(op) \notin Ended \cup {"idle"}
  BY <1>0 DEF FirstStep, Path, AllOps, Creates, Revokes, Updates, Ended,
              InDatabase, UsesTable, UsesCache
<1>3. /\ call'[r].op = op /\ call'[r].tok = call[r].tok /\ call'[r].at = FirstStep(op)
      /\ call'[r].before = {q \in Requests : Done(q)}
  BY <1>0 DEF Start, Become, NoCall, Tok
<1>4. \A q \in Requests : q # r => call'[q] = call[q]
  BY <1>0 DEF Start, Become
<1>5. \A q \in Requests : (Done(q)' <=> Done(q)) /\ (Done(q)' => call'[q] = call[q] /\ q # r)
  BY <1>1, <1>2, <1>3, <1>4 DEF Done, At, Ended
<1>6. rows' = rows /\ saved' = saved /\ deploy' = deploy
  BY DEF Start
<1>7. \A t : Known(t)' <=> Known(t)
  BY <1>5 DEF Known, Tok
<1>8. \A t : Revoking(t) => Revoking(t)'
  BY <1>1, <1>4 DEF Revoking, At, Tok
<1>9. \A q \in Requests : Done(q) => \A c \in call[q].before : c \in Requests /\ Done(c)
  BY DEF DbInv, BeforeDone
<1>10. \A q \in Requests : Done(q)' => \A t : Existed(t, q)' => Existed(t, q)
  BY <1>5, <1>9 DEF Existed, Tok
<1>11. OnPath'
  BY <1>2, <1>3, <1>4 DEF DbInv, OnPath
<1>12. OneCreator'
  <2>1. CASE op = "createSession"
    <3>1. Fresh(Tok(r)) /\ Tok(r)' = Tok(r)
      BY <2>1, <1>3 DEF Start, Tok
    <3> QED BY <3>1, <1>1, <1>3, <1>4 DEF DbInv, OneCreator, Fresh, Tok
  <2>2. CASE op # "createSession"
    BY <2>2, <1>1, <1>3, <1>4 DEF DbInv, OneCreator, Tok
  <2> QED BY <2>1, <2>2
<1>13. TokensKnown'
  <2>1. op # "createSession" => Known(Tok(r))
    BY DEF Start
  <2> QED BY <2>1, <1>3, <1>4, <1>7 DEF DbInv, TokensKnown, Tok
<1>14. BeforeDone'
  BY <1>3, <1>4, <1>5 DEF DbInv, BeforeDone
<1>15. RowsGone' /\ UpdatesSaved'
  BY <1>5, <1>6, <1>10 DEF DbInv, RowsGone, UpdatesSaved, Tok
<1>16. RowsKept'
  BY <1>6, <1>7, <1>8 DEF DbInv, RowsKept
<1>17. \A q \in Requests : Found(q)' => Found(q) /\ call'[q] = call[q]
  BY <1>5 DEF Found, Tok
<1>18. RevokedStaysRevoked' /\ UpdatesSeen' /\ RevokeAllCovers'
  <2>1. \A q \in Requests : Found(q)' => \A c \in call[q].before : call'[c] = call[c]
    BY <1>5, <1>9, <1>17 DEF Found
  <2>2. \A c \in Requests : Done(c) => \A t : Existed(t, c)' => Existed(t, c)
    BY <1>5, <1>10
  <2>3. RevokedStaysRevoked' /\ UpdatesSeen'
    BY <2>1, <1>17 DEF DbInv, RevokedStaysRevoked, UpdatesSeen, Tok
  <2>4. RevokeAllCovers'
    BY <2>1, <2>2, <1>9, <1>17 DEF DbInv, RevokeAllCovers, Tok, Found
  <2> QED BY <2>3, <2>4
<1>19. SessionsSurvive'
  <2> SUFFICES ASSUME NEW q \in Requests, (call[q].op = "findSession" /\ Done(q) /\ ~Found(q))'
               PROVE  Revoking(Tok(q))'
    BY DEF SessionsSurvive
  <2>1. call'[q] = call[q] /\ Done(q) /\ ~Found(q)
    BY <1>5 DEF Found, Tok
  <2>2. Revoking(Tok(q))
    BY <2>1 DEF DbInv, SessionsSurvive
  <2> QED BY <2>1, <2>2, <1>8 DEF Tok
<1>20. ListingComplete'
  <2>1. deploy' = deploy
    BY DeployFixed DEF Start
  <2> QED BY <2>1, <1>5, <1>8, <1>10 DEF DbInv, ListingComplete, FullPage, UsesCache, Storage
<1> QED BY <1>11, <1>12, <1>13, <1>14, <1>15, <1>16, <1>18, <1>19, <1>20 DEF DbInv

\* What a step of a started request does to rows and updates, and what the
\* request has when it is done.
Effects(r) ==
  /\ call'[r].at \in Path(call[r].op)
  /\ rows' \subseteq rows \cup (IF call[r].op = "createSession" THEN {Tok(r)} ELSE {})
  /\ \A t \in rows \ rows' : \/ call[r].op = "deleteUserSessions"
                             \/ call[r].op \in Revokes /\ t = Tok(r)
  /\ saved \subseteq saved'
  /\ Done(r)' =>
       /\ call[r].op = "createSession" => Tok(r) \in rows'
       /\ call[r].op \in Revokes => Tok(r) \notin rows'
       /\ call[r].op = "deleteUserSessions" => rows' = {}
       /\ call[r].op = "updateUser" => r \in saved'
       /\ call[r].op = "updateSession" /\ Tok(r) \in rows' => r \in saved'
       /\ call[r].op = "findSession" =>
            call'[r].held[Tok(r)] = IF Tok(r) \in rows THEN Present(saved) ELSE Absent
       /\ call[r].op = "listSessions" =>
            \/ FullPage(r)'
            \/ \A t \in Tokens : call'[r].held[t].there <=> t \in rows

LEMMA DbEffects ==
  ASSUME TypeOK, OnPath, InDatabase, NEW r \in Requests, DbAction(r)
  PROVE  Effects(r)
<1>0. /\ call \in [Requests -> Call] /\ call[r] \in Call /\ call[r].op \in AllOps \cup {"none"}
      /\ call[r].at \in Path(call[r].op) /\ Tok(r) \in Tokens
  BY DEF TypeOK, Call, OnPath, Tok
<1>u. UsesTable /\ ~UsesCache
  BY DEF InDatabase, UsesTable, UsesCache
<1>g. \A pc : Goto(r, pc) => call'[r].at = pc
  BY <1>0 DEF Goto, Become, Call
<1>s. call[r].at \in Path(call[r].op) => \A pc :
        (call[r].at = pc =>
           /\ pc = "insert" => call[r].op = "createSession"
           /\ pc = "read" => call[r].op = "findSession"
           /\ pc = "amend" => call[r].op = "updateSession"
           /\ pc \in {"probe", "erase"} => call[r].op = "deleteSession"
           /\ pc = "eraseAll" => call[r].op = "deleteUserSessions"
           /\ pc = "eraseMany" => call[r].op = "deleteSessions"
           /\ pc = "readAll" => call[r].op = "listSessions"
           /\ pc = "save" => call[r].op = "updateUser")
  BY <1>0 DEF Path, AllOps, Creates, Revokes, Updates, Ended
<1>1. CASE Insert(r)
  <2>1. call[r].op = "createSession" /\ rows' = rows \cup {Tok(r)} /\ saved' = saved
        /\ call'[r].at = "done"
    BY <1>1, <1>0, <1>g, <1>s, <1>u DEF Insert, At
  <2> QED BY <2>1 DEF Effects, Path, Revokes, Ended
<1>2. CASE Read(r)
  <2>1. call[r].op = "findSession" /\ rows' = rows /\ saved' = saved
    BY <1>2, <1>0, <1>s DEF Read, At
  <2>2. /\ call'[r].at = "done"
        /\ call'[r].held[Tok(r)] = IF Tok(r) \in rows THEN Present(saved) ELSE Absent
    <3>1. call'[r] = [call[r] EXCEPT !.at = "done",
                        !.held[Tok(r)] = IF Tok(r) \in rows THEN Present(saved) ELSE Absent]
      BY <1>2, <1>0 DEF Read, Hold, Become
    <3>2. call[r].held \in [Tokens -> Copy]
      BY <1>0 DEF Call
    <3> QED BY <3>1, <3>2, <1>0 DEF Call
  <2> QED BY <2>1, <2>2 DEF Effects, Path, Revokes, Ended
<1>3. CASE Amend(r)
  <2>1. call[r].op = "updateSession" /\ rows' = rows /\ call'[r].at = "done"
        /\ saved' = IF Tok(r) \in rows THEN saved \cup {r} ELSE saved
    BY <1>3, <1>0, <1>g, <1>s DEF Amend, At
  <2> QED BY <2>1 DEF Effects, Path, Revokes, Ended
<1>4. CASE Probe(r)
  <2>1. call[r].op = "deleteSession" /\ rows' = rows /\ saved' = saved
    BY <1>4, <1>0, <1>s DEF Probe, At
  <2>2. \/ call'[r].at \in {"erase", "missed"}
        \/ call'[r].at = "done" /\ Tok(r) \notin rows
    BY <1>4, <1>g DEF Probe
  <2> QED BY <2>1, <2>2 DEF Effects, Path, Revokes, Ended, Done, At
<1>5. CASE Erase(r) \/ EraseMany(r)
  <2>1. call[r].op \in Revokes /\ rows' = rows \ {Tok(r)} /\ saved' = saved
        /\ call'[r].at = "done"
    BY <1>5, <1>0, <1>g, <1>s DEF Erase, EraseMany, At, Revokes
  <2> QED BY <2>1 DEF Effects, Path, Revokes, Ended
<1>6. CASE EraseAll(r)
  <2>1. call[r].op = "deleteUserSessions" /\ rows' = {} /\ saved' = saved
        /\ call'[r].at = "done"
    BY <1>6, <1>0, <1>g, <1>s DEF EraseAll, At
  <2> QED BY <2>1 DEF Effects, Path, Revokes, Ended
<1>7. CASE ReadAll(r)
  <2>1. call[r].op = "listSessions" /\ rows' = rows /\ saved' = saved
    BY <1>7, <1>0, <1>s DEF ReadAll, At
  <2>0. PICK T \in Page : call' = [call EXCEPT ![r] = [call[r] EXCEPT !.at = "done",
          !.held = [t \in Tokens |-> IF t \in T THEN Present(saved) ELSE Absent]]]
    BY <1>7 DEF ReadAll, Become
  <2>3. /\ call'[r].at = "done"
        /\ \A t \in Tokens : call'[r].held[t].there <=> t \in T
    BY <2>0, <1>0 DEF Call, Present, Absent
  <2>4. T = rows \/ FullPage(r)'
    <3>1. SUFFICES ASSUME Cardinality(T) = deploy.limit PROVE FullPage(r)'
      BY DEF Page
    <3>2. {t \in Tokens : call'[r].held[t].there} = T
      BY <2>3 DEF Page, TypeOK
    <3>3. deploy' = deploy /\ ~UsesCache'
      BY <1>7, <1>u DEF ReadAll, UsesCache, Storage
    <3> QED BY <3>1, <3>2, <3>3 DEF FullPage
  <2>2. /\ call'[r].at = "done"
        /\ FullPage(r)' \/ \A t \in Tokens : call'[r].held[t].there <=> t \in rows
    BY <2>3, <2>4
  <2> QED BY <2>1, <2>2 DEF Effects, Path, Revokes, Ended
<1>8. CASE Save(r)
  <2>1. call[r].op = "updateUser" /\ rows' = rows /\ saved' = saved \cup {r}
    BY <1>8, <1>0, <1>s DEF Save, At
  <2>2. call'[r].at = "done"
    BY <1>8, <1>0, <1>u DEF Save, Become, Call
  <2> QED BY <2>1, <2>2 DEF Effects, Path, Revokes, Ended
<1>9. CASE Fail(r)
  <2>1. rows' = rows /\ saved' = saved /\ call'[r].at = "failed" /\ call[r].at \in Steps
    BY <1>9, <1>g DEF Fail
  <2>2. call[r].op # "none"
    BY <2>1, <1>0 DEF Path, Steps
  <2>3. call'[r].at \in Path(call[r].op)
    BY <2>1, <2>2, <1>0 DEF Path, Ended, AllOps, Creates, Revokes, Updates
  <2> QED BY <2>1, <2>3 DEF Effects, Done, At
<1> QED BY <1>1, <1>2, <1>3, <1>4, <1>5, <1>6, <1>7, <1>8, <1>9 DEF DbAction

\* A step of a started request keeps the invariant.
LEMMA DbActionInv ==
  ASSUME TypeOK, DbInv, InDatabase, NEW r \in Requests, DbAction(r)
  PROVE  DbInv'
<1>a. Advances(r) /\ Effects(r)
  BY DbAdvances, DbEffects DEF DbInv
<1>f. /\ \A q \in Requests : /\ call'[q].op = call[q].op /\ call'[q].tok = call[q].tok
                             /\ call'[q].before = call[q].before
                             /\ Done(q) => Done(q)'
                             /\ Done(q)' /\ q # r => Done(q)
                             /\ \A t \in Tokens : Existed(t, q)' = Existed(t, q)
      /\ \A t : Known(t) => Known(t)'
      /\ \A t : Known(t)' /\ ~Known(t) =>
                  t = Tok(r) /\ call[r].op = "createSession" /\ Done(r)'
      /\ \A t : Revoking(t) => Revoking(t)'
      /\ OneCreator' /\ TokensKnown' /\ BeforeDone'
  BY <1>a, AdvanceFrame DEF DbInv
<1>d. deploy' = deploy
  BY DEF DbAction, Insert, Read, Amend, Probe, Erase, EraseAll, EraseMany, ReadAll, Save, Fail
<1>n. ~Done(r) /\ ~At(r, "idle")
  BY <1>a, NotDone DEF Advances
<1>t. \A q \in Requests : Tok(q)' = Tok(q) /\ Tok(q) \in Tokens
  BY <1>f DEF Tok, TypeOK, Call
<1>b. \A q \in Requests : \A c \in call[q].before : c \in Requests /\ Done(c)
  BY DEF DbInv, BeforeDone
<1>k. \A q \in Requests : \A t \in Tokens : Existed(t, q) => Known(t)
  BY <1>b DEF Existed, Known
<1>c. call[r].op = "createSession" => ~Known(Tok(r))
  BY <1>n DEF DbInv, OneCreator, Known
\* A session that is gone does not come back.
<1>g. \A t : Known(t) /\ t \notin rows => t \notin rows'
  BY <1>a, <1>c DEF Effects
<1>1. OnPath'
  BY <1>a DEF DbInv, OnPath, Advances, Effects
<1>2. RowsGone'
  <2> SUFFICES ASSUME NEW q \in Requests, Done(q)'
               PROVE  /\ call[q].op \in Revokes => Tok(q) \notin rows'
                      /\ call[q].op = "deleteUserSessions" =>
                           \A t \in Tokens : Existed(t, q) => t \notin rows'
    BY <1>f, <1>t DEF RowsGone
  <2>1. CASE q = r
    BY <2>1, <1>a DEF Effects
  <2>2. CASE q # r
    <3>1. Done(q)
      BY <2>2, <1>f
    <3>2. call[q].op \in Revokes => Known(Tok(q))
      BY DEF DbInv, TokensKnown, Revokes
    <3> QED BY <3>1, <3>2, <1>g, <1>k DEF DbInv, RowsGone
  <2> QED BY <2>1, <2>2
<1>3. UpdatesSaved'
  <2> SUFFICES ASSUME NEW q \in Requests, Done(q)'
               PROVE  /\ call[q].op = "updateUser" => q \in saved'
                      /\ call[q].op = "updateSession" /\ Tok(q) \in rows' => q \in saved'
    BY <1>f, <1>t DEF UpdatesSaved
  <2>1. CASE q = r
    BY <2>1, <1>a DEF Effects
  <2>2. CASE q # r
    <3>1. Done(q) /\ saved \subseteq saved'
      BY <2>2, <1>a, <1>f DEF Effects
    <3>2. call[q].op = "updateSession" => Known(Tok(q))
      BY DEF DbInv, TokensKnown
    <3> QED BY <3>1, <3>2, <1>g DEF DbInv, UpdatesSaved
  <2> QED BY <2>1, <2>2
<1>4. RowsKept'
  <2> SUFFICES ASSUME NEW t \in Tokens, Known(t)' PROVE (t \in rows \/ Revoking(t))'
    BY DEF RowsKept
  <2>1. CASE ~Known(t)
    BY <2>1, <1>a, <1>f DEF Effects
  <2>2. CASE Known(t)
    <3>1. CASE Revoking(t)
      BY <3>1, <1>f
    <3>2. CASE t \in rows /\ t \notin rows'
      <4>1. Revoking(t)
        BY <3>2, <1>a, <1>n DEF Effects, Revoking
      <4> QED BY <4>1, <1>f
    <3> QED BY <2>2, <3>1, <3>2 DEF DbInv, RowsKept
  <2> QED BY <2>1, <2>2
\* What a request found or listed before, it still has.
<1>q. \A q \in Requests : q # r => (Done(q)' <=> Done(q)) /\ (Found(q)' <=> Found(q))
                                   /\ call'[q] = call[q]
  BY <1>a DEF Advances, Done, At, Found, Tok
<1>r. Found(r)' => /\ Tok(r) \in rows
                   /\ call'[r].held[Tok(r)].has = saved
  BY <1>a, <1>t, <1>f DEF Effects, Found, Present, Absent
<1>5. RevokedStaysRevoked'
  <2> SUFFICES ASSUME NEW q \in Requests, Found(q)', NEW c \in call[q].before,
                      call[c].op \in Revokes
               PROVE  Tok(c) # Tok(q)
    BY <1>b, <1>f, <1>t DEF RevokedStaysRevoked
  <2>1. CASE q = r
    BY <2>1, <1>r, <1>b DEF DbInv, RowsGone
  <2>2. CASE q # r
    BY <2>2, <1>q DEF DbInv, RevokedStaysRevoked
  <2> QED BY <2>1, <2>2
<1>6. RevokeAllCovers'
  <2> SUFFICES ASSUME NEW q \in Requests, Found(q)', NEW c \in call[q].before,
                      call[c].op = "deleteUserSessions"
               PROVE  ~Existed(Tok(q), c)
    BY <1>b, <1>f, <1>t DEF RevokeAllCovers
  <2>1. CASE q = r
    BY <2>1, <1>r, <1>b, <1>t DEF DbInv, RowsGone
  <2>2. CASE q # r
    BY <2>2, <1>q DEF DbInv, RevokeAllCovers
  <2> QED BY <2>1, <2>2
<1>7. UpdatesSeen'
  <2> SUFFICES ASSUME NEW q \in Requests, Found(q)', NEW c \in call[q].before,
                      \/ call[c].op = "updateUser"
                      \/ call[c].op = "updateSession" /\ Tok(c) = Tok(q)
               PROVE  c \in call'[q].held[Tok(q)].has
    BY <1>b, <1>f, <1>t DEF UpdatesSeen
  <2>1. CASE q = r
    BY <2>1, <1>r, <1>b DEF DbInv, UpdatesSaved
  <2>2. CASE q # r
    BY <2>2, <1>q DEF DbInv, UpdatesSeen
  <2> QED BY <2>1, <2>2
<1>8. SessionsSurvive'
  <2> SUFFICES ASSUME NEW q \in Requests, call[q].op = "findSession", Done(q)', ~Found(q)'
               PROVE  Revoking(Tok(q))
    BY <1>f, <1>t DEF SessionsSurvive
  <2>1. CASE q = r
    <3>1. Tok(r) \notin rows
      BY <2>1, <1>a, <1>f, <1>t DEF Effects, Found, Present
    <3>2. Known(Tok(r))
      BY <2>1 DEF DbInv, TokensKnown
    <3> QED BY <2>1, <3>1, <3>2, <1>t DEF DbInv, RowsKept
  <2>2. CASE q # r
    BY <2>2, <1>q DEF DbInv, SessionsSurvive
  <2> QED BY <2>1, <2>2
<1>9. ListingComplete'
  <2> SUFFICES ASSUME NEW q \in Requests, call[q].op = "listSessions", Done(q)', ~FullPage(q)',
                      NEW t \in Tokens, Existed(t, q), ~call'[q].held[t].there
               PROVE  Revoking(t)
    BY <1>f DEF ListingComplete
  <2>1. CASE q = r
    BY <2>1, <1>a, <1>k DEF Effects, DbInv, RowsKept
  <2>2. CASE q # r
    <3>1. ~FullPage(q)
      BY <2>2, <1>q, <1>d DEF FullPage, UsesCache, Storage
    <3> QED BY <2>2, <3>1, <1>q DEF DbInv, ListingComplete
  <2> QED BY <2>1, <2>2
<1> QED BY <1>f, <1>1, <1>2, <1>3, <1>4, <1>5, <1>6, <1>7, <1>8, <1>9 DEF DbInv

LEMMA StepDbInv == TypeOK /\ InDatabase /\ DbInv /\ [Next]_vars => DbInv'
<1> SUFFICES ASSUME TypeOK, InDatabase, DbInv, [Next]_vars PROVE DbInv' OBVIOUS
<1>1. ASSUME NEW r \in Requests, NEW op \in Ops[r], Start(r, op) PROVE DbInv'
  BY <1>1, StartDbInv
<1>2. ASSUME NEW r \in Requests, Step(r) PROVE DbInv'
  BY <1>2, DbSteps, DbActionInv DEF DbInv
<1>3. CASE UNCHANGED <<deploy, rows, saved, call>>
  BY <1>3 DEF DbInv, OnPath, OneCreator, TokensKnown, BeforeDone, RowsGone, UpdatesSaved,
              RowsKept, RevokedStaysRevoked, RevokeAllCovers, UpdatesSeen, SessionsSurvive,
              ListingComplete, FullPage, UsesCache, Storage, Known, Existed, Revoking, Found,
              Done, At, Tok
<1>4. (\E t \in Tokens : Lose(t)) \/ Idle \/ UNCHANGED vars =>
        UNCHANGED <<deploy, rows, saved, call>>
  BY DEF Lose, Idle, vars
<1> QED BY <1>1, <1>2, <1>3, <1>4 DEF Next

LEMMA DatabaseInvariant == Spec => [](InDatabase => DbInv)
<1> DEFINE Inv == TypeOK /\ (InDatabase => DbInv)
<1>1. Init => Inv
  BY InitTypeOK, InitDbInv
<1>2. Inv /\ [Next]_vars => Inv'
  <2>1. [Next]_vars /\ InDatabase' => InDatabase
    BY DeployFixed DEF InDatabase, Storage
  <2> QED BY <2>1, StepTypeOK, StepDbInv
<1>3. Inv => (InDatabase => DbInv)
  OBVIOUS
<1> HIDE DEF Inv
<1> QED BY <1>1, <1>2, <1>3, PTL DEF Spec

\* Kept in the database alone, a session that was revoked, singly or with all
\* the sessions of its user, is not found by any request that starts later,
\* whatever requests overlap and whatever calls fail.
THEOREM RevocationInDatabase ==
  Spec => [](InDatabase => RevokedStaysRevoked /\ RevokeAllCovers)
<1>1. (InDatabase => DbInv) => (InDatabase => RevokedStaysRevoked /\ RevokeAllCovers)
  BY DEF DbInv
<1> QED BY <1>1, DatabaseInvariant, PTL

\* Kept in the database alone, sessions show every update that finished before
\* they were looked up, and stay found and listed until somebody revokes them; a
\* listing that leaves one out shows as many as a query may answer.
THEOREM SessionsInDatabase ==
  Spec => [](InDatabase => UpdatesSeen /\ SessionsSurvive /\ ListingComplete)
<1>1. (InDatabase => DbInv) => (InDatabase => UpdatesSeen /\ SessionsSurvive /\ ListingComplete)
  BY DEF DbInv
<1> QED BY <1>1, DatabaseInvariant, PTL
-----------------------------------------------------------------------------
(***************************************************************************)
(* With a cache, one request after the other. What a request that comes    *)
(* next relies on: each cached session is in the list (Listed); a row has  *)
(* its copy (RowsCached); copies show what is done (Ends); and between     *)
(* the two steps of a get and a set, nobody has changed what was read      *)
(* (Holding).                                                              *)
(***************************************************************************)
InSequence == UsesCache /\ deploy.maxInFlight = 1 /\ deploy.maxFailures = 0

CachePath(op) ==
  CASE op = "none"               -> {"idle"}
    [] op = "createSession"      -> {"insert", "enlist", "relist", "owner", "store", "done"}
    [] op = "findSession"        -> {"find", "read", "done"}
    [] op = "updateSession"      -> {"merge", "write", "position", "reposition", "amend", "done"}
    [] op = "deleteSession"      -> {"check", "locate", "unlist", "evict", "probe", "erase", "done"}
    [] op = "deleteUserSessions" -> {"members", "expel", "disband", "eraseAll", "done"}
    [] op = "deleteSessions"     -> {"peek", "drop", "eraseMany", "done"}
    [] op = "listSessions"       -> {"browse", "show", "done"}
    [] op = "updateUser"         -> {"save", "devices", "refresh", "done"}

Cached(t) == cache[t].there
DoneUpdates == {q \in UserUpdates : Done(q)}

Holding(r) ==
  LET c == call[r]
      t == Tok(r)
  IN /\ c.at \in {"relist", "unlist", "reposition"} => c.seen = list
     /\ c.at \in {"owner", "store"} => t \in list
     /\ c.at = "store" => DoneUpdates \subseteq c.user
     /\ c.at = "read" => ~CacheOnly /\ ~Cached(t)
     /\ c.at = "write" => Cached(t) /\ c.held[t] = Present(cache[t].has \cup {r})
     /\ c.at \in {"position", "reposition", "amend"} /\ Cached(t) => r \in cache[t].has
     /\ c.at \in {"probe", "erase", "eraseMany"} => ~Cached(t)
     /\ c.at = "expel" => \A u \in Tokens : Cached(u) => u \in c.todo
     /\ c.at \in {"disband", "eraseAll"} => \A u \in Tokens : ~Cached(u)
     /\ c.at = "show" => \A u \in Tokens : Cached(u) => u \in c.todo \/ c.held[u].there
     /\ c.at \in {"save", "devices"} => \A u \in Tokens : ~c.held[u].there
     /\ c.at \in {"devices", "refresh"} => {r} \cup DoneUpdates \subseteq c.user /\ r \in saved
     /\ c.at = "refresh" => \A u \in Tokens :
          /\ c.held[u].there => c.held[u] = cache[u]
          /\ Cached(u) => u \in c.todo \/ c.held[u].there \/ r \in cache[u].has

\* What a request that is done has brought about, and what it has found.
Ends(q) == Done(q) =>
  /\ call[q].op \in Revokes => ~Cached(Tok(q))
  /\ call[q].op = "deleteUserSessions" => \A t \in Tokens : Existed(t, q) => ~Cached(t)
  /\ call[q].op = "updateSession" /\ Cached(Tok(q)) => q \in cache[Tok(q)].has
  /\ call[q].op = "updateUser" =>
       q \in saved /\ \A t \in Tokens : Cached(t) => q \in cache[t].has
Finds(q) ==
  /\ Found(q) => \A c \in call[q].before :
       /\ call[c].op \in Revokes => Tok(c) # Tok(q)
       /\ call[c].op = "deleteUserSessions" => ~Existed(Tok(q), c)
       /\ call[c].op = "updateUser" \/ (call[c].op = "updateSession" /\ Tok(c) = Tok(q))
            => c \in call[q].held[Tok(q)].has
  /\ call[q].op = "findSession" /\ Done(q) /\ ~Found(q) => Revoking(Tok(q))
  /\ call[q].op = "listSessions" /\ Done(q) =>
       \A t \in Tokens : Existed(t, q) => call[q].held[t].there \/ Revoking(t)

OneAtATime == \A q, r \in Requests : InFlight(q) /\ InFlight(r) => q = r
OnCachePath == \A r \in Requests : call[r].at \in CachePath(call[r].op) /\ call[r].ok
Listed == \A t \in Tokens : Cached(t) =>
  t \in list \/ \E r \in Requests : At(r, "evict") /\ Tok(r) = t
CacheKept == \A t \in Tokens : Known(t) => Cached(t) \/ Revoking(t)
Handles(r, t) == /\ InFlight(r)
                 /\ \/ call[r].op = "deleteUserSessions"
                    \/ call[r].op \in Creates \cup Revokes /\ Tok(r) = t
RowsCached == ~CacheOnly =>
  \A t \in rows : Cached(t) \/ \E r \in Requests : Handles(r, t)

SeqInv == /\ OneAtATime /\ OnCachePath /\ OneCreator /\ TokensKnown /\ BeforeDone
          /\ Listed /\ CacheKept /\ RowsCached
          /\ \A r \in Requests : Holding(r) /\ Ends(r) /\ Finds(r)

LEMMA InitSeqInv == Init /\ InSequence => SeqInv
<1> SUFFICES ASSUME Init, InSequence PROVE SeqInv OBVIOUS
<1>1. \A r \in Requests : /\ call[r].op = "none" /\ call[r].at = "idle" /\ call[r].before = {}
                          /\ ~Done(r) /\ ~Found(r) /\ call[r].ok /\ ~InFlight(r)
  BY DEF Init, NoCall, Done, At, Found, InFlight, Steps
<1>2. /\ list = Initial /\ rows \subseteq Initial
      /\ \A t \in Tokens : Cached(t) <=> t \in Initial
  BY ConstantsAssumption DEF Init, InSequence, Cached, Present, Absent
<1>3. OnCachePath
  BY <1>1 DEF OnCachePath, CachePath
<1>4. Listed /\ CacheKept /\ RowsCached
  BY <1>1, <1>2, ConstantsAssumption DEF Listed, CacheKept, RowsCached, Known
<1>5. \A r \in Requests : Holding(r) /\ Ends(r) /\ Finds(r)
  BY <1>1 DEF Holding, Ends, Finds
<1> QED BY <1>1, <1>3, <1>4, <1>5 DEF SeqInv, OneAtATime, OneCreator, TokensKnown, BeforeDone

\* Where a request is says what it does.
LEMMA CacheOps ==
  \A op \in AllOps \cup {"none"} : \A pc \in CachePath(op) :
    /\ pc \in {"insert", "enlist", "relist", "owner", "store"} => op = "createSession"
    /\ pc \in {"find", "read"} => op = "findSession"
    /\ pc \in {"merge", "write", "position", "reposition", "amend"} => op = "updateSession"
    /\ pc \in {"check", "locate", "unlist", "evict", "probe", "erase"} => op = "deleteSession"
    /\ pc \in {"members", "expel", "disband", "eraseAll"} => op = "deleteUserSessions"
    /\ pc \in {"peek", "drop", "eraseMany"} => op = "deleteSessions"
    /\ pc \in {"browse", "show"} => op = "listSessions"
    /\ pc \in {"save", "devices", "refresh"} => op = "updateUser"
    /\ pc # "readAll" /\ pc # "failed" /\ pc # "missed"
  BY DEF CachePath, AllOps, Creates, Revokes, Updates

\* A request in flight is the only one, and finished ones hold nothing.
LEMMA Alone ==
  ASSUME SeqInv, NEW r \in Requests, InFlight(r)
  PROVE  /\ \A q \in Requests : InFlight(q) => q = r
         /\ \A t : ~At(r, "evict") => ~\E q \in Requests : At(q, "evict") /\ Tok(q) = t
<1>1. \A q \in Requests : At(q, "evict") => InFlight(q)
  BY DEF At, InFlight, Steps
<1> QED BY <1>1 DEF SeqInv, OneAtATime

LEMMA NothingHeldIdle ==
  ASSUME NEW q \in Requests, call[q].at \notin Steps
  PROVE  Holding(q)
  BY DEF Holding, Steps

\* A request in flight has promised nothing yet.
LEMMA NotYet ==
  ASSUME NEW q \in Requests, call[q].at \in Steps
  PROVE  ~Done(q) /\ Ends(q) /\ Finds(q)
<1>1. ~Done(q)
  BY DEF Done, At, Steps
<1> QED BY <1>1 DEF Ends, Finds, Found

\* A step of the request in flight keeps the invariant, when it keeps for the
\* others what the cache shows, and for itself what it holds and promises.
LEMMA SeqMove ==
  ASSUME TypeOK, TypeOK', InSequence, SeqInv, NEW r \in Requests, Advances(r), deploy' = deploy,
         call'[r].at \in CachePath(call[r].op), call'[r].ok, saved \subseteq saved',
         \A t \in Tokens : cache'[t].there =>
           \/ /\ cache[t].there
              /\ \A q \in Requests : Done(q) /\ q \in cache[t].has => q \in cache'[t].has
           \/ ~Known(t) /\ DoneUpdates \subseteq cache'[t].has,
         \A t \in Tokens : cache[t].there /\ ~cache'[t].there => Revoking(t),
         \A t \in Tokens : Known(t)' /\ ~Known(t) => cache'[t].there,
         Holding(r)', Ends(r)', Finds(r)', Listed', RowsCached'
  PROVE  SeqInv'
<1>f. /\ \A q \in Requests : /\ call'[q].op = call[q].op /\ call'[q].tok = call[q].tok
                             /\ call'[q].before = call[q].before
                             /\ Done(q) => Done(q)'
                             /\ Done(q)' /\ q # r => Done(q)
                             /\ \A t \in Tokens : Existed(t, q)' = Existed(t, q)
      /\ \A t : Known(t) => Known(t)'
      /\ \A t : Revoking(t) => Revoking(t)'
      /\ OneCreator' /\ TokensKnown' /\ BeforeDone'
  BY AdvanceFrame DEF SeqInv
<1>t. \A q \in Requests : Tok(q)' = Tok(q) /\ Tok(q) \in Tokens
  BY <1>f DEF Tok, TypeOK, Call
<1>b. \A q \in Requests : \A c \in call[q].before : c \in Requests /\ Done(c)
  BY DEF SeqInv, BeforeDone
<1>k. \A q \in Requests : \A t \in Tokens : Existed(t, q) => Known(t)
  BY <1>b DEF Existed, Known
<1>a. \A q \in Requests : q # r => call'[q] = call[q] /\ call[q].at \notin Steps
  BY Alone DEF Advances, InFlight
<1>1. OneAtATime'
  BY <1>a DEF OneAtATime, InFlight
<1>2. OnCachePath'
  BY <1>f, <1>a DEF SeqInv, OnCachePath
<1>3. CacheKept'
  <2> SUFFICES ASSUME NEW t \in Tokens, Known(t)' PROVE cache'[t].there \/ Revoking(t)'
    BY DEF CacheKept, Cached
  <2>1. CASE ~Known(t)
    BY <2>1
  <2>2. CASE Known(t)
    BY <2>2, <1>f DEF SeqInv, CacheKept, Cached
  <2> QED BY <2>1, <2>2
<1>4. ASSUME NEW q \in Requests, q # r PROVE Holding(q)' /\ Ends(q)' /\ Finds(q)'
  <2>1. Holding(q)'
    <3>1. call'[q].at \notin Steps
      BY <1>4, <1>a
    <3> QED BY <3>1 DEF Holding, Steps
  <2>2. Ends(q)'
    <3> SUFFICES ASSUME Done(q)
                 PROVE  /\ call[q].op \in Revokes => ~cache'[Tok(q)].there
                        /\ call[q].op = "deleteUserSessions" =>
                             \A t \in Tokens : Existed(t, q) => ~cache'[t].there
                        /\ call[q].op = "updateSession" /\ cache'[Tok(q)].there =>
                             q \in cache'[Tok(q)].has
                        /\ call[q].op = "updateUser" =>
                             q \in saved' /\ \A t \in Tokens : cache'[t].there => q \in cache'[t].has
      BY <1>4, <1>f, <1>t DEF Ends, Cached
    <3>1. Ends(q)
      BY DEF SeqInv
    <3>2. call[q].op \notin {"none", "createSession"} => Known(Tok(q))
      BY DEF SeqInv, TokensKnown
    <3>3. call[q].op = "updateUser" => q \in DoneUpdates
      BY DEF DoneUpdates, UserUpdates
    <3>4. call[q].op \in Revokes => ~cache'[Tok(q)].there
      BY <3>1, <3>2, <1>t DEF Ends, Cached, Revokes
    <3>5. call[q].op = "deleteUserSessions" =>
            \A t \in Tokens : Existed(t, q) => ~cache'[t].there
      BY <3>1, <1>k DEF Ends, Cached
    <3>6. call[q].op = "updateSession" /\ cache'[Tok(q)].there => q \in cache'[Tok(q)].has
      BY <3>1, <3>2, <1>t DEF Ends, Cached
    <3>7. call[q].op = "updateUser" =>
            q \in saved' /\ \A t \in Tokens : cache'[t].there => q \in cache'[t].has
      BY <3>1, <3>3 DEF Ends, Cached
    <3> QED BY <3>4, <3>5, <3>6, <3>7
  <2>3. Finds(q)'
    <3>1. Finds(q)
      BY DEF SeqInv
    <3>2. call'[q] = call[q] /\ Tok(q)' = Tok(q) /\ (Found(q)' <=> Found(q))
          /\ (Done(q)' <=> Done(q))
      BY <1>4, <1>a, <1>t DEF Found, Done, At
    <3>3. Found(q) => \A c \in call[q].before :
             /\ call'[c].op \in Revokes => Tok(c)' # Tok(q)
             /\ call'[c].op = "deleteUserSessions" => ~Existed(Tok(q), c)
             /\ call'[c].op = "updateUser" \/ (call'[c].op = "updateSession" /\ Tok(c)' = Tok(q))
                  => c \in call[q].held[Tok(q)].has
      BY <3>1, <1>b, <1>f, <1>t DEF Finds
    <3>4. \A c \in call[q].before : Existed(Tok(q), c)' = Existed(Tok(q), c)
      <4>1. PICK tok \in Tokens : tok = Tok(q)
        BY <1>t
      <4>2. \A c \in call[q].before : Existed(tok, c)' = Existed(tok, c)
        BY <1>b, <1>f
      <4> QED BY <4>1, <4>2, <3>2 DEF Existed, Tok
    <3>5. call[q].op = "findSession" /\ Done(q) /\ ~Found(q) => Revoking(Tok(q))'
      <4>1. PICK tok \in Tokens : tok = Tok(q)
        BY <1>t
      <4>2. call[q].op = "findSession" /\ Done(q) /\ ~Found(q) => Revoking(tok)'
        BY <4>1, <3>1, <1>f DEF Finds
      <4> QED BY <4>1, <4>2, <3>2 DEF Revoking, Tok
    <3>6. call[q].op = "listSessions" /\ Done(q) =>
            \A t \in Tokens : Existed(t, q)' => call'[q].held[t].there \/ Revoking(t)'
      BY <3>1, <3>2, <1>f DEF Finds
    <3> QED BY <3>2, <3>3, <3>4, <3>5, <3>6 DEF Finds
  <2> QED BY <2>1, <2>2, <2>3
<1> QED BY <1>f, <1>1, <1>2, <1>3, <1>4 DEF SeqInv

\* A step that changes nothing but the state of its request.
LEMMA SeqQuiet ==
  ASSUME TypeOK, TypeOK', InSequence, SeqInv, NEW r \in Requests, Advances(r),
         UNCHANGED <<deploy, rows, saved, cache, list>>, ~At(r, "evict"),
         call'[r].at \in CachePath(call[r].op), call'[r].ok,
         call'[r].at \in Steps \/ call[r].op # "createSession",
         \/ call'[r].at \in Steps
         \/ ~CacheOnly => \A t \in rows : Handles(r, t) => Cached(t),
         Holding(r)', Ends(r)', Finds(r)'
  PROVE  SeqInv'
<1>a. /\ \A q \in Requests : q # r => call'[q] = call[q] /\ call[q].at \notin Steps
      /\ \A q \in Requests : Tok(q)' = Tok(q) /\ call'[q].op = call[q].op
  BY Alone DEF Advances, InFlight, Tok
<1>1. Listed'
  <2>1. \A t \in Tokens : Cached(t) => t \in list
    BY Alone DEF SeqInv, Listed, Advances, InFlight
  <2> QED BY <2>1 DEF Listed, Cached
<1>2. RowsCached'
  <2> SUFFICES ASSUME ~CacheOnly, NEW t \in rows, ~Cached(t)
               PROVE  \E q \in Requests : Handles(q, t)'
    BY DEF RowsCached, Cached, CacheOnly, UsesCache, UsesTable, Storage
  <2>1. PICK q \in Requests : Handles(q, t)
    BY DEF SeqInv, RowsCached
  <2>2. q = r
    BY <2>1, <1>a DEF Handles, InFlight
  <2>3. call'[r].at \in Steps
    BY <2>1, <2>2
  <2> QED BY <2>1, <2>2, <2>3, <1>a DEF Handles, InFlight
<1>3. \A t \in Tokens : Known(t)' => Known(t)
  <2>1. \A q \in Requests : Done(q)' /\ call[q].op = "createSession" => Done(q)
    <3>1. Done(r)' /\ call[r].op = "createSession" => Done(r)
      BY DEF Done, At, Steps
    <3> QED BY <3>1, <1>a DEF Done, At
  <2> QED BY <2>1, <1>a DEF Known
<1> QED BY <1>1, <1>2, <1>3, SeqMove

\* What the steps do to the state of their request.
LEMMA BecomeIs ==
  ASSUME TypeOK, NEW r \in Requests, NEW c, Become(r, c)
  PROVE  call'[r] = c /\ \A q \in Requests : q # r => call'[q] = call[q]
  BY DEF TypeOK, Become

LEMMA GotoMoves ==
  ASSUME TypeOK, NEW r \in Requests, call[r].at \in Steps, NEW pc, pc # "idle", Goto(r, pc)
  PROVE  /\ Advances(r) /\ call'[r].at = pc
         /\ call'[r].seen = call[r].seen /\ call'[r].todo = call[r].todo
         /\ call'[r].held = call[r].held /\ call'[r].user = call[r].user
         /\ call'[r].ok = call[r].ok
<1>1. /\ call'[r] = [call[r] EXCEPT !.at = pc]
      /\ \A q \in Requests : q # r => call'[q] = call[q]
  BY BecomeIs DEF Goto
<1>2. call[r] \in Call
  BY DEF TypeOK
<1> QED BY <1>1, <1>2 DEF Advances, Call

LEMMA HoldMoves ==
  ASSUME TypeOK, NEW r \in Requests, call[r].at \in Steps, NEW pc, pc # "idle", NEW x,
         Hold(r, pc, x)
  PROVE  /\ Advances(r) /\ call'[r].at = pc
         /\ call'[r].held[Tok(r)] = x
         /\ call'[r].ok = call[r].ok
<1>1. /\ call'[r] = [call[r] EXCEPT !.at = pc, !.held[Tok(r)] = x]
      /\ \A q \in Requests : q # r => call'[q] = call[q]
  BY BecomeIs DEF Hold
<1>2. call[r] \in Call /\ Tok(r) \in Tokens
  BY DEF TypeOK, Tok, Call
<1>3. DOMAIN call[r].held = Tokens
  BY <1>2 DEF Call
<1> QED BY <1>1, <1>2, <1>3 DEF Advances, Call

\* A request that notes the list, or what it has still to visit, or the user.
LEMMA SeenMoves ==
  ASSUME TypeOK, NEW r \in Requests, call[r].at \in Steps, NEW pc, pc # "idle", NEW x,
         Become(r, [call[r] EXCEPT !.at = pc, !.seen = x])
  PROVE  Advances(r) /\ call'[r].at = pc /\ call'[r].seen = x /\ call'[r].ok = call[r].ok
<1>1. /\ call'[r] = [call[r] EXCEPT !.at = pc, !.seen = x]
      /\ \A q \in Requests : q # r => call'[q] = call[q]
  BY BecomeIs
<1> QED BY <1>1 DEF Advances, Call, TypeOK

LEMMA TodoMoves ==
  ASSUME TypeOK, NEW r \in Requests, call[r].at \in Steps, NEW pc, pc # "idle", NEW x,
         Become(r, [call[r] EXCEPT !.at = pc, !.todo = x])
  PROVE  /\ Advances(r) /\ call'[r].at = pc /\ call'[r].todo = x
         /\ call'[r].held = call[r].held /\ call'[r].user = call[r].user
         /\ call'[r].ok = call[r].ok
<1>1. /\ call'[r] = [call[r] EXCEPT !.at = pc, !.todo = x]
      /\ \A q \in Requests : q # r => call'[q] = call[q]
  BY BecomeIs
<1> QED BY <1>1 DEF Advances, Call, TypeOK

LEMMA UserMoves ==
  ASSUME TypeOK, NEW r \in Requests, call[r].at \in Steps, NEW pc, pc # "idle", NEW x,
         Become(r, [call[r] EXCEPT !.at = pc, !.user = x])
  PROVE  /\ Advances(r) /\ call'[r].at = pc /\ call'[r].user = x
         /\ call'[r].held = call[r].held /\ call'[r].ok = call[r].ok
<1>1. /\ call'[r] = [call[r] EXCEPT !.at = pc, !.user = x]
      /\ \A q \in Requests : q # r => call'[q] = call[q]
  BY BecomeIs
<1> QED BY <1>1 DEF Advances, Call, TypeOK

\* No token that is being created is known, and its request is not done.
LEMMA NotKnown ==
  ASSUME TypeOK, SeqInv, NEW r \in Requests, call[r].at \in Steps, call[r].op = "createSession"
  PROVE  ~Known(Tok(r))
  BY NotYet DEF SeqInv, OneCreator, Known

LEMMA SeqOp ==
  ASSUME TypeOK, SeqInv, NEW r \in Requests
  PROVE  /\ call[r].at \in {"insert", "enlist", "relist", "owner", "store"}
              => call[r].op = "createSession"
         /\ call[r].at \in {"find", "read"} => call[r].op = "findSession"
         /\ call[r].at \in {"merge", "write", "position", "reposition", "amend"}
              => call[r].op = "updateSession"
         /\ call[r].at \in {"check", "locate", "unlist", "evict", "probe", "erase"}
              => call[r].op = "deleteSession"
         /\ call[r].at \in {"members", "expel", "disband", "eraseAll"}
              => call[r].op = "deleteUserSessions"
         /\ call[r].at \in {"peek", "drop", "eraseMany"} => call[r].op = "deleteSessions"
         /\ call[r].at \in {"browse", "show"} => call[r].op = "listSessions"
         /\ call[r].at \in {"save", "devices", "refresh"} => call[r].op = "updateUser"
         /\ call[r].at \notin {"readAll", "failed", "missed"}
         /\ call[r].ok /\ Tok(r) \in Tokens /\ Holding(r)
         /\ call[r].op \in AllOps \cup {"none"}
  BY CacheOps DEF TypeOK, Call, SeqInv, OnCachePath, Tok

LEMMA SeqCreate ==
  ASSUME TypeOK, TypeOK', InSequence, SeqInv, NEW r \in Requests, CreateSession(r)
  PROVE  SeqInv'
<1>0. call[r].at \in {"insert", "enlist", "relist", "owner", "store"} /\ call[r].at \in Steps
  BY DEF CreateSession, Insert, Enlist, Relist, Owner, Store, At, Steps
<1>o. /\ call[r].op = "createSession" /\ call[r].ok /\ Tok(r) \in Tokens /\ Holding(r)
      /\ deploy' = deploy /\ UsesCache
  BY <1>0, SeqOp DEF CreateSession, Insert, Enlist, Relist, Owner, Store, InSequence
<1>c. /\ cache \in [Tokens -> Copy] /\ list \subseteq Tokens /\ rows \subseteq Tokens
  BY DEF TypeOK
<1>p. CachePath("createSession") = {"insert", "enlist", "relist", "owner", "store", "done"}
  BY DEF CachePath
<1>l. ~At(r, "evict") /\ \A t \in Tokens : Cached(t) => t \in list
  BY <1>0, Alone DEF SeqInv, Listed, InFlight, At
<1>h. ~CacheOnly => \A t \in rows : Cached(t) \/ t = Tok(r)
  <2>1. \A q \in Requests : \A t : Handles(q, t) => q = r
    BY <1>0, Alone DEF Handles, InFlight
  <2> QED BY <2>1, <1>o DEF SeqInv, RowsCached, Handles, Creates, Revokes
<1>d. ASSUME Advances(r), call'[r].at \in Steps
      PROVE  /\ DoneUpdates' = DoneUpdates /\ Ends(r)' /\ Finds(r)' /\ Tok(r)' = Tok(r)
             /\ Handles(r, Tok(r))'
             /\ \A t \in Tokens : Known(t)' => Known(t)
  <2>1. /\ \A q \in Requests : (Done(q)' <=> Done(q)) /\ call'[q].op = call[q].op
                               /\ Tok(q)' = Tok(q)
        /\ ~Done(r)'
    BY <1>d DEF Advances, Done, At, Steps, Tok
  <2> QED BY <1>d, <1>o, <2>1
          DEF DoneUpdates, UserUpdates, Ends, Finds, Found, Handles, InFlight, Creates, Known, Tok
<1>1. CASE Insert(r)
  <2>1. /\ Advances(r) /\ call'[r].at = "enlist" /\ call'[r].ok
        /\ UNCHANGED <<saved, cache, list>> /\ rows' = rows \cup {Tok(r)}
    BY <1>1, <1>0, <1>o, GotoMoves DEF Insert
  <2>2. call'[r].at \in Steps
    BY <2>1 DEF Steps
  <2>3. Holding(r)'
    BY <2>1 DEF Holding
  <2>4. Listed'
    BY <2>1, <1>l DEF Listed, Cached
  <2>5. RowsCached'
    BY <2>1, <2>2, <1>d, <1>h, <1>o DEF RowsCached, Cached, CacheOnly, UsesCache, UsesTable, Storage
  <2> QED BY <2>1, <2>2, <2>3, <2>4, <2>5, <1>d, <1>o, <1>p, SeqMove
<1>2. CASE Enlist(r)
  <2>1. /\ Advances(r) /\ call'[r].at = "relist" /\ call'[r].ok /\ call'[r].seen = list
        /\ UNCHANGED <<rows, saved, cache, list>>
    BY <1>2, <1>0, <1>o, SeenMoves DEF Enlist
  <2>2. call'[r].at \in Steps
    BY <2>1 DEF Steps
  <2>3. Holding(r)'
    BY <2>1 DEF Holding
  <2> QED BY <2>1, <2>2, <2>3, <1>d, <1>o, <1>p, <1>l, SeqQuiet
<1>3. CASE Relist(r)
  <2>1. /\ Advances(r) /\ call'[r].at = "owner" /\ call'[r].ok
        /\ UNCHANGED <<rows, saved, cache>> /\ list' = list \cup {Tok(r)}
    BY <1>3, <1>0, <1>o, GotoMoves DEF Relist, Holding, At
  <2>2. call'[r].at \in Steps
    BY <2>1 DEF Steps
  <2>3. Holding(r)'
    BY <2>1, <2>2, <1>d DEF Holding
  <2>4. Listed'
    BY <2>1, <1>l DEF Listed, Cached
  <2>5. RowsCached'
    BY <2>1, <2>2, <1>d, <1>h, <1>o DEF RowsCached, Cached, CacheOnly, UsesCache, UsesTable, Storage
  <2> QED BY <2>1, <2>2, <2>3, <2>4, <2>5, <1>d, <1>o, <1>p, SeqMove
<1>4. CASE Owner(r)
  <2>0. Become(r, [call[r] EXCEPT !.at = "store", !.user = saved \cap UserUpdates])
    BY <1>4 DEF Owner
  <2>1. /\ Advances(r) /\ call'[r].at = "store" /\ call'[r].ok
        /\ call'[r].user = saved \cap UserUpdates
    BY <2>0, <1>0, <1>o, UserMoves
  <2>u. UNCHANGED <<rows, saved, cache, list>> /\ Tok(r) \in list
    BY <1>4, <1>o DEF Owner, Holding, At
  <2>2. call'[r].at \in Steps
    BY <2>1 DEF Steps
  <2>3. DoneUpdates \subseteq saved \cap UserUpdates
    BY DEF SeqInv, Ends, DoneUpdates, UserUpdates
  <2>4. Holding(r)'
    BY <2>1, <2>u, <2>2, <2>3, <1>d DEF Holding
  <2> QED BY <2>1, <2>u, <2>2, <2>4, <1>d, <1>o, <1>p, <1>l, SeqQuiet
<1>5. CASE Store(r)
  <2>1. /\ Advances(r) /\ call'[r].at = "done" /\ call'[r].ok
        /\ UNCHANGED <<rows, saved, list>> /\ Tok(r) \in list
        /\ cache' = [cache EXCEPT ![Tok(r)] = Present(call[r].user)]
        /\ DoneUpdates \subseteq call[r].user
    BY <1>5, <1>0, <1>o, GotoMoves DEF Store, Holding, At
  <2>2. /\ cache'[Tok(r)].there /\ DoneUpdates \subseteq cache'[Tok(r)].has
        /\ \A t \in Tokens : t # Tok(r) => cache'[t] = cache[t]
    BY <2>1, <1>o, <1>c DEF Present
  <2>3. ~Known(Tok(r))
    BY <1>0, <1>o, NotKnown
  <2>4. Holding(r)'
    BY <2>1 DEF Holding
  <2>5. Ends(r)' /\ Finds(r)'
    BY <2>1, <1>o DEF Ends, Finds, Found, Advances, Revokes
  <2>6. Listed'
    BY <2>1, <2>2, <1>l DEF Listed, Cached
  <2>7. RowsCached'
    BY <2>1, <2>2, <1>h, <1>o, <1>c DEF RowsCached, Cached, CacheOnly, UsesCache, UsesTable, Storage
  <2>8. \A t \in Tokens : Known(t)' /\ ~Known(t) => cache'[t].there
    BY <2>1, <2>2, AdvanceFrame DEF SeqInv
  <2>9. \A t \in Tokens : cache'[t].there =>
           \/ /\ cache[t].there
              /\ \A q \in Requests : Done(q) /\ q \in cache[t].has => q \in cache'[t].has
           \/ ~Known(t) /\ DoneUpdates \subseteq cache'[t].has
    BY <2>2, <2>3
  <2>10. \A t \in Tokens : cache[t].there /\ ~cache'[t].there => Revoking(t)
    BY <2>2
  <2>11. call'[r].at \in CachePath(call[r].op) /\ saved \subseteq saved' /\ deploy' = deploy
    BY <2>1, <1>o, <1>p
  <2> QED BY <2>1, <2>4, <2>5, <2>6, <2>7, <2>8, <2>9, <2>10, <2>11, SeqMove
<1> QED BY <1>1, <1>2, <1>3, <1>4, <1>5 DEF CreateSession

LEMMA SeqFind ==
  ASSUME TypeOK, TypeOK', InSequence, SeqInv, NEW r \in Requests, FindSession(r)
  PROVE  SeqInv'
<1>0. call[r].at \in {"find", "read"} /\ call[r].at \in Steps
  BY DEF FindSession, Find, Read, At, Steps
<1>o. /\ call[r].op = "findSession" /\ call[r].ok /\ Tok(r) \in Tokens /\ Holding(r)
      /\ UNCHANGED <<deploy, rows, saved, cache, list>> /\ ~At(r, "evict")
  BY <1>0, SeqOp DEF FindSession, Find, Read, At
<1>p. CachePath("findSession") = {"find", "read", "done"}
  BY DEF CachePath
<1>h. ~CacheOnly => \A t \in rows : Cached(t)
  <2>1. \A q \in Requests : \A t : ~Handles(q, t)
    BY <1>0, <1>o, Alone DEF Handles, InFlight, Creates, Revokes
  <2> QED BY <2>1 DEF SeqInv, RowsCached
<1>k. Known(Tok(r)) /\ (Cached(Tok(r)) \/ Revoking(Tok(r)))
  BY <1>o DEF SeqInv, TokensKnown, CacheKept
<1>f. ASSUME Advances(r)
      PROVE  /\ \A q \in Requests : Tok(q)' = Tok(q) /\ call'[q].op = call[q].op
             /\ call'[r].before = call[r].before
             /\ \A c \in call[r].before : Existed(Tok(r), c)' = Existed(Tok(r), c)
             /\ Revoking(Tok(r)) => Revoking(Tok(r))'
             /\ Tok(r)' = Tok(r)
  <2>1. PICK tok \in Tokens : tok = Tok(r)
    BY <1>o
  <2>2. /\ Revoking(tok) => Revoking(tok)'
        /\ \A q \in Requests : Tok(q)' = Tok(q) /\ call'[q].op = call[q].op
        /\ \A c \in Requests : Existed(tok, c)' = Existed(tok, c)
        /\ call'[r].before = call[r].before
    BY <1>f, AdvanceFrame DEF SeqInv, Tok
  <2>3. Tok(r)' = tok /\ \A c \in call[r].before : c \in Requests
    BY <2>1, <2>2 DEF SeqInv, BeforeDone
  <2> QED BY <2>1, <2>2, <2>3 DEF Existed, Revoking, Tok
\* The search is answered with what the cache shows.
<1>a. ASSUME Advances(r), call'[r].at = "done", call'[r].ok,
             call'[r].held[Tok(r)] = cache[Tok(r)] \/ (~Cached(Tok(r)) /\ ~call'[r].held[Tok(r)].there)
      PROVE  SeqInv'
  <2>1. Found(r)' <=> Cached(Tok(r))
    BY <1>a, <1>f, <1>o DEF Found, Done, At, Cached
  <2>2. Cached(Tok(r)) => call'[r].held[Tok(r)].has = cache[Tok(r)].has
    BY <1>a DEF Cached
  <2>3. ASSUME Cached(Tok(r)), NEW c \in call[r].before
        PROVE  /\ call[c].op \in Revokes => Tok(c) # Tok(r)
               /\ call[c].op = "deleteUserSessions" => ~Existed(Tok(r), c)
               /\ call[c].op = "updateUser" \/ (call[c].op = "updateSession" /\ Tok(c) = Tok(r))
                    => c \in cache[Tok(r)].has
    <3>1. c \in Requests /\ Done(c) /\ Ends(c)
      BY DEF SeqInv, BeforeDone
    <3> QED BY <2>3, <3>1, <1>o DEF Ends
  <2>4. Finds(r)'
    <3>1. Found(r)' => \A c \in call'[r].before :
             /\ call'[c].op \in Revokes => Tok(c)' # Tok(r)'
             /\ call'[c].op = "deleteUserSessions" => ~Existed(Tok(r), c)'
             /\ call'[c].op = "updateUser" \/ (call'[c].op = "updateSession" /\ Tok(c)' = Tok(r)')
                  => c \in call'[r].held[Tok(r)'].has
      <4>1. \A c \in call[r].before : c \in Requests
        BY DEF SeqInv, BeforeDone
      <4> QED BY <4>1, <2>1, <2>2, <2>3, <1>a, <1>f
    <3>2. ~Found(r)' => Revoking(Tok(r))'
      BY <2>1, <1>a, <1>f, <1>k
    <3>3. call'[r].op # "listSessions"
      BY <1>a, <1>f, <1>o
    <3> QED BY <3>1, <3>2, <3>3 DEF Finds
  <2>5. Ends(r)' /\ Holding(r)'
    BY <1>a, <1>f, <1>o DEF Ends, Holding, Revokes
  <2>6. ~CacheOnly => \A t \in rows : Handles(r, t) => Cached(t)
    BY <1>h
  <2>7. call'[r].at \in CachePath(call[r].op)
    BY <1>a, <1>o, <1>p
  <2>8. call[r].op # "createSession"
    BY <1>o
  <2> QED BY <1>a, <1>o, <2>4, <2>5, <2>6, <2>7, <2>8, SeqQuiet
<1>1. CASE Find(r)
  <2>1. CASE Hold(r, "done", cache[Tok(r)])
    BY <2>1, <1>a, <1>0, <1>o, HoldMoves
  <2>2. CASE ~Cached(Tok(r)) /\ ~CacheOnly /\ Goto(r, "read")
    <3>1. Advances(r) /\ call'[r].at = "read" /\ call'[r].ok /\ call'[r].at \in Steps
      BY <2>2, <1>0, <1>o, GotoMoves DEF Steps
    <3>2. Tok(r)' = Tok(r) /\ CacheOnly' = CacheOnly
      BY <3>1, <1>f, <1>o DEF CacheOnly, UsesCache, UsesTable, Storage
    <3>3. Holding(r)'
      BY <2>2, <3>1, <3>2, <1>o DEF Holding, Cached
    <3>4. Ends(r)' /\ Finds(r)'
      BY <3>1 DEF Ends, Finds, Found, Done, At
    <3> QED BY <3>1, <3>3, <3>4, <1>o, <1>p, SeqQuiet
  <2> QED BY <1>1, <2>1, <2>2 DEF Find, Cached
<1>2. CASE Read(r)
  <2>1. ~CacheOnly /\ ~Cached(Tok(r))
    BY <1>2, <1>o DEF Read, At, Holding
  <2>2. Tok(r) \notin rows
    BY <2>1, <1>h
  <2>3. Hold(r, "done", Absent)
    BY <1>2, <2>2 DEF Read
  <2>4. Advances(r) /\ call'[r].at = "done" /\ call'[r].ok /\ ~call'[r].held[Tok(r)].there
    BY <2>3, <1>0, <1>o, HoldMoves DEF Absent
  <2> QED BY <2>1, <2>4, <1>a
<1> QED BY <1>1, <1>2 DEF FindSession

\* While a request runs that removes no session, every copy is in the list and
\* every row that may be shown has its copy.
LEMMA Calm ==
  ASSUME TypeOK, SeqInv, NEW r \in Requests, call[r].at \in Steps, call[r].op \in AllOps,
         call[r].op \notin Creates \cup Revokes \cup {"deleteUserSessions"}
  PROVE  /\ ~At(r, "evict")
         /\ \A t \in Tokens : Cached(t) => t \in list
         /\ ~CacheOnly => \A t \in rows : Cached(t)
<1>1. ~At(r, "evict")
  BY SeqOp DEF At, Revokes
<1>2. \A t \in Tokens : Cached(t) => t \in list
  BY <1>1, Alone DEF SeqInv, Listed, InFlight
<1>3. \A q \in Requests : \A t : ~Handles(q, t)
  BY Alone DEF Handles, InFlight
<1> QED BY <1>1, <1>2, <1>3 DEF SeqInv, RowsCached

\* A step from which its request goes on, or that ends one that creates nothing.
LEMMA Frames ==
  ASSUME TypeOK, SeqInv, NEW r \in Requests, Advances(r), deploy' = deploy
  PROVE  /\ Tok(r)' = Tok(r) /\ CacheOnly' = CacheOnly
         /\ \A q \in Requests : q # r => (Done(q)' <=> Done(q))
         /\ call'[r].at \in Steps =>
              /\ DoneUpdates' = DoneUpdates /\ Ends(r)' /\ Finds(r)'
              /\ \A t : Handles(r, t)' <=> Handles(r, t)
         /\ call'[r].at \in Steps \/ call[r].op # "createSession" =>
              \A t \in Tokens : Known(t)' => Known(t)
         /\ call'[r].at = "done" => Holding(r)'
         /\ call'[r].at = "done" /\ call[r].op \notin {"findSession", "listSessions"} => Finds(r)'
<1>0. /\ \A q \in Requests : /\ call'[q].op = call[q].op /\ Tok(q)' = Tok(q)
                             /\ q # r => (Done(q)' <=> Done(q))
      /\ ~Done(r)
  BY NotDone DEF Advances, Done, At, Tok
<1>1. Tok(r)' = Tok(r) /\ CacheOnly' = CacheOnly
  BY <1>0 DEF CacheOnly, UsesCache, UsesTable, Storage
<1>2. ASSUME call'[r].at \in Steps
      PROVE  /\ DoneUpdates' = DoneUpdates /\ Ends(r)' /\ Finds(r)'
             /\ \A t : Handles(r, t)' <=> Handles(r, t)
  <2>1. ~Done(r)'
    BY <1>2 DEF Done, At, Steps
  <2>2. Ends(r)' /\ Finds(r)'
    BY <2>1 DEF Ends, Finds, Found
  <2>3. DoneUpdates' = DoneUpdates
    BY <1>0, <2>1 DEF DoneUpdates, UserUpdates
  <2>4. \A t : Handles(r, t)' <=> Handles(r, t)
    BY <1>0, <1>2 DEF Handles, InFlight, Advances
  <2> QED BY <2>2, <2>3, <2>4
<1>3. ASSUME call'[r].at \in Steps \/ call[r].op # "createSession"
      PROVE  \A t \in Tokens : Known(t)' => Known(t)
  <2>1. Done(r)' => call[r].op # "createSession"
    BY <1>3 DEF Done, At, Steps
  <2> QED BY <2>1, AdvanceFrame DEF SeqInv
<1>4. call'[r].at = "done" => Holding(r)'
  BY DEF Holding
<1>5. call'[r].at = "done" /\ call[r].op \notin {"findSession", "listSessions"} => Finds(r)'
  BY <1>0 DEF Finds, Found
<1> QED BY <1>0, <1>1, <1>2, <1>3, <1>4, <1>5

LEMMA SeqUpdateSession ==
  ASSUME TypeOK, TypeOK', InSequence, SeqInv, NEW r \in Requests, UpdateSession(r)
  PROVE  SeqInv'
<1>0. /\ call[r].at \in {"merge", "write", "position", "reposition", "amend"}
      /\ call[r].at \in Steps
  BY DEF UpdateSession, Merge, Write, Position, Reposition, Amend, At, Steps
<1>o. /\ call[r].op = "updateSession" /\ call[r].ok /\ Tok(r) \in Tokens /\ Holding(r)
      /\ deploy' = deploy /\ rows' = rows /\ call[r].op \in AllOps
  BY <1>0, SeqOp DEF UpdateSession, Merge, Write, Position, Reposition, Amend, AllOps, Updates
<1>c. /\ cache \in [Tokens -> Copy] /\ list \subseteq Tokens /\ rows \subseteq Tokens
  BY DEF TypeOK
<1>p. CachePath("updateSession") = {"merge", "write", "position", "reposition", "amend", "done"}
  BY DEF CachePath
<1>l. /\ ~At(r, "evict")
      /\ \A t \in Tokens : Cached(t) => t \in list
      /\ ~CacheOnly => \A t \in rows : Cached(t)
  BY <1>0, <1>o, Calm DEF Creates, Revokes
\* A step that keeps every copy, or adds the update to the session's.
<1>m. ASSUME Advances(r), call'[r].at \in CachePath("updateSession"), call'[r].ok,
             saved \subseteq saved', list \subseteq list',
             \/ cache' = cache
             \/ /\ Cached(Tok(r))
                /\ cache' = [cache EXCEPT ![Tok(r)] = Present(cache[Tok(r)].has \cup {r})],
             Holding(r)', Ends(r)'
      PROVE  SeqInv'
  <2>1. \A t \in Tokens : cache[t].there <=> cache'[t].there
    BY <1>m, <1>o, <1>c DEF Present, Cached
  <2>2. \A t \in Tokens : cache[t].has \subseteq cache'[t].has
    BY <1>m, <1>o, <1>c DEF Present
  <2>3. /\ \A t \in Tokens : Known(t)' => Known(t)
        /\ call'[r].at = "done" => Finds(r)'
        /\ call'[r].at \in Steps => Finds(r)'
        /\ CacheOnly' = CacheOnly
    BY <1>m, <1>o, Frames
  <2>4. Finds(r)'
    BY <2>3, <1>m, <1>p DEF Steps
  <2>5. Listed' /\ RowsCached'
    BY <2>1, <2>3, <1>m, <1>l, <1>o, <1>c DEF Listed, RowsCached, Cached
  <2> QED BY <2>1, <2>2, <2>3, <2>4, <2>5, <1>m, <1>o, SeqMove
<1>d. ASSUME Advances(r), call'[r].at = "done", Cached(Tok(r))' => r \in (cache[Tok(r)].has)'
      PROVE  Ends(r)' /\ Holding(r)'
  BY <1>d, <1>o, Frames DEF Ends, Advances, Revokes, Cached
<1>1. CASE Merge(r)
  <2>0. UNCHANGED <<saved, cache, list>>
    BY <1>1 DEF Merge
  <2>1. CASE Cached(Tok(r))
    <3>1. Hold(r, "write", Present(cache[Tok(r)].has \cup {r}))
      BY <1>1, <2>1 DEF Merge, Cached
    <3>2. /\ Advances(r) /\ call'[r].at = "write" /\ call'[r].ok
          /\ call'[r].held[Tok(r)] = Present(cache[Tok(r)].has \cup {r})
      BY <3>1, <1>0, <1>o, HoldMoves
    <3>3. Ends(r)' /\ Tok(r)' = Tok(r)
      BY <3>2, <1>o, Frames DEF Steps
    <3>4. Holding(r)'
      BY <3>2, <3>3, <2>0, <2>1 DEF Holding, Cached
    <3> QED BY <3>2, <3>3, <3>4, <2>0, <1>m, <1>p
  <2>2. CASE ~Cached(Tok(r))
    <3>1. /\ Advances(r) /\ call'[r].at \in {"amend", "done"} /\ call'[r].ok
      BY <1>1, <2>2, <1>0, <1>o, GotoMoves DEF Merge, Cached
    <3>2. Tok(r)' = Tok(r)
      BY <3>1, <1>o, Frames
    <3>3. Ends(r)' /\ Holding(r)'
      <4>1. CASE call'[r].at = "amend"
        <5>1. Ends(r)'
          BY <3>1, <4>1, <1>o, Frames DEF Steps
        <5> QED BY <5>1, <4>1, <3>2, <2>0, <2>2 DEF Holding, Cached
      <4>2. CASE call'[r].at = "done"
        BY <4>2, <3>1, <3>2, <2>0, <2>2, <1>d DEF Cached
      <4> QED BY <3>1, <4>1, <4>2
    <3> QED BY <3>1, <3>3, <2>0, <1>m, <1>p
  <2> QED BY <2>1, <2>2
<1>2. CASE Write(r)
  <2>1. /\ Advances(r) /\ call'[r].at = "position" /\ call'[r].ok
        /\ UNCHANGED <<saved, list>> /\ Cached(Tok(r))
    BY <1>2, <1>0, <1>o, GotoMoves DEF Write, Holding, At
  <2>2. cache' = [cache EXCEPT ![Tok(r)] = Present(cache[Tok(r)].has \cup {r})]
    BY <1>2, <1>o DEF Write, Holding, At
  <2>3. Ends(r)' /\ Tok(r)' = Tok(r)
    BY <2>1, <1>o, Frames DEF Steps
  <2>4. r \in cache'[Tok(r)].has
    BY <2>2, <1>o, <1>c DEF Present
  <2>5. Holding(r)'
    BY <2>1, <2>3, <2>4 DEF Holding, Cached
  <2> QED BY <2>1, <2>2, <2>3, <2>5, <1>m, <1>p
<1>3. CASE Position(r)
  <2>1. /\ Advances(r) /\ call'[r].at = "reposition" /\ call'[r].ok /\ call'[r].seen = list
        /\ UNCHANGED <<saved, cache, list>>
    BY <1>3, <1>0, <1>o, SeenMoves DEF Position
  <2>2. Cached(Tok(r)) => r \in cache[Tok(r)].has
    BY <1>3, <1>o DEF Position, Holding, At
  <2>3. Ends(r)' /\ Tok(r)' = Tok(r)
    BY <2>1, <1>o, Frames DEF Steps
  <2>4. Holding(r)'
    BY <2>1, <2>2, <2>3 DEF Holding, Cached
  <2> QED BY <2>1, <2>3, <2>4, <1>m, <1>p
<1>4. CASE Reposition(r)
  <2>1. /\ Advances(r) /\ call'[r].at \in {"amend", "done"} /\ call'[r].ok
        /\ UNCHANGED <<saved, cache>>
    BY <1>4, <1>0, <1>o, GotoMoves DEF Reposition
  <2>2. list' = list \cup {Tok(r)} /\ (Cached(Tok(r)) => r \in cache[Tok(r)].has)
    BY <1>4, <1>o DEF Reposition, Holding, At
  <2>3. Tok(r)' = Tok(r)
    BY <2>1, <1>o, Frames
  <2>4. Ends(r)' /\ Holding(r)'
    <3>1. CASE call'[r].at = "amend"
      <4>1. Ends(r)'
        BY <2>1, <3>1, <1>o, Frames DEF Steps
      <4> QED BY <4>1, <3>1, <2>1, <2>2, <2>3 DEF Holding, Cached
    <3>2. CASE call'[r].at = "done"
      BY <3>2, <2>1, <2>2, <2>3, <1>d DEF Cached
    <3> QED BY <2>1, <3>1, <3>2
  <2> QED BY <2>1, <2>2, <2>4, <1>m, <1>p
<1>5. CASE Amend(r)
  <2>1. /\ Advances(r) /\ call'[r].at = "done" /\ call'[r].ok
        /\ UNCHANGED <<cache, list>> /\ saved \subseteq saved'
    BY <1>5, <1>0, <1>o, GotoMoves DEF Amend
  <2>2. Cached(Tok(r)) => r \in cache[Tok(r)].has
    BY <1>5, <1>o DEF Amend, Holding, At
  <2>3. Tok(r)' = Tok(r)
    BY <2>1, <1>o, Frames
  <2>4. Ends(r)' /\ Holding(r)'
    BY <2>1, <2>2, <2>3, <1>d DEF Cached
  <2> QED BY <2>1, <2>4, <1>m, <1>p
<1> QED BY <1>1, <1>2, <1>3, <1>4, <1>5 DEF UpdateSession

\* A step of a request that revokes its token, which removes no other's copy.
LEMMA SeqRevoke ==
  ASSUME TypeOK, TypeOK', InSequence, SeqInv, NEW r \in Requests,
         DeleteSession(r) \/ DeleteSessions(r)
  PROVE  SeqInv'
<1>0. /\ call[r].at \in {"check", "locate", "unlist", "evict", "probe", "erase",
                         "peek", "drop", "eraseMany"}
      /\ call[r].at \in Steps
  BY DEF DeleteSession, Check, Locate, Unlist, Evict, Probe, Erase,
         DeleteSessions, Peek, Drop, EraseMany, At, Steps
<1>o. /\ call[r].op \in Revokes /\ call[r].ok /\ Tok(r) \in Tokens /\ Holding(r)
      /\ deploy' = deploy /\ saved' = saved
  BY <1>0, SeqOp DEF DeleteSession, Check, Locate, Unlist, Evict, Probe, Erase,
         DeleteSessions, Peek, Drop, EraseMany, Revokes
<1>c. /\ cache \in [Tokens -> Copy] /\ list \subseteq Tokens /\ rows \subseteq Tokens
      /\ failures \in Nat
  BY DEF TypeOK
<1>p. /\ CachePath("deleteSession") = {"check", "locate", "unlist", "evict", "probe", "erase", "done"}
      /\ CachePath("deleteSessions") = {"peek", "drop", "eraseMany", "done"}
  BY DEF CachePath
<1>l. \A t \in Tokens : Cached(t) => t \in list \/ (At(r, "evict") /\ t = Tok(r))
  <2>1. \A q \in Requests : At(q, "evict") => q = r
    BY <1>0, Alone DEF InFlight, At, Steps
  <2> QED BY <2>1 DEF SeqInv, Listed
<1>h. ~CacheOnly => \A t \in rows : Cached(t) \/ t = Tok(r)
  <2>1. \A q \in Requests : \A t : Handles(q, t) => q = r
    BY <1>0, Alone DEF Handles, InFlight
  <2> QED BY <2>1, <1>o DEF SeqInv, RowsCached, Handles, Creates, Revokes
<1>v. Revoking(Tok(r))
  BY <1>0, <1>o DEF Revoking, At
\* A step that keeps what is cached, but for its token perhaps.
<1>m. ASSUME Advances(r), call'[r].at \in CachePath(call[r].op), call'[r].ok, Holding(r)',
             cache' = cache \/ cache' = [cache EXCEPT ![Tok(r)] = Absent],
             list \ {Tok(r)} \subseteq list',
             Tok(r) \in list' \/ ~cache'[Tok(r)].there \/ call'[r].at = "evict",
             rows' \subseteq rows,
             call'[r].at = "done" =>
               ~cache'[Tok(r)].there /\ (CacheOnly \/ Tok(r) \notin rows')
      PROVE  SeqInv'
  <2>1. /\ Tok(r)' = Tok(r) /\ CacheOnly' = CacheOnly
        /\ \A t \in Tokens : Known(t)' => Known(t)
        /\ call'[r].op = call[r].op
    BY <1>m, <1>o, Frames DEF Revokes, Advances
  <2>2. /\ \A t \in Tokens : t # Tok(r) => cache'[t] = cache[t]
        /\ cache'[Tok(r)].there => cache'[Tok(r)] = cache[Tok(r)]
    BY <1>m, <1>o, <1>c DEF Absent
  <2>3. Finds(r)' /\ Ends(r)'
    <3>1. CASE call'[r].at \in Steps
      BY <3>1, <1>m, <1>o, Frames
    <3>2. CASE call'[r].at = "done"
      <4>1. Finds(r)'
        BY <3>2, <1>m, <1>o, Frames DEF Revokes
      <4> QED BY <4>1, <3>2, <2>1, <1>m, <1>o DEF Ends, Revokes, Cached
    <3>3. call'[r].at \in Steps \/ call'[r].at = "done"
      BY <1>m, <1>o, <1>p DEF Revokes, Steps
    <3> QED BY <3>1, <3>2, <3>3
  <2>4. Listed'
    <3>1. ASSUME NEW t \in Tokens, cache'[t].there, t \notin list' PROVE t = Tok(r) /\ At(r, "evict")'
      <4>1. t = Tok(r)
        BY <3>1, <2>2, <1>l, <1>m DEF Cached
      <4> QED BY <4>1, <3>1, <1>m DEF At
    <3> QED BY <3>1, <2>1 DEF Listed, Cached
  <2>5. RowsCached'
    <3> SUFFICES ASSUME ~CacheOnly, NEW t \in rows', ~cache'[t].there
                 PROVE  \E q \in Requests : Handles(q, t)'
      BY <2>1 DEF RowsCached, Cached
    <3>1. t = Tok(r)
      BY <2>2, <1>h, <1>m, <1>c DEF Cached
    <3>2. call'[r].at \in Steps
      BY <3>1, <1>m, <1>o, <1>p DEF Steps, Revokes
    <3>3. Handles(r, t)'
      BY <3>1, <3>2, <2>1, <1>o DEF Handles, InFlight
    <3> QED BY <3>3
  <2>6. \A t \in Tokens : cache[t].there /\ ~cache'[t].there => Revoking(t)
    BY <2>2, <1>v
  <2>7. \A t \in Tokens : cache'[t].there =>
           \/ /\ cache[t].there
              /\ \A q \in Requests : Done(q) /\ q \in cache[t].has => q \in cache'[t].has
           \/ ~Known(t) /\ DoneUpdates \subseteq cache'[t].has
    BY <2>2
  <2> QED BY <2>1, <2>3, <2>4, <2>5, <2>6, <2>7, <1>m, <1>o, SeqMove
<1>q. ASSUME Advances(r), call'[r].at \in {"evict", "locate", "drop", "done"} PROVE Holding(r)'
  BY <1>q DEF Holding
<1>g. ASSUME Advances(r), call'[r].at \in {"probe", "erase", "eraseMany"}, ~cache'[Tok(r)].there
      PROVE  Holding(r)'
  BY <1>g, <1>o, Frames DEF Holding, Cached
<1>e. /\ OrEnd("probe") \in {"probe", "done"} /\ (OrEnd("probe") = "done" => CacheOnly)
      /\ OrEnd("eraseMany") \in {"eraseMany", "done"} /\ (OrEnd("eraseMany") = "done" => CacheOnly)
  BY DEF OrEnd
<1>d. At(r, "evict") \/ At(r, "probe") \/ At(r, "check") \/ At(r, "locate") \/ At(r, "unlist")
        \/ At(r, "erase") => call[r].op = "deleteSession"
  BY SeqOp DEF At
<1>n. At(r, "peek") \/ At(r, "drop") \/ At(r, "eraseMany") => call[r].op = "deleteSessions"
  BY SeqOp DEF At
<1>1. CASE Check(r)
  <2>1. /\ Advances(r) /\ call'[r].at \in {"locate", "evict"} /\ call'[r].ok
        /\ UNCHANGED <<rows, cache, list>> /\ At(r, "check")
    BY <1>1, <1>0, <1>o, GotoMoves DEF Check
  <2> QED BY <2>1, <1>l, <1>m, <1>q, <1>d, <1>p, <1>o DEF Cached, At
<1>2. CASE Locate(r)
  <2>0. Become(r, [call[r] EXCEPT !.at = IF list = {} THEN "evict" ELSE "unlist", !.seen = list])
    BY <1>2 DEF Locate
  <2>1. /\ Advances(r) /\ call'[r].at \in {"evict", "unlist"} /\ call'[r].ok /\ call'[r].seen = list
    BY <2>0, <1>0, <1>o, SeenMoves
  <2>2. UNCHANGED <<rows, cache, list>> /\ At(r, "locate")
    BY <1>2 DEF Locate
  <2>3. Holding(r)'
    BY <2>1, <2>2 DEF Holding
  <2> QED BY <2>1, <2>2, <2>3, <1>l, <1>m, <1>d, <1>p, <1>o DEF Cached, At
<1>3. CASE Unlist(r)
  <2>1. /\ Advances(r) /\ call'[r].at = "evict" /\ call'[r].ok
        /\ UNCHANGED <<rows, cache>> /\ At(r, "unlist") /\ list' = list \ {Tok(r)}
    BY <1>3, <1>0, <1>o, GotoMoves DEF Unlist, Holding, At
  <2> QED BY <2>1, <1>m, <1>q, <1>d, <1>p, <1>o
<1>4. CASE Evict(r)
  <2>1. /\ Advances(r) /\ call'[r].at \in {"probe", "done"} /\ call'[r].ok
        /\ (call'[r].at = "done" => CacheOnly)
        /\ UNCHANGED <<rows, list>> /\ At(r, "evict") /\ cache' = [cache EXCEPT ![Tok(r)] = Absent]
    BY <1>4, <1>0, <1>o, <1>e, GotoMoves DEF Evict
  <2>2. ~cache'[Tok(r)].there
    BY <2>1, <1>o, <1>c DEF Absent
  <2> QED BY <2>1, <2>2, <1>m, <1>q, <1>g, <1>d, <1>p, <1>o
<1>5. CASE Probe(r)
  <2>0. ~(failures < deploy.maxFailures)
    BY <1>c DEF InSequence
  <2>1. /\ Advances(r) /\ call'[r].at \in {"erase", "done"} /\ call'[r].ok
        /\ (call'[r].at = "done" => Tok(r) \notin rows)
        /\ UNCHANGED <<rows, list, cache>> /\ At(r, "probe")
    BY <1>5, <2>0, <1>0, <1>o, GotoMoves DEF Probe
  <2>2. ~cache'[Tok(r)].there
    BY <2>1, <1>o DEF Holding, At, Cached
  <2> QED BY <2>1, <2>2, <1>m, <1>q, <1>g, <1>d, <1>p, <1>o
<1>6. CASE Erase(r)
  <2>1. /\ Advances(r) /\ call'[r].at = "done" /\ call'[r].ok
        /\ rows' = rows \ {Tok(r)} /\ UNCHANGED <<list, cache>> /\ At(r, "erase")
    BY <1>6, <1>0, <1>o, GotoMoves DEF Erase
  <2>2. ~cache'[Tok(r)].there
    BY <2>1, <1>o DEF Holding, At, Cached
  <2> QED BY <2>1, <2>2, <1>m, <1>q, <1>d, <1>p, <1>o
<1>7. CASE Peek(r)
  <2>1. /\ Advances(r) /\ call'[r].at \in {"drop", "eraseMany", "done"} /\ call'[r].ok
        /\ (call'[r].at \in {"eraseMany", "done"} => ~Cached(Tok(r)))
        /\ (call'[r].at = "done" => CacheOnly)
        /\ UNCHANGED <<rows, list, cache>> /\ At(r, "peek")
    BY <1>7, <1>0, <1>o, <1>e, GotoMoves DEF Peek, Cached
  <2>2. call'[r].at \in {"eraseMany", "done"} => ~cache'[Tok(r)].there
    BY <2>1 DEF Cached
  <2>3. Holding(r)'
    BY <2>1, <2>2, <1>q, <1>g
  <2>4. Tok(r) \in list' \/ ~cache'[Tok(r)].there
    BY <2>1, <1>l, <1>o DEF Cached, At
  <2> QED BY <2>1, <2>2, <2>3, <2>4, <1>m, <1>n, <1>p, <1>o
<1>8. CASE Drop(r)
  <2>1. /\ Advances(r) /\ call'[r].at \in {"eraseMany", "done"} /\ call'[r].ok
        /\ (call'[r].at = "done" => CacheOnly)
        /\ UNCHANGED <<rows, list>> /\ At(r, "drop") /\ cache' = [cache EXCEPT ![Tok(r)] = Absent]
    BY <1>8, <1>0, <1>o, <1>e, GotoMoves DEF Drop
  <2>2. ~cache'[Tok(r)].there
    BY <2>1, <1>o, <1>c DEF Absent
  <2> QED BY <2>1, <2>2, <1>m, <1>q, <1>g, <1>n, <1>p, <1>o
<1>9. CASE EraseMany(r)
  <2>1. /\ Advances(r) /\ call'[r].at = "done" /\ call'[r].ok
        /\ rows' = rows \ {Tok(r)} /\ UNCHANGED <<list, cache>> /\ At(r, "eraseMany")
    BY <1>9, <1>0, <1>o, GotoMoves DEF EraseMany
  <2>2. ~cache'[Tok(r)].there
    BY <2>1, <1>o DEF Holding, At, Cached
  <2> QED BY <2>1, <2>2, <1>m, <1>q, <1>n, <1>p, <1>o
<1> QED BY <1>1, <1>2, <1>3, <1>4, <1>5, <1>6, <1>7, <1>8, <1>9 DEF DeleteSession, DeleteSessions

\* deleteUserSessions revokes every token, and leaves no copy.
LEMMA SeqDeleteUser ==
  ASSUME TypeOK, TypeOK', InSequence, SeqInv, NEW r \in Requests, DeleteUserSessions(r)
  PROVE  SeqInv'
<1>0. call[r].at \in {"members", "expel", "disband", "eraseAll"} /\ call[r].at \in Steps
  BY DEF DeleteUserSessions, Members, Expel, Disband, EraseAll, At, Steps
<1>o. /\ call[r].op = "deleteUserSessions" /\ call[r].ok /\ Tok(r) \in Tokens /\ Holding(r)
      /\ deploy' = deploy /\ saved' = saved
  BY <1>0, SeqOp DEF DeleteUserSessions, Members, Expel, Disband, EraseAll
<1>c. /\ cache \in [Tokens -> Copy] /\ list \subseteq Tokens /\ rows \subseteq Tokens
      /\ call[r].todo \subseteq Tokens
  BY DEF TypeOK, Call
<1>p. CachePath("deleteUserSessions") = {"members", "expel", "disband", "eraseAll", "done"}
  BY DEF CachePath
<1>l. \A t \in Tokens : Cached(t) => t \in list
  <2>1. ~At(r, "evict")
    BY <1>0 DEF At
  <2> QED BY <2>1, <1>0, Alone DEF SeqInv, Listed, InFlight
<1>v. \A t : Revoking(t)
  BY <1>0, <1>o DEF Revoking, At
<1>m. ASSUME Advances(r), call'[r].at \in CachePath(call[r].op), call'[r].ok, Holding(r)',
             \A t \in Tokens : cache'[t].there => cache'[t] = cache[t],
             list' = list \/ \A t \in Tokens : ~cache'[t].there,
             call'[r].at = "done" => \A t \in Tokens : ~cache'[t].there,
             call'[r].at = "done" /\ ~CacheOnly => rows' = {}
      PROVE  SeqInv'
  <2>1. /\ Tok(r)' = Tok(r) /\ CacheOnly' = CacheOnly
        /\ \A t \in Tokens : Known(t)' => Known(t)
        /\ call'[r].op = call[r].op
    BY <1>m, <1>o, Frames DEF Advances
  <2>2. call'[r].at \in Steps \/ call'[r].at = "done"
    BY <1>m, <1>o, <1>p DEF Steps
  <2>3. Finds(r)' /\ Ends(r)'
    <3>1. CASE call'[r].at \in Steps
      BY <3>1, <1>m, <1>o, Frames
    <3>2. CASE call'[r].at = "done"
      <4>1. Finds(r)'
        BY <3>2, <1>m, <1>o, Frames
      <4> QED BY <4>1, <3>2, <2>1, <1>m, <1>o DEF Ends, Revokes, Cached
    <3> QED BY <3>1, <3>2, <2>2
  <2>4. Listed'
    BY <1>m, <1>l DEF Listed, Cached
  <2>5. RowsCached'
    <3>1. call'[r].at \in Steps => \A t : Handles(r, t)'
      BY <2>1, <1>o DEF Handles, InFlight
    <3> QED BY <3>1, <2>1, <2>2, <1>m DEF RowsCached
  <2>6. \A t \in Tokens : cache'[t].there =>
           \/ /\ cache[t].there
              /\ \A q \in Requests : Done(q) /\ q \in cache[t].has => q \in cache'[t].has
           \/ ~Known(t) /\ DoneUpdates \subseteq cache'[t].has
    BY <1>m
  <2> QED BY <2>1, <2>3, <2>4, <2>5, <2>6, <1>m, <1>o, <1>v, SeqMove
<1>1. CASE Members(r)
  <2>a. PICK pc : pc = (IF list = {} THEN "disband" ELSE "expel")
    OBVIOUS
  <2>l. PICK ts : ts = list
    OBVIOUS
  <2>b. Become(r, [call[r] EXCEPT !.at = pc, !.todo = ts])
    BY <1>1, <2>a, <2>l DEF Members
  <2>c. pc # "idle"
    BY <2>a
  <2>e. /\ call'[r] = [call[r] EXCEPT !.at = pc, !.todo = ts]
        /\ \A q \in Requests : q # r => call'[q] = call[q]
    BY <2>b, BecomeIs
  <2>d. /\ Advances(r) /\ call'[r].at = pc /\ call'[r].todo = ts
        /\ call'[r].ok = call[r].ok
    BY <2>c, <2>e, <1>0 DEF Advances, Call, TypeOK
  <2>1. /\ Advances(r) /\ call'[r].at = (IF list = {} THEN "disband" ELSE "expel")
        /\ call'[r].ok /\ call'[r].todo = list
    BY <2>a, <2>d, <2>l, <1>o
  <2>2. UNCHANGED <<rows, cache, list>>
    BY <1>1 DEF Members
  <2>3. Holding(r)'
    BY <2>1, <2>2, <1>l DEF Holding, Cached
  <2> QED BY <2>1, <2>2, <2>3, <1>m, <1>o, <1>p
<1>2. CASE Expel(r)
  <2>1. PICK t \in call[r].todo :
          /\ cache' = [cache EXCEPT ![t] = Absent]
          /\ Become(r, [call[r] EXCEPT !.at = IF call[r].todo = {t} THEN "disband" ELSE @,
                                       !.todo = @ \ {t}])
    BY <1>2 DEF Expel
  <2>2. /\ UNCHANGED <<rows, list>> /\ call[r].at = "expel"
        /\ \A u \in Tokens : Cached(u) => u \in call[r].todo
    BY <1>2, <1>o DEF Expel, Holding, At
  <2>b. Become(r, [call[r] EXCEPT !.at = IF call[r].todo = {t} THEN "disband" ELSE "expel",
                                  !.todo = call[r].todo \ {t}])
    <3>1. call[r] \in Call
      BY DEF TypeOK
    <3> QED BY <2>1, <2>2, <3>1 DEF Call
  <2>3. /\ Advances(r) /\ call'[r].ok /\ call'[r].todo = call[r].todo \ {t}
        /\ call'[r].at = (IF call[r].todo = {t} THEN "disband" ELSE "expel")
    BY <2>b, <1>0, <1>o, TodoMoves
  <2>4. /\ ~cache'[t].there
        /\ \A u \in Tokens : u # t => cache'[u] = cache[u]
    BY <2>1, <1>c DEF Absent
  <2>5. Holding(r)'
    BY <2>2, <2>3, <2>4 DEF Holding, Cached
  <2>6. call'[r].at \in CachePath(call[r].op) /\ call'[r].at # "done"
    BY <2>3, <1>o, <1>p
  <2> QED BY <2>2, <2>3, <2>4, <2>5, <2>6, <1>m
<1>3. CASE Disband(r)
  <2>1. /\ Advances(r) /\ call'[r].at = OrEnd("eraseAll") /\ call'[r].ok
        /\ UNCHANGED <<rows, cache>> /\ \A u \in Tokens : ~Cached(u)
    BY <1>3, <1>0, <1>o, GotoMoves DEF Disband, Holding, At, OrEnd
  <2>2. call'[r].at \in {"eraseAll", "done"} /\ (call'[r].at = "done" => CacheOnly)
    BY <2>1 DEF OrEnd
  <2>3. Holding(r)'
    BY <2>1, <2>2 DEF Holding, Cached
  <2> QED BY <2>1, <2>2, <2>3, <1>m, <1>o, <1>p DEF Cached
<1>4. CASE EraseAll(r)
  <2>1. /\ Advances(r) /\ call'[r].at = "done" /\ call'[r].ok
        /\ UNCHANGED <<list, cache>> /\ rows' = {} /\ \A u \in Tokens : ~Cached(u)
    BY <1>4, <1>0, <1>o, GotoMoves DEF EraseAll, Holding, At
  <2>2. Holding(r)'
    BY <2>1 DEF Holding
  <2> QED BY <2>1, <2>2, <1>m, <1>o, <1>p DEF Cached
<1> QED BY <1>1, <1>2, <1>3, <1>4 DEF DeleteUserSessions

LEMMA SeqList ==
  ASSUME TypeOK, TypeOK', InSequence, SeqInv, NEW r \in Requests, ListSessions(r)
  PROVE  SeqInv'
<1>0. call[r].at \in {"browse", "show"} /\ call[r].at \in Steps
  <2>1. ~At(r, "readAll")
    BY SeqOp DEF At
  <2> QED BY <2>1 DEF ListSessions, Browse, Show, ReadAll, At, Steps
<1>o. /\ call[r].op = "listSessions" /\ call[r].ok /\ Tok(r) \in Tokens /\ Holding(r)
      /\ call[r].op \in AllOps
  BY <1>0, SeqOp DEF AllOps
<1>u. UNCHANGED <<deploy, rows, saved, cache, list>>
  BY DEF ListSessions, Browse, Show, ReadAll
<1>c. /\ cache \in [Tokens -> Copy] /\ list \subseteq Tokens /\ call[r] \in Call
      /\ call[r].todo \subseteq Tokens /\ call[r].held \in [Tokens -> Copy]
  BY DEF TypeOK, Call
<1>p. CachePath("listSessions") = {"browse", "show", "done"}
  BY DEF CachePath
<1>l. /\ ~At(r, "evict")
      /\ \A t \in Tokens : Cached(t) => t \in list
      /\ ~CacheOnly => \A t \in rows : Cached(t)
  BY <1>0, <1>o, Calm DEF Creates, Revokes
\* What is not shown when the listing is done is not cached, or is revoked.
<1>d. ASSUME Advances(r), call'[r].at = "done", call'[r].ok,
             \A t \in Tokens : Cached(t) => call'[r].held[t].there
      PROVE  SeqInv'
  <2>1. Holding(r)' /\ call'[r].op = "listSessions"
    BY <1>d, <1>o, <1>u, Frames DEF Advances
  <2>2. Ends(r)'
    BY <2>1 DEF Ends, Revokes
  <2>3. ASSUME NEW t \in Tokens, Existed(t, r)' PROVE call'[r].held[t].there \/ Revoking(t)'
    <3>1. Existed(t, r)
      BY <2>3, <1>d, AdvanceFrame DEF SeqInv
    <3>2. Known(t)
      BY <3>1 DEF Existed, Known, SeqInv, BeforeDone
    <3>3. Cached(t) \/ Revoking(t)
      BY <3>2 DEF SeqInv, CacheKept
    <3>4. Revoking(t) => Revoking(t)'
      BY <1>d, AdvanceFrame DEF SeqInv
    <3> QED BY <3>3, <3>4, <1>d
  <2>4. Finds(r)'
    BY <2>1, <2>3 DEF Finds, Found
  <2>5. call'[r].at \in CachePath(call[r].op) /\ call[r].op # "createSession"
    BY <1>d, <1>o, <1>p
  <2> QED BY <2>1, <2>2, <2>4, <2>5, <1>d, <1>u, <1>l, SeqQuiet
<1>g. ASSUME Advances(r), call'[r].at = "show", call'[r].ok, Holding(r)'
      PROVE  SeqInv'
  <2>1. call'[r].at \in Steps /\ call'[r].at \in CachePath(call[r].op)
    BY <1>g, <1>o, <1>p DEF Steps
  <2>2. Ends(r)' /\ Finds(r)'
    BY <2>1, <1>g, <1>u, Frames
  <2> QED BY <2>1, <2>2, <1>g, <1>u, <1>l, SeqQuiet
<1>1. CASE Browse(r)
  <2>a. PICK pc : pc = (IF list = {} THEN "done" ELSE "show")
    OBVIOUS
  <2>l. PICK ts : ts = list
    OBVIOUS
  <2>b. Become(r, [call[r] EXCEPT !.at = pc, !.todo = ts])
    BY <1>1, <2>a, <2>l DEF Browse
  <2>c. pc # "idle"
    BY <2>a
  <2>e. /\ call'[r] = [call[r] EXCEPT !.at = pc, !.todo = ts]
        /\ \A q \in Requests : q # r => call'[q] = call[q]
    BY <2>b, BecomeIs
  <2>d. /\ Advances(r) /\ call'[r].at = pc /\ call'[r].todo = ts
        /\ call'[r].ok = call[r].ok
    BY <2>c, <2>e, <1>0 DEF Advances, Call, TypeOK
  <2>2. /\ Advances(r) /\ call'[r].at = (IF list = {} THEN "done" ELSE "show")
        /\ call'[r].ok /\ call'[r].todo = list
    BY <2>a, <2>d, <2>l, <1>o
  <2>3. CASE list = {}
    BY <2>2, <2>3, <1>l, <1>d
  <2>4. CASE list # {}
    <3>1. Holding(r)'
      BY <2>2, <2>4, <1>u, <1>l DEF Holding, Cached
    <3> QED BY <3>1, <2>2, <2>4, <1>g
  <2> QED BY <2>3, <2>4
<1>2. CASE Show(r)
  <2>1. PICK t \in call[r].todo :
          Become(r, [call[r] EXCEPT !.at = IF call[r].todo = {t} THEN "done" ELSE @,
                                    !.todo = @ \ {t}, !.held[t] = cache[t]])
    BY <1>2 DEF Show
  <2>2. /\ call'[r] = [call[r] EXCEPT !.at = IF call[r].todo = {t} THEN "done" ELSE @,
                                      !.todo = @ \ {t}, !.held[t] = cache[t]]
        /\ \A q \in Requests : q # r => call'[q] = call[q]
    BY <2>1, BecomeIs
  <2>3. /\ call[r].at = "show"
        /\ \A u \in Tokens : Cached(u) => u \in call[r].todo \/ call[r].held[u].there
    BY <1>2, <1>o DEF Show, At, Holding
  <2>4. /\ call'[r].at = (IF call[r].todo = {t} THEN "done" ELSE "show")
        /\ call'[r].todo = call[r].todo \ {t}
        /\ call'[r].held = [call[r].held EXCEPT ![t] = cache[t]]
        /\ call'[r].op = call[r].op /\ call'[r].tok = call[r].tok
        /\ call'[r].before = call[r].before /\ call'[r].ok = call[r].ok
    BY <2>2, <2>3, <1>c DEF Call
  <2>5. Advances(r) /\ call'[r].ok
    BY <2>2, <2>4, <1>0, <1>o DEF Advances
  <2>6. \A u \in Tokens : Cached(u) => u \in call'[r].todo \/ call'[r].held[u].there
    BY <2>3, <2>4, <1>c DEF Cached
  <2>7. CASE call[r].todo = {t}
    BY <2>4, <2>5, <2>6, <2>7, <1>d
  <2>8. CASE call[r].todo # {t}
    <3>1. Holding(r)'
      BY <2>4, <2>6, <2>8, <1>u DEF Holding, Cached
    <3> QED BY <3>1, <2>4, <2>5, <2>8, <1>g
  <2> QED BY <2>7, <2>8
<1>3. ~ReadAll(r)
  BY <1>0 DEF ReadAll, At
<1> QED BY <1>1, <1>2, <1>3 DEF ListSessions

\* The request of a refresh is done when no branch has anything left to do.
LEMMA Settled ==
  ASSUME NEW c \in Call, c.ok
  PROVE  /\ Settle(c).op = c.op /\ Settle(c).tok = c.tok /\ Settle(c).before = c.before
         /\ Settle(c).todo = c.todo /\ Settle(c).held = c.held /\ Settle(c).user = c.user
         /\ Settle(c).ok
         /\ \/ Settle(c).at = c.at
            \/ Settle(c).at = "done" /\ c.todo = {} /\ \A t \in Tokens : ~c.held[t].there
  BY DEF Settle, Call

LEMMA SeqUpdateUser ==
  ASSUME TypeOK, TypeOK', InSequence, SeqInv, NEW r \in Requests, UpdateUser(r)
  PROVE  SeqInv'
<1>0. call[r].at \in {"save", "devices", "refresh"} /\ call[r].at \in Steps
  BY DEF UpdateUser, Save, Devices, RefreshGet, RefreshSet, RefreshFail, At, Steps
<1>o. /\ call[r].op = "updateUser" /\ call[r].ok /\ Tok(r) \in Tokens /\ Holding(r)
      /\ call[r].op \in AllOps
  BY <1>0, SeqOp DEF AllOps, Updates
<1>u. UNCHANGED <<deploy, rows, list>> /\ UsesCache
  BY DEF UpdateUser, Save, Devices, RefreshGet, RefreshSet, RefreshFail, InSequence
<1>c. /\ cache \in [Tokens -> Copy] /\ list \subseteq Tokens /\ rows \subseteq Tokens
      /\ call[r] \in Call /\ failures \in Nat
      /\ call[r].todo \subseteq Tokens /\ call[r].held \in [Tokens -> Copy]
  BY DEF TypeOK, Call
<1>p. CachePath("updateUser") = {"save", "devices", "refresh", "done"}
  BY DEF CachePath
<1>l. /\ ~At(r, "evict")
      /\ \A t \in Tokens : Cached(t) => t \in list
      /\ ~CacheOnly => \A t \in rows : Cached(t)
  BY <1>0, <1>o, Calm DEF Creates, Revokes
\* A step that keeps the copies, with the updates that are done.
<1>m. ASSUME Advances(r), call'[r].at \in {"devices", "refresh", "done"}, call'[r].ok,
             saved \subseteq saved', r \in saved',
             \A t \in Tokens : /\ cache'[t].there <=> cache[t].there
                               /\ \A q \in Requests : Done(q) /\ q \in cache[t].has
                                                        => q \in cache'[t].has,
             call'[r].at = "done" => \A t \in Tokens : cache'[t].there => r \in cache'[t].has,
             call'[r].at # "done" => Holding(r)'
      PROVE  SeqInv'
  <2>1. /\ Tok(r)' = Tok(r) /\ CacheOnly' = CacheOnly
        /\ \A t \in Tokens : Known(t)' => Known(t)
        /\ call'[r].op = call[r].op
    BY <1>m, <1>o, <1>u, Frames DEF Advances
  <2>2. Holding(r)' /\ Ends(r)' /\ Finds(r)'
    <3>1. CASE call'[r].at = "done"
      <4>1. Holding(r)' /\ Finds(r)'
        BY <3>1, <1>m, <1>o, <1>u, Frames
      <4> QED BY <4>1, <3>1, <2>1, <1>m, <1>o DEF Ends, Revokes, Cached
    <3>2. CASE call'[r].at # "done"
      <4>1. call'[r].at \in Steps
        BY <3>2, <1>m DEF Steps
      <4> QED BY <4>1, <3>2, <1>m, <1>u, Frames
    <3> QED BY <3>1, <3>2
  <2>3. Listed' /\ RowsCached'
    BY <2>1, <1>m, <1>l, <1>u, <1>c DEF Listed, RowsCached, Cached
  <2>4. call'[r].at \in CachePath(call[r].op)
    BY <1>m, <1>o, <1>p
  <2> QED BY <2>1, <2>2, <2>3, <2>4, <1>m, <1>u, SeqMove
<1>h. ASSUME Advances(r), call'[r].at # "done" , call'[r].at \in {"devices", "refresh"}
      PROVE  DoneUpdates' = DoneUpdates
  <2>1. call'[r].at \in Steps
    BY <1>h DEF Steps
  <2> QED BY <2>1, <1>h, <1>u, Frames
<1>1. CASE Save(r)
  <2>1. Become(r, [call[r] EXCEPT !.at = "devices", !.user = (saved \cap UserUpdates) \cup {r}])
    BY <1>1, <1>u DEF Save
  <2>2. /\ Advances(r) /\ call'[r].at = "devices" /\ call'[r].ok
        /\ call'[r].user = (saved \cap UserUpdates) \cup {r} /\ call'[r].held = call[r].held
    BY <2>1, <1>0, <1>o, UserMoves
  <2>3. /\ saved' = saved \cup {r} /\ cache' = cache
        /\ \A u \in Tokens : ~call[r].held[u].there
    BY <1>1, <1>o DEF Save, Holding, At
  <2>4. DoneUpdates \subseteq saved \cap UserUpdates
    BY DEF SeqInv, Ends, DoneUpdates, UserUpdates
  <2>5. DoneUpdates' = DoneUpdates
    BY <2>2, <1>h
  <2>6. Holding(r)'
    BY <2>2, <2>3, <2>4, <2>5 DEF Holding
  <2> QED BY <2>2, <2>3, <2>6, <1>m
<1>2. CASE Devices(r)
  <2>a. PICK pc : pc = (IF list = {} THEN "done" ELSE "refresh")
    OBVIOUS
  <2>l. PICK ts : ts = list
    OBVIOUS
  <2>b. Become(r, [call[r] EXCEPT !.at = pc, !.todo = ts])
    BY <1>2, <2>a, <2>l DEF Devices
  <2>c. pc # "idle"
    BY <2>a
  <2>e. /\ call'[r] = [call[r] EXCEPT !.at = pc, !.todo = ts]
        /\ \A q \in Requests : q # r => call'[q] = call[q]
    BY <2>b, BecomeIs
  <2>d. /\ Advances(r) /\ call'[r].at = pc /\ call'[r].todo = ts
        /\ call'[r].ok = call[r].ok
        /\ call'[r].user = call[r].user /\ call'[r].held = call[r].held
    BY <2>c, <2>e, <1>0 DEF Advances, Call, TypeOK
  <2>2. /\ Advances(r) /\ call'[r].at = (IF list = {} THEN "done" ELSE "refresh")
        /\ call'[r].ok /\ call'[r].todo = list
        /\ call'[r].user = call[r].user /\ call'[r].held = call[r].held
    BY <2>a, <2>d, <2>l, <1>o
  <2>3. /\ UNCHANGED <<saved, cache>> /\ r \in saved /\ {r} \cup DoneUpdates \subseteq call[r].user
        /\ \A u \in Tokens : ~call[r].held[u].there
    BY <1>2, <1>o DEF Devices, Holding, At
  <2>4. call'[r].at # "done" => Holding(r)'
    <3> SUFFICES ASSUME call'[r].at # "done" PROVE Holding(r)'
      OBVIOUS
    <3>1. DoneUpdates' = DoneUpdates
      BY <2>2, <1>h
    <3> QED BY <3>1, <2>2, <2>3, <1>l DEF Holding, Cached
  <2>5. call'[r].at = "done" => \A t \in Tokens : ~cache'[t].there
    BY <2>2, <2>3, <1>l DEF Cached
  <2> QED BY <2>2, <2>3, <2>4, <2>5, <1>m
<1>n. ASSUME call[r].at = "refresh"
      PROVE  /\ {r} \cup DoneUpdates \subseteq call[r].user /\ r \in saved
             /\ \A u \in Tokens :
                  /\ call[r].held[u].there => call[r].held[u] = cache[u]
                  /\ Cached(u) => u \in call[r].todo \/ call[r].held[u].there \/ r \in cache[u].has
  BY <1>n, <1>o DEF Holding
<1>3. CASE RefreshGet(r)
  <2>1. PICK t \in call[r].todo :
          Become(r, Settle([call[r] EXCEPT !.todo = @ \ {t}, !.held[t] = cache[t]]))
    BY <1>3 DEF RefreshGet
  <2>2. UNCHANGED <<saved, cache>> /\ call[r].at = "refresh"
    BY <1>3 DEF RefreshGet, At
  <2> DEFINE c == [call[r] EXCEPT !.todo = @ \ {t}, !.held[t] = cache[t]]
  <2>3. /\ c \in Call /\ c.ok /\ c.at = "refresh" /\ c.op = call[r].op /\ c.tok = call[r].tok
        /\ c.before = call[r].before /\ c.todo = call[r].todo \ {t} /\ c.user = call[r].user
        /\ c.held = [call[r].held EXCEPT ![t] = cache[t]]
    BY <2>2, <1>c, <1>o DEF Call
  <2>4. call'[r] = Settle(c) /\ \A q \in Requests : q # r => call'[q] = call[q]
    BY <2>1, BecomeIs
  <2> HIDE DEF c
  <2>5. /\ Advances(r) /\ call'[r].ok
        /\ call'[r].todo = call[r].todo \ {t} /\ call'[r].user = call[r].user
        /\ call'[r].held = [call[r].held EXCEPT ![t] = cache[t]]
        /\ \/ call'[r].at = "refresh"
           \/ call'[r].at = "done" /\ call'[r].todo = {} /\ \A u \in Tokens : ~call'[r].held[u].there
    BY <2>3, <2>4, <1>0, Settled DEF Advances
  <2>6. \A u \in Tokens :
           /\ call'[r].held[u].there => call'[r].held[u] = cache[u]
           /\ Cached(u) => u \in call'[r].todo \/ call'[r].held[u].there \/ r \in cache[u].has
    BY <2>2, <2>5, <1>n, <1>c DEF Cached
  <2>7. call'[r].at # "done" => Holding(r)'
    <3> SUFFICES ASSUME call'[r].at # "done" PROVE Holding(r)'
      OBVIOUS
    <3>1. DoneUpdates' = DoneUpdates
      BY <2>5, <1>h
    <3> QED BY <3>1, <2>2, <2>5, <2>6, <1>n DEF Holding, Cached
  <2>8. call'[r].at = "done" => \A u \in Tokens : cache'[u].there => r \in cache'[u].has
    BY <2>2, <2>5, <2>6 DEF Cached
  <2> QED BY <2>2, <2>5, <2>7, <2>8, <1>n, <1>m
<1>4. CASE RefreshSet(r)
  <2>1. PICK t \in Tokens :
          /\ call[r].held[t].there
          /\ cache' = [cache EXCEPT ![t] =
                         Present((call[r].held[t].has \ UserUpdates) \cup call[r].user)]
          /\ Become(r, Settle([call[r] EXCEPT !.held[t] = Absent]))
    BY <1>4 DEF RefreshSet
  <2>2. saved' = saved /\ call[r].at = "refresh"
    BY <1>4 DEF RefreshSet, At
  <2> DEFINE c == [call[r] EXCEPT !.held[t] = Absent]
  <2>3. /\ c \in Call /\ c.ok /\ c.at = "refresh" /\ c.op = call[r].op /\ c.tok = call[r].tok
        /\ c.before = call[r].before /\ c.todo = call[r].todo /\ c.user = call[r].user
        /\ c.held = [call[r].held EXCEPT ![t] = Absent]
    BY <2>2, <1>c, <1>o DEF Call, Absent, Copy
  <2>4. call'[r] = Settle(c) /\ \A q \in Requests : q # r => call'[q] = call[q]
    BY <2>1, BecomeIs
  <2> HIDE DEF c
  <2>5. /\ Advances(r) /\ call'[r].ok
        /\ call'[r].todo = call[r].todo /\ call'[r].user = call[r].user
        /\ call'[r].held = [call[r].held EXCEPT ![t] = Absent]
        /\ \/ call'[r].at = "refresh"
           \/ call'[r].at = "done" /\ call'[r].todo = {} /\ \A u \in Tokens : ~call'[r].held[u].there
    BY <2>3, <2>4, <1>0, Settled DEF Advances
  <2>6. /\ cache[t].there /\ call[r].held[t] = cache[t]
        /\ cache'[t].there
        /\ cache'[t].has = (cache[t].has \ UserUpdates) \cup call[r].user
        /\ \A u \in Tokens : u # t => cache'[u] = cache[u]
    BY <2>1, <2>2, <1>n, <1>c DEF Present
  <2>7. \A u \in Tokens : /\ cache'[u].there <=> cache[u].there
                          /\ \A q \in Requests : Done(q) /\ q \in cache[u].has
                                                   => q \in cache'[u].has
    BY <2>2, <2>6, <1>n DEF DoneUpdates
  <2>8. \A u \in Tokens :
           /\ call'[r].held[u].there => call'[r].held[u] = cache'[u]
           /\ cache'[u].there => u \in call'[r].todo \/ call'[r].held[u].there \/ r \in cache'[u].has
    BY <2>2, <2>5, <2>6, <1>n, <1>c DEF Cached, Absent
  <2>9. call'[r].at # "done" => Holding(r)'
    <3> SUFFICES ASSUME call'[r].at # "done" PROVE Holding(r)'
      OBVIOUS
    <3>1. DoneUpdates' = DoneUpdates
      BY <2>5, <1>h
    <3> QED BY <3>1, <2>2, <2>5, <2>8, <1>n DEF Holding, Cached
  <2>10. call'[r].at = "done" => \A u \in Tokens : cache'[u].there => r \in cache'[u].has
    BY <2>5, <2>8
  <2> QED BY <2>2, <2>5, <2>7, <2>9, <2>10, <1>n, <1>m
<1>5. ~RefreshFail(r)
  <2>1. ~(failures < deploy.maxFailures)
    BY <1>c DEF InSequence
  <2> QED BY <2>1 DEF RefreshFail
<1> QED BY <1>1, <1>2, <1>3, <1>4, <1>5 DEF UpdateUser

\* A request starts when none runs.
LEMMA NoneRuns ==
  ASSUME TypeOK, InSequence, OneAtATime,
         Cardinality({q \in Requests : InFlight(q)}) < deploy.maxInFlight
  PROVE  \A q \in Requests : ~InFlight(q)
<1> SUFFICES ASSUME NEW q \in Requests, InFlight(q) PROVE FALSE
  OBVIOUS
<1>1. {p \in Requests : InFlight(p)} = {q}
  BY DEF OneAtATime
<1>2. Cardinality({q}) = 1
  BY FS_Singleton
<1> QED BY <1>1, <1>2 DEF InSequence

LEMMA SeqStart ==
  ASSUME TypeOK, TypeOK', InSequence, SeqInv, NEW r \in Requests, NEW op \in Ops[r], Start(r, op)
  PROVE  SeqInv'
<1>0. call \in [Requests -> Call] /\ call[r] \in Call /\ op \in AllOps
  BY DeployTyped DEF TypeOK
<1>1. call[r].op = "none" /\ ~Done(r) /\ At(r, "idle")
  <2>1. At(r, "idle") /\ ~Done(r)
    BY DEF Start, At, Done
  <2>2. call[r].op \in AllOps \cup {"none"} /\ call[r].at \in CachePath(call[r].op)
    BY <1>0 DEF Call, SeqInv, OnCachePath
  <2>3. \A o \in AllOps : "idle" \notin CachePath(o)
    BY DEF CachePath, AllOps, Creates, Revokes, Updates
  <2> QED BY <2>1, <2>2, <2>3 DEF At
<1>2. /\ FirstStep(op) \in CachePath(op) /\ FirstStep(op) # "readAll"
      /\ FirstStep(op) \in {"insert", "enlist", "find", "merge", "check", "members", "peek",
                            "browse", "save"}
  BY <1>0 DEF FirstStep, CachePath, AllOps, Creates, Revokes, Updates, InSequence
<1>3. /\ call'[r].op = op /\ call'[r].tok = call[r].tok /\ call'[r].at = FirstStep(op)
      /\ call'[r].before = {q \in Requests : Done(q)}
      /\ call'[r].ok /\ \A t \in Tokens : ~call'[r].held[t].there
  BY <1>0 DEF Start, Become, NoCall, Tok, NothingHeld, Absent
<1>4. \A q \in Requests : q # r => call'[q] = call[q]
  BY <1>0 DEF Start, Become
<1>5. \A q \in Requests : (Done(q)' <=> Done(q)) /\ (Done(q)' => call'[q] = call[q] /\ q # r)
  BY <1>1, <1>2, <1>3, <1>4 DEF Done, At
<1>6. UNCHANGED <<deploy, rows, saved, cache, list>> /\ CacheOnly' = CacheOnly
  BY DEF Start, CacheOnly, UsesTable, UsesCache, Storage
<1>7. \A t : Known(t)' <=> Known(t)
  BY <1>5 DEF Known, Tok
<1>8. \A t : Revoking(t) => Revoking(t)'
  BY <1>1, <1>4 DEF Revoking, At, Tok
<1>9. \A q \in Requests : Done(q) => \A c \in call[q].before : c \in Requests /\ Done(c)
  BY DEF SeqInv, BeforeDone
<1>10. \A q \in Requests : Done(q)' => \A t : Existed(t, q)' <=> Existed(t, q)
  BY <1>5, <1>9 DEF Existed, Tok
<1>i. \A q \in Requests : ~InFlight(q)
  BY NoneRuns DEF Start, SeqInv
<1>11. OnCachePath'
  BY <1>2, <1>3, <1>4 DEF SeqInv, OnCachePath
<1>12. OneCreator'
  <2>1. CASE op = "createSession"
    <3>1. Fresh(Tok(r)) /\ Tok(r)' = Tok(r)
      BY <2>1, <1>3 DEF Start, Tok
    <3> QED BY <3>1, <1>1, <1>3, <1>4 DEF SeqInv, OneCreator, Fresh, Tok
  <2>2. CASE op # "createSession"
    BY <2>2, <1>1, <1>3, <1>4 DEF SeqInv, OneCreator, Tok
  <2> QED BY <2>1, <2>2
<1>13. TokensKnown'
  <2>1. op # "createSession" => Known(Tok(r))
    BY DEF Start
  <2> QED BY <2>1, <1>3, <1>4, <1>7 DEF SeqInv, TokensKnown, Tok
<1>14. BeforeDone'
  BY <1>3, <1>4, <1>5 DEF SeqInv, BeforeDone
<1>15. OneAtATime'
  BY <1>i, <1>4 DEF OneAtATime, InFlight
<1>16. Listed' /\ RowsCached' /\ CacheKept'
  <2>1. \A t \in Tokens : Cached(t) => t \in list
    BY <1>i DEF SeqInv, Listed, At, InFlight, Steps
  <2>2. ~CacheOnly => \A t \in rows : Cached(t)
    BY <1>i DEF SeqInv, RowsCached, Handles
  <2>3. Listed'
    BY <2>1, <1>6 DEF Listed, Cached
  <2>4. RowsCached'
    BY <2>2, <1>6 DEF RowsCached, Cached
  <2>5. CacheKept'
    BY <1>6, <1>7, <1>8 DEF SeqInv, CacheKept, Cached
  <2> QED BY <2>3, <2>4, <2>5
<1>17. \A q \in Requests : Holding(q)'
  <2>1. Holding(r)'
    BY <1>2, <1>3 DEF Holding
  <2>2. ASSUME NEW q \in Requests, q # r PROVE Holding(q)'
    <3>1. call'[q].at \notin Steps
      BY <2>2, <1>4, <1>i DEF InFlight
    <3> QED BY <3>1 DEF Holding, Steps
  <2> QED BY <2>1, <2>2
<1>18. ASSUME NEW q \in Requests, Done(q)' PROVE Ends(q)' /\ Finds(q)'
  <2>1. /\ Done(q) /\ call'[q] = call[q] /\ q # r /\ Ends(q) /\ Finds(q)
        /\ Tok(q)' = Tok(q) /\ (Found(q)' <=> Found(q))
    BY <1>18, <1>5 DEF SeqInv, Found, Tok
  <2>2. Ends(q)'
    BY <2>1, <1>6, <1>10 DEF Ends, Cached
  <2>3. \A c \in call[q].before : /\ c \in Requests /\ Done(c) /\ call'[c] = call[c]
                                  /\ Tok(c)' = Tok(c)
                                  /\ \A t : Existed(t, c)' <=> Existed(t, c)
    BY <2>1, <1>5, <1>9, <1>10 DEF Tok
  <2>4. PICK tok : tok = Tok(q)
    OBVIOUS
  <2>5. /\ Found(q)' => \A c \in call[q].before :
             /\ call'[c].op \in Revokes => Tok(c)' # Tok(q)'
             /\ call'[c].op = "deleteUserSessions" => ~Existed(tok, c)'
             /\ call'[c].op = "updateUser" \/ (call'[c].op = "updateSession" /\ Tok(c)' = Tok(q)')
                  => c \in call'[q].held[Tok(q)'].has
    BY <2>1, <2>3, <2>4 DEF Finds
  <2>6. call[q].op = "findSession" /\ Done(q) /\ ~Found(q) => Revoking(tok)'
    BY <2>1, <2>4, <1>8 DEF Finds
  <2>7. call[q].op = "listSessions" =>
          \A t \in Tokens : Existed(t, q)' => call'[q].held[t].there \/ Revoking(t)'
    BY <2>1, <1>8, <1>10, <1>18 DEF Finds
  <2>8. tok = Tok(q)'
    BY <2>1, <2>4
  <2>9. Finds(q)'
    BY <2>1, <2>5, <2>6, <2>7, <2>8, <1>18 DEF Finds, Existed, Revoking
  <2> QED BY <2>2, <2>9
<1>19. \A q \in Requests : Ends(q)' /\ Finds(q)'
  <2>1. ASSUME NEW q \in Requests, ~Done(q)' PROVE Ends(q)' /\ Finds(q)'
    BY <2>1 DEF Ends, Finds, Found
  <2> QED BY <2>1, <1>18
<1> QED BY <1>11, <1>12, <1>13, <1>14, <1>15, <1>16, <1>17, <1>19 DEF SeqInv

LEMMA StepSeqInv == TypeOK /\ InSequence /\ SeqInv /\ [Next]_vars => SeqInv'
<1> SUFFICES ASSUME TypeOK, InSequence, SeqInv, [Next]_vars PROVE SeqInv' OBVIOUS
<1>0. TypeOK'
  BY StepTypeOK
<1>f. ~(failures < deploy.maxFailures)
  BY DEF InSequence, TypeOK
<1>1. ASSUME NEW r \in Requests, NEW op \in Ops[r], Start(r, op) PROVE SeqInv'
  BY <1>0, <1>1, SeqStart
<1>2. ASSUME NEW r \in Requests, Step(r) PROVE SeqInv'
  <2>1. ~Fail(r)
    BY <1>f DEF Fail
  <2> QED BY <2>1, <1>0, <1>2, SeqCreate, SeqFind, SeqUpdateSession, SeqRevoke, SeqDeleteUser,
             SeqList, SeqUpdateUser DEF Step
<1>3. \A t \in Tokens : ~Lose(t)
  BY <1>f DEF Lose
<1>4. CASE UNCHANGED vars
  <2>1. UNCHANGED <<deploy, rows, saved, cache, list, call, failures>>
    BY <1>4 DEF vars
  <2>2. OneAtATime' /\ OnCachePath' /\ OneCreator' /\ TokensKnown' /\ BeforeDone'
    BY <2>1 DEF SeqInv, OneAtATime, InFlight, OnCachePath, OneCreator, TokensKnown, BeforeDone,
                Known, Done, At, Tok
  <2>3. Listed' /\ CacheKept' /\ RowsCached'
    BY <2>1 DEF SeqInv, Listed, CacheKept, RowsCached, Cached, Known, Revoking, Handles, InFlight,
                Done, At, Tok, CacheOnly, UsesCache, UsesTable, Storage
  <2>4. ASSUME NEW q \in Requests PROVE Holding(q)' /\ Ends(q)' /\ Finds(q)'
    <3>1. Holding(q) /\ Ends(q) /\ Finds(q)
      BY DEF SeqInv
    <3>2. Holding(q)'
      BY <3>1, <2>1 DEF Holding, Cached, Tok, DoneUpdates, UserUpdates, Done, At, CacheOnly,
                        UsesCache, UsesTable, Storage
    <3>3. Ends(q)'
      BY <3>1, <2>1 DEF Ends, Cached, Tok, Existed, Done, At
    <3>4. Finds(q)'
      BY <3>1, <2>1 DEF Finds, Found, Revoking, Tok, Existed, Done, At
    <3> QED BY <3>2, <3>3, <3>4
  <2> QED BY <2>2, <2>3, <2>4 DEF SeqInv
<1>5. Idle => UNCHANGED vars
  BY DEF Idle
<1> QED BY <1>1, <1>2, <1>3, <1>4, <1>5 DEF Next

LEMMA SequenceInvariant == Spec => [](InSequence => SeqInv)
<1> DEFINE Inv == TypeOK /\ (InSequence => SeqInv)
<1>1. Init => Inv
  BY InitTypeOK, InitSeqInv
<1>2. Inv /\ [Next]_vars => Inv'
  <2>1. [Next]_vars /\ InSequence' => InSequence
    BY DeployFixed DEF InSequence, UsesCache, Storage
  <2> QED BY <2>1, StepTypeOK, StepSeqInv
<1>3. Inv => (InSequence => SeqInv)
  OBVIOUS
<1> HIDE DEF Inv
<1> QED BY <1>1, <1>2, <1>3, PTL DEF Spec

LEMMA SeqFindsAll == SeqInv => RevokeAllCovers /\ UpdatesSeen /\ ListingComplete
<1> SUFFICES ASSUME SeqInv PROVE RevokeAllCovers /\ UpdatesSeen /\ ListingComplete
  OBVIOUS
<1>1. \A r \in Requests : Finds(r)
  BY DEF SeqInv
<1> QED BY <1>1 DEF Finds, RevokeAllCovers, UpdatesSeen, ListingComplete

\* Requests that do not overlap and do not fail, and all requests when sessions
\* are in the database alone: deleteUserSessions covers every earlier session,
\* findSession shows every earlier update, listSessions every earlier session (or, from
\* the table, as many as a query may answer).
THEOREM UndisturbedRequests == Spec => []UndisturbedSeesAll
<1>1. (InDatabase => DbInv) /\ (InSequence => SeqInv) => UndisturbedSeesAll
  <2> SUFFICES ASSUME InDatabase => DbInv, InSequence => SeqInv, Undisturbed
               PROVE  RevokeAllCovers /\ UpdatesSeen /\ ListingComplete
    BY DEF UndisturbedSeesAll, RevokeAllCoversUndisturbed, UpdatesSeenUndisturbed,
           ListingCompleteUndisturbed
  <2>1. CASE InDatabase
    BY <2>1 DEF DbInv
  <2>2. CASE ~InDatabase
    BY <2>2, SeqFindsAll DEF Undisturbed, InDatabase, InSequence, UsesCache, Storage
  <2> QED BY <2>1, <2>2
<1> QED BY <1>1, DatabaseInvariant, SequenceInvariant, PTL

\* With a cache, as long as no request overlaps another and none fails, what is
\* revoked is not found again, and what nobody revokes is.
THEOREM RevocationInSequence ==
  Spec => [](InSequence => RevokedStaysRevoked /\ SessionsSurvive)
<1>1. (InSequence => SeqInv) => (InSequence => RevokedStaysRevoked /\ SessionsSurvive)
  <2> SUFFICES ASSUME SeqInv PROVE RevokedStaysRevoked /\ SessionsSurvive
    OBVIOUS
  <2>1. \A r \in Requests : Finds(r)
    BY DEF SeqInv
  <2> QED BY <2>1 DEF Finds, RevokedStaysRevoked, SessionsSurvive
<1> QED BY <1>1, SequenceInvariant, PTL

-----------------------------------------------------------------------------
(* The components beside the sessions: each runs by its own specification.  *)

LEMMA Parts == AllSpec => TF!Spec /\ OC!Spec /\ AA!Spec /\ UB!Spec
<1>1. AllInit => TF!Init /\ OC!Init /\ AA!Init /\ UB!Init
  BY DEF AllInit
<1>2. [AllNext]_allVars => [TF!Next]_TF!vars
  BY DEF AllNext, allVars, TF!vars, twoFactor
<1>3. [AllNext]_allVars => [OC!Next]_OC!vars
  BY DEF AllNext, allVars, OC!vars, oneTimeCodes
<1>4. [AllNext]_allVars => [AA!Next]_AA!vars
  BY DEF AllNext, allVars, AA!vars, accountAccess
<1>5. [AllNext]_allVars => [UB!Next]_UB!vars
  BY DEF AllNext, allVars, UB!vars, userBans
<1> QED BY <1>1, <1>2, <1>3, <1>4, <1>5, PTL DEF AllSpec, TF!Spec, OC!Spec, AA!Spec, UB!Spec

-----------------------------------------------------------------------------
(* The admin plugin (BansHoldAlways). Every request knows the bans that were *)
(* written when it checked, and none of those is in force for its user; what  *)
(* it makes keeps that: a later ban is not one of them, a row does not go     *)
(* back to an older one, and time only ends bans.                            *)

LEMMA BansDeployTyped ==
  ASSUME bDeploy \in Moderations
  PROVE  /\ bDeploy.ops \in [Requests -> SUBSET UB!Operations]
         /\ bDeploy.user \in [Requests -> Users]
         /\ bDeploy.length \in [Requests -> Nat \cup {Never}]
         /\ bDeploy.default \in Nat \cup {Never} /\ bDeploy.cascade \in BOOLEAN
         /\ bDeploy.maxTime \in Nat /\ bDeploy.maxFailures \in Nat
         /\ Admin \in Users /\ Home \notin Requests /\ Never \notin Nat
  BY FactorsAssumption DEF UB!ConstantsOK, UB!Deployment

LEMMA BansInitTyped == UB!Init => UB!TypeOK
<1> SUFFICES ASSUME UB!Init PROVE UB!TypeOK
  OBVIOUS
<1>0. bDeploy \in Moderations
  BY DEF UB!Init
<1>1. UB!NoCall \in UB!Call
  BY DEF UB!NoCall, UB!Call
<1>2. users \in [Users -> UB!Row]
  BY DEF UB!Init, UB!Row
<1>3. bSessions \subseteq UB!Session
  BY <1>0, BansDeployTyped DEF UB!Init, UB!Session
<1>4. bNow \in 0..bDeploy.maxTime /\ bFailures \in 0..bDeploy.maxFailures
  BY <1>0, BansDeployTyped DEF UB!Init
<1>5. bCall \in [Requests -> UB!Call]
  BY <1>1 DEF UB!Init
<1> QED BY <1>0, <1>2, <1>3, <1>4, <1>5 DEF UB!TypeOK

\* What a request of the admin plugin becomes.
LEMMA BansBecome ==
  ASSUME UB!TypeOK, NEW r \in Requests, NEW c, UB!Become(r, c)
  PROVE  /\ bCall'[r] = c /\ \A q \in Requests : q # r => bCall'[q] = bCall[q]
         /\ c \in UB!Call => bCall' \in [Requests -> UB!Call]
  BY DEF UB!TypeOK, UB!Become

\* The records that requests become are of their type.
LEMMA BansCallTyped ==
  ASSUME NEW c \in UB!Call, NEW pc \in {"ok", "failed"} \cup UB!Steps,
         NEW q \in Requests \cup {Home}, NEW R \in SUBSET Requests, NEW w \in BOOLEAN
  PROVE  /\ [c EXCEPT !.at = pc] \in UB!Call
         /\ [c EXCEPT !.at = pc, !.session = q] \in UB!Call
         /\ [c EXCEPT !.at = pc, !.seen = R] \in UB!Call
         /\ [c EXCEPT !.at = pc, !.lifted = q] \in UB!Call
         /\ [c EXCEPT !.at = pc, !.wrote = w] \in UB!Call
         /\ [c EXCEPT !.at = pc, !.revoked = w] \in UB!Call
<1>1. [c EXCEPT !.at = pc, !.session = q] \in UB!Call
  BY DEF UB!Call
<1>2. [c EXCEPT !.at = pc, !.seen = R] \in UB!Call
  BY DEF UB!Call
<1>3. [c EXCEPT !.at = pc, !.lifted = q] \in UB!Call
  BY DEF UB!Call
<1>4. [c EXCEPT !.at = pc, !.wrote = w] \in UB!Call
  BY DEF UB!Call
<1>5. [c EXCEPT !.at = pc, !.revoked = w] \in UB!Call
  BY DEF UB!Call
<1>6. [c EXCEPT !.at = pc] \in UB!Call
  BY DEF UB!Call
<1> QED BY <1>1, <1>2, <1>3, <1>4, <1>5, <1>6

LEMMA BansStepTyped == UB!TypeOK /\ [UB!Next]_UB!vars => UB!TypeOK'
<1> SUFFICES ASSUME UB!TypeOK, [UB!Next]_UB!vars PROVE UB!TypeOK'
  OBVIOUS
<1>0. /\ bDeploy \in Moderations /\ bNow \in 0..bDeploy.maxTime /\ users \in [Users -> UB!Row]
      /\ bSessions \subseteq UB!Session /\ bCall \in [Requests -> UB!Call]
      /\ bFailures \in 0..bDeploy.maxFailures
  BY DEF UB!TypeOK
<1>d. /\ bDeploy.user \in [Requests -> Users] /\ bDeploy.maxTime \in Nat
      /\ bDeploy.length \in [Requests -> Nat \cup {Never}]
      /\ bDeploy.default \in Nat \cup {Never} /\ bDeploy.maxFailures \in Nat /\ Admin \in Users
      /\ bDeploy.ops \in [Requests -> SUBSET UB!Operations]
  BY <1>0, BansDeployTyped
<1>g. ASSUME NEW r \in Requests, NEW pc \in {"ok", "failed"} \cup UB!Steps, UB!Goto(r, pc)
      PROVE  bCall' \in [Requests -> UB!Call]
  <2>1. [bCall[r] EXCEPT !.at = pc] \in UB!Call
    BY <1>0 DEF UB!Call
  <2> QED BY <1>g, <2>1, BansBecome DEF UB!Goto
<1>1. ASSUME NEW r \in Requests, NEW op \in bDeploy.ops[r], UB!Start(r, op) PROVE UB!TypeOK'
  <2>1. [UB!NoCall EXCEPT !.op = op, !.at = "enter"] \in UB!Call
    BY <1>d DEF UB!NoCall, UB!Call, UB!Steps
  <2> QED BY <1>0, <1>1, <2>1, BansBecome DEF UB!Start, UB!TypeOK
<1>2. ASSUME NEW r \in Requests, UB!Enter(r) PROVE UB!TypeOK'
  <2>1. bCall' \in [Requests -> UB!Call]
    <3>1. CASE UB!Op(r) # "stopImpersonating"
      <4>1. \E pc \in {"ok", "failed"} \cup UB!Steps : UB!Goto(r, pc)
        BY <1>2, <3>1 DEF UB!Enter, UB!Steps
      <4> QED BY <4>1, <1>g
    <3>2. CASE UB!Op(r) = "stopImpersonating"
      <4>1. CASE UB!Goto(r, "failed")
        BY <4>1, <1>g
      <4>2. CASE \E s \in bSessions : UB!Become(r, [bCall[r] EXCEPT
                     !.at = IF UB!Exists(s.by) /\ UB!Homes # {} THEN "return" ELSE "failed",
                     !.session = s.id])
        <5>1. PICK s \in bSessions : UB!Become(r, [bCall[r] EXCEPT
                     !.at = IF UB!Exists(s.by) /\ UB!Homes # {} THEN "return" ELSE "failed",
                     !.session = s.id])
          BY <4>2
        <5>2. [bCall[r] EXCEPT
                 !.at = IF UB!Exists(s.by) /\ UB!Homes # {} THEN "return" ELSE "failed",
                 !.session = s.id] \in UB!Call
          <6>1. s.id \in Requests \cup {Home}
            BY <1>0 DEF UB!Session
          <6>2. PICK pc \in {"return", "failed"} :
                  pc = IF UB!Exists(s.by) /\ UB!Homes # {} THEN "return" ELSE "failed"
            OBVIOUS
          <6> QED BY <1>0, <6>1, <6>2, BansCallTyped DEF UB!Steps
        <5> QED BY <5>1, <5>2, BansBecome
      <4> QED BY <1>2, <3>2, <4>1, <4>2 DEF UB!Enter
    <3> QED BY <3>1, <3>2
  <2> QED BY <1>0, <1>2, <2>1 DEF UB!Enter, UB!TypeOK
<1>3. ASSUME NEW r \in Requests, UB!Check(r) PROVE UB!TypeOK'
  <2> DEFINE pc == IF ~(users[UB!User(r)].exists /\ users[UB!User(r)].banned) THEN "create"
                   ELSE IF UB!Over(users[UB!User(r)]) THEN "lift" ELSE "failed"
  <2>1. UB!Become(r, [bCall[r] EXCEPT !.at = pc, !.seen = UB!Written])
    BY <1>3 DEF UB!Check, UB!Checked
  <2>2. [bCall[r] EXCEPT !.at = pc, !.seen = UB!Written] \in UB!Call
    <3>1. UB!Written \in SUBSET Requests
      BY DEF UB!Written
    <3>2. pc \in {"ok", "failed"} \cup UB!Steps
      BY DEF UB!Steps
    <3> HIDE DEF pc
    <3> QED BY <1>0, <3>1, <3>2, BansCallTyped
  <2> QED BY <1>0, <1>3, <2>1, <2>2, BansBecome DEF UB!Check, UB!TypeOK
<1>4. ASSUME NEW r \in Requests, UB!Lift(r) PROVE UB!TypeOK'
  <2> DEFINE b == IF UB!InForce(users[UB!User(r)]) THEN users[UB!User(r)].ban ELSE Home
  <2>0. UB!User(r) \in Users
    BY <1>d DEF UB!User
  <2>1. UB!Become(r, [bCall[r] EXCEPT !.at = "create", !.lifted = b])
    BY <1>4 DEF UB!Lift
  <2>2. [bCall[r] EXCEPT !.at = "create", !.lifted = b] \in UB!Call
    <3>1. b \in Requests \cup {Home} /\ "create" \in {"ok", "failed"} \cup UB!Steps
      BY <1>0, <2>0 DEF UB!Row, UB!Steps
    <3> HIDE DEF b
    <3> QED BY <1>0, <3>1, BansCallTyped
  <2>3. users' \in [Users -> UB!Row]
    BY <1>0, <1>4, <2>0 DEF UB!Lift, UB!Row
  <2> QED BY <1>0, <1>4, <2>1, <2>2, <2>3, BansBecome DEF UB!Lift, UB!TypeOK
<1>5. ASSUME NEW r \in Requests, UB!Create(r) PROVE UB!TypeOK'
  <2>1. bCall' \in [Requests -> UB!Call]
    BY <1>5, <1>g DEF UB!Create, UB!Steps
  <2>2. bSessions' \subseteq UB!Session
    BY <1>5, <1>0, <1>d DEF UB!Create, UB!Session, UB!User, UB!Revoked, UB!Call
  <2> QED BY <1>0, <1>5, <2>1, <2>2 DEF UB!Create, UB!TypeOK
<1>6. ASSUME NEW r \in Requests, UB!Write(r) PROVE UB!TypeOK'
  <2>0. UB!User(r) \in Users /\ users[UB!User(r)] \in UB!Row
    BY <1>0, <1>d DEF UB!User
  <2>1. UB!EndOf(r) \in Nat \cup {Never}
    BY <1>0, <1>d, <2>0 DEF UB!EndOf, UB!Row
  <2>2. \A row \in UB!Row : /\ [row EXCEPT !.banned = TRUE, !.until = UB!EndOf(r), !.ban = r] \in UB!Row
                            /\ [row EXCEPT !.banned = FALSE, !.until = Never] \in UB!Row
                            /\ [row EXCEPT !.banned = FALSE] \in UB!Row
    BY <2>1 DEF UB!Row
  <2> DEFINE u == UB!User(r)
             row == CASE UB!Op(r) \in UB!Bans ->
                           [users[u] EXCEPT !.banned = TRUE, !.until = UB!EndOf(r), !.ban = r]
                      [] UB!Op(r) = "unbanUser" ->
                           [users[u] EXCEPT !.banned = FALSE, !.until = Never]
                      [] OTHER -> [users[u] EXCEPT !.banned = FALSE]
  <2>3. users' \in [Users -> UB!Row]
    <3>1. row \in UB!Row
      BY <2>0, <2>2
    <3>2. users' = [users EXCEPT ![u] = IF ~users[u].exists THEN users[u] ELSE row]
      BY <1>6 DEF UB!Write
    <3> HIDE DEF row
    <3> QED BY <1>0, <2>0, <3>1, <3>2
  <2>4. CASE UB!Op(r) \in UB!Bans
    <3>1. UB!Become(r, [bCall[r] EXCEPT !.at = "revoke", !.wrote = TRUE])
      BY <1>6, <2>4 DEF UB!Write
    <3>2. [bCall[r] EXCEPT !.at = "revoke", !.wrote = TRUE] \in UB!Call
      BY <1>0, BansCallTyped DEF UB!Steps
    <3> QED BY <1>0, <1>6, <2>3, <3>1, <3>2, BansBecome DEF UB!Write, UB!TypeOK
  <2>5. CASE UB!Op(r) \notin UB!Bans
    <3>0. (UB!Op(r) \in UB!Bans) = FALSE
      BY <2>5
    <3>1. UB!Become(r, [bCall[r] EXCEPT !.at = "ok", !.wrote = FALSE])
      BY <1>6, <2>5, <3>0 DEF UB!Write
    <3>2. [bCall[r] EXCEPT !.at = "ok", !.wrote = FALSE] \in UB!Call
      BY <1>0, BansCallTyped DEF UB!Steps
    <3> QED BY <1>0, <1>6, <2>3, <3>1, <3>2, BansBecome DEF UB!Write, UB!TypeOK
  <2> QED BY <2>4, <2>5
<1>7. ASSUME NEW r \in Requests, UB!Revoke(r) PROVE UB!TypeOK'
  <2>1. [bCall[r] EXCEPT !.at = IF UB!Op(r) = "removeUser" THEN "deleteSessions" ELSE "ok",
                         !.revoked = TRUE] \in UB!Call
    <3>1. PICK pc \in {"deleteSessions", "ok"} :
            pc = IF UB!Op(r) = "removeUser" THEN "deleteSessions" ELSE "ok"
      OBVIOUS
    <3> QED BY <1>0, <3>1, BansCallTyped DEF UB!Steps
  <2> QED BY <1>0, <1>7, <2>1, BansBecome DEF UB!Revoke, UB!NotOf, UB!TypeOK
<1>8. ASSUME NEW r \in Requests, UB!DeleteSessions(r) PROVE UB!TypeOK'
  BY <1>0, <1>8, <1>g DEF UB!DeleteSessions, UB!NotOf, UB!TypeOK, UB!Steps
<1>9. ASSUME NEW r \in Requests, UB!DeleteUser(r) PROVE UB!TypeOK'
  <2>1. users' \in [Users -> UB!Row]
    BY <1>0, <1>9, <1>d DEF UB!DeleteUser, UB!Row, UB!User
  <2> QED BY <1>0, <1>9, <1>g, <2>1 DEF UB!DeleteUser, UB!NotOf, UB!TypeOK
<1>10. ASSUME NEW r \in Requests, UB!Return(r) PROVE UB!TypeOK'
  BY <1>0, <1>10, <1>g DEF UB!Return, UB!TypeOK
<1>11. ASSUME NEW r \in Requests, UB!Fail(r) PROVE UB!TypeOK'
  BY <1>0, <1>11, <1>g, <1>d DEF UB!Fail, UB!TypeOK
<1>12. CASE UB!Tick
  BY <1>0, <1>12, <1>d DEF UB!Tick, UB!TypeOK
<1>13. CASE UNCHANGED UB!vars
  BY <1>0, <1>13 DEF UB!vars, UB!TypeOK
<1> QED BY <1>1, <1>2, <1>3, <1>4, <1>5, <1>6, <1>7, <1>8, <1>9, <1>10, <1>11, <1>12, <1>13
        DEF UB!Next, UB!Step, UB!Idle

-----------------------------------------------------------------------------
\* Of the bans in B none is in force for u: a row keeps the ban it has while it is
\* banned, a ban that was over stays over, and a new ban is in no set of old ones.
BanPast(u, B) ==
  users[u].exists /\ users[u].banned /\ users[u].ban \in B => UB!Over(users[u])

\* A request knows bans that were written, and goes on only past those.
BanChecked(r) ==
  /\ bCall[r].seen \subseteq UB!Written
  /\ bCall[r].at \in {"create", "lift"} => BanPast(UB!User(r), bCall[r].seen)
  /\ bCall[r].lifted \notin bCall[r].seen
  /\ bCall[r].at \in {"enter", "check"} => bCall[r].lifted = Home
\* A ban is written once, and then deletes the sessions.
BanOrdered(r) ==
  /\ bCall[r].wrote => bCall[r].at \notin {"idle", "enter", "write"}
  /\ bCall[r].revoked => bCall[r].at # "idle"
  /\ bCall[r].at = "revoke" \/ bCall[r].revoked =>
       (UB!Op(r) \in UB!Bans => bCall[r].wrote)

BansInv ==
  /\ \A r \in Requests : BanChecked(r) /\ BanOrdered(r)
  /\ \A s \in bSessions : s.seen \subseteq UB!Written /\ BanPast(s.user, s.seen)
  /\ UB!RevokedGone
  /\ UB!RemovedOut

LEMMA InitBansInv == UB!Init => BansInv
<1> SUFFICES ASSUME UB!Init PROVE BansInv
  OBVIOUS
<1>1. \A r \in Requests : bCall[r] = UB!NoCall
  BY DEF UB!Init
<1>2. \A s \in bSessions : s.user = Admin /\ s.seen = {}
  BY DEF UB!Init
<1>3. Admin \in Users /\ \A u \in Users : users[u].exists /\ ~users[u].banned
  BY BansDeployTyped DEF UB!Init
<1>4. UB!RevokedGone /\ UB!RemovedOut
  BY <1>1, <1>2, <1>3 DEF UB!RevokedGone, UB!RemovedOut, UB!NoCall, UB!Exists
<1> QED BY <1>1, <1>2, <1>4
        DEF BansInv, BanChecked, BanOrdered, BanPast, UB!NoCall

\* A step that is r's keeps what the others are; no ban that was written before it
\* comes into force by it; a session it makes is what r checked for.
BansOthers(r) == \A q \in Requests : q # r => bCall'[q] = bCall[q]
BansRows ==
  \A u \in Users : users'[u].exists /\ users'[u].banned =>
    \/ /\ users[u].exists /\ users[u].banned
       /\ users'[u].ban = users[u].ban /\ users'[u].until = users[u].until
    \/ users'[u].ban \notin UB!Written
BansMade(r) ==
  \A s \in bSessions' : \/ s \in bSessions
                        \/ /\ bCall[r].at = "create" /\ s.user = UB!User(r)
                           /\ s.seen = bCall[r].seen /\ s.after = UB!Revoked

\* What every step keeps. r is the request that moves.
LEMMA BansCarry ==
  ASSUME UB!TypeOK, UB!TypeOK', BansInv, NEW r \in Requests,
         bDeploy' = bDeploy, bNow' >= bNow,
         bCall[r].wrote => bCall'[r].wrote, bCall[r].revoked => bCall'[r].revoked,
         bCall'[r].revoked /\ ~bCall[r].revoked =>
           \A s \in bSessions' : s.user # UB!User(r),
         bCall'[r].op = bCall[r].op \/ (~bCall[r].revoked /\ ~bCall[r].wrote),
         BansOthers(r), BansRows, BansMade(r),
         BanChecked(r)', BanOrdered(r)', UB!RemovedOut'
  PROVE  BansInv'
<1>0. /\ \A q \in Requests : UB!User(q) \in Users /\ bCall[q] \in UB!Call /\ bCall'[q] \in UB!Call
      /\ \A s \in bSessions : s \in UB!Session
      /\ users \in [Users -> UB!Row] /\ users' \in [Users -> UB!Row]
      /\ bNow \in Nat /\ bNow' \in Nat /\ Never \notin Nat
      /\ \A q : UB!User(q)' = UB!User(q)
  BY BansDeployTyped DEF UB!TypeOK, UB!User
<1>1. UB!Written \subseteq UB!Written'
  BY DEF UB!Written, BansOthers
<1>2. \A u \in Users, B \in SUBSET UB!Written : BanPast(u, B) => BanPast(u, B)'
  <2> SUFFICES ASSUME NEW u \in Users, NEW B \in SUBSET UB!Written, BanPast(u, B),
                      users'[u].exists, users'[u].banned, users'[u].ban \in B
               PROVE  users'[u].until # Never /\ users'[u].until < bNow'
    BY DEF BanPast, UB!Over
  <2>1. /\ users[u].exists /\ users[u].banned
        /\ users'[u].ban = users[u].ban /\ users'[u].until = users[u].until
    BY DEF BansRows
  <2>2. users[u].until \in Nat \cup {Never} /\ UB!Over(users[u])
    BY <1>0, <2>1 DEF BanPast, UB!Row
  <2> QED BY <1>0, <2>1, <2>2 DEF UB!Over
<1>3. ASSUME NEW q \in Requests PROVE BanChecked(q)' /\ BanOrdered(q)'
  <2>1. CASE q = r
    BY <2>1
  <2>2. CASE q # r
    <3>1. bCall'[q] = bCall[q] /\ BanChecked(q) /\ BanOrdered(q)
      BY <2>2 DEF BansInv, BansOthers
    <3>2. bCall[q].at \in {"create", "lift"} => BanPast(UB!User(q), bCall[q].seen)'
      BY <1>0, <1>2, <3>1 DEF BanChecked
    <3>3. BanChecked(q)'
      BY <1>0, <1>1, <3>1, <3>2 DEF BanChecked, BanPast
    <3>4. BanOrdered(q)'
      BY <3>1 DEF BanOrdered, UB!Op
    <3> QED BY <3>3, <3>4
  <2> QED BY <2>1, <2>2
<1>4. ASSUME NEW s \in bSessions' PROVE s.seen \subseteq UB!Written' /\ BanPast(s.user, s.seen)'
  <2>1. CASE s \in bSessions
    BY <1>0, <1>1, <1>2, <2>1 DEF BansInv, UB!Session
  <2>2. CASE s \notin bSessions
    <3>1. /\ s.user = UB!User(r) /\ s.seen = bCall[r].seen
          /\ s.seen \subseteq UB!Written /\ BanPast(s.user, s.seen)
      BY <2>2 DEF BansInv, BanChecked, BansMade
    <3> QED BY <1>0, <1>1, <1>2, <3>1
  <2> QED BY <2>1, <2>2
<1>5. UB!RevokedGone'
  <2> SUFFICES ASSUME NEW s \in bSessions', NEW b \in Requests,
                      bCall'[b].revoked, UB!User(b) = s.user
               PROVE  b \in s.after
    BY <1>0 DEF UB!RevokedGone
  <2>1. bCall[b].revoked \/ (b = r /\ ~bCall[r].revoked)
    BY DEF BansOthers
  <2>2. CASE b = r /\ ~bCall[r].revoked
    BY <2>2
  <2>3. CASE bCall[b].revoked /\ s \in bSessions
    BY <2>3 DEF BansInv, UB!RevokedGone
  <2>4. CASE bCall[b].revoked /\ s \notin bSessions
    BY <2>4 DEF BansInv, BanOrdered, UB!Revoked, BansMade
  <2> QED BY <2>1, <2>2, <2>3, <2>4
<1> QED BY <1>3, <1>4, <1>5 DEF BansInv

\* The steps of the admin plugin, one by one.
LEMMA BansStep == UB!TypeOK /\ UB!TypeOK' /\ BansInv /\ [UB!Next]_UB!vars => BansInv'
<1> SUFFICES ASSUME UB!TypeOK, UB!TypeOK', BansInv, [UB!Next]_UB!vars PROVE BansInv'
  OBVIOUS
<1>0. /\ \A q \in Requests : UB!User(q) \in Users /\ bCall[q] \in UB!Call /\ bCall'[q] \in UB!Call
      /\ users \in [Users -> UB!Row] /\ users' \in [Users -> UB!Row]
      /\ bNow \in Nat /\ bNow' \in Nat /\ Home \notin Requests /\ Never \notin Nat
      /\ bSessions \subseteq UB!Session
  BY BansDeployTyped DEF UB!TypeOK, UB!User
<1>k. \A q \in Requests : BanChecked(q) /\ BanOrdered(q)
  BY DEF BansInv
<1>q. \A q \in Requests : \A c : UB!Become(q, c) =>
        bCall'[q] = c /\ \A p \in Requests : p # q => bCall'[p] = bCall[p]
  BY BansBecome
\* A step that writes no rows, makes no session, and does not go to a check.
<1>g. ASSUME NEW r \in Requests, NEW pc \in {"ok", "failed"} \cup UB!Steps, UB!Goto(r, pc),
             bCall[r].at \in UB!Steps, pc \notin {"enter", "lift", "create"},
             pc = "check" \/ pc = "write" => bCall[r].at = "enter",
             pc = "revoke" => UB!Op(r) \notin UB!Bans,
             bDeploy' = bDeploy, bNow' >= bNow,
             \A u \in Users : users'[u].exists /\ users'[u].banned => users'[u] = users[u],
             bSessions' \subseteq bSessions, UB!RemovedOut'
      PROVE  BansInv'
  <2>1. /\ bCall'[r] = [bCall[r] EXCEPT !.at = pc]
        /\ \A q \in Requests : q # r => bCall'[q] = bCall[q]
    BY <1>g, <1>q DEF UB!Goto
  <2>2. /\ bCall'[r].at = pc /\ bCall'[r].op = bCall[r].op /\ bCall'[r].seen = bCall[r].seen
        /\ bCall'[r].wrote = bCall[r].wrote /\ bCall'[r].revoked = bCall[r].revoked
        /\ bCall'[r].lifted = bCall[r].lifted
    BY <1>0, <2>1 DEF UB!Call
  <2>3. UB!Written \subseteq UB!Written'
    BY <2>1, <2>2 DEF UB!Written
  <2>4. BanChecked(r)'
    BY <1>g, <1>k, <2>2, <2>3 DEF BanChecked
  <2>5. BanOrdered(r)'
    BY <1>g, <1>k, <2>2 DEF BanOrdered, UB!Op, UB!Steps
  <2>6. BansOthers(r) /\ BansRows /\ BansMade(r)
    BY <1>g, <2>1 DEF BansOthers, BansRows, BansMade
  <2> QED BY <1>g, <2>2, <2>4, <2>5, <2>6, BansCarry
<1>r. UB!RemovedOut
  BY DEF BansInv
<1>s. \A s \in bSessions : s.user \in Users
  BY <1>0 DEF UB!Session
<1>1. ASSUME NEW r \in Requests, NEW op \in bDeploy.ops[r], UB!Start(r, op) PROVE BansInv'
  <2>1. /\ bCall'[r] = [UB!NoCall EXCEPT !.op = op, !.at = "enter"] /\ bCall[r].at = "idle"
        /\ \A q \in Requests : q # r => bCall'[q] = bCall[q]
        /\ UNCHANGED <<bDeploy, bNow, users, bSessions>>
    BY <1>1, <1>q DEF UB!Start, UB!At
  <2>2. /\ bCall'[r].at = "enter" /\ bCall'[r].seen = {} /\ bCall'[r].lifted = Home
        /\ ~bCall'[r].wrote /\ ~bCall'[r].revoked
    BY <2>1 DEF UB!NoCall
  <2>3. ~bCall[r].wrote /\ ~bCall[r].revoked
    BY <1>k, <2>1 DEF BanOrdered
  <2>4. BanChecked(r)' /\ BanOrdered(r)'
    BY <2>2 DEF BanChecked, BanOrdered
  <2>5. UB!RemovedOut'
    BY <1>r, <2>1 DEF UB!RemovedOut, UB!Exists
  <2>6. BansOthers(r) /\ BansRows /\ BansMade(r) /\ bNow' >= bNow
    BY <1>0, <2>1 DEF BansOthers, BansRows, BansMade
  <2> QED BY <2>1, <2>2, <2>3, <2>4, <2>5, <2>6, BansCarry
<1>2. ASSUME NEW r \in Requests, UB!Enter(r) PROVE BansInv'
  <2>0. /\ bCall[r].at = "enter" /\ UNCHANGED <<bDeploy, bNow, users, bSessions>>
    BY <1>2 DEF UB!Enter, UB!At
  <2>1. UB!RemovedOut'
    BY <1>r, <2>0 DEF UB!RemovedOut, UB!Exists
  <2>2. CASE UB!Op(r) # "stopImpersonating"
    <3>1. PICK pc \in {"failed", "check", "revoke", "write"} :
            UB!Goto(r, pc) /\ (pc = "revoke" => UB!Op(r) \notin UB!Bans)
      BY <1>2, <2>2 DEF UB!Enter, UB!Bans
    <3> QED BY <1>0, <1>g, <2>0, <2>1, <3>1 DEF UB!Steps
  <2>3. CASE UB!Op(r) = "stopImpersonating"
    <3>1. CASE UB!Goto(r, "failed")
      BY <1>0, <1>g, <2>0, <2>1, <3>1 DEF UB!Steps
    <3>2. CASE \E s \in bSessions : UB!Become(r, [bCall[r] EXCEPT
                   !.at = IF UB!Exists(s.by) /\ UB!Homes # {} THEN "return" ELSE "failed",
                   !.session = s.id])
      <4>1. PICK s \in bSessions, pc \in {"return", "failed"} :
              UB!Become(r, [bCall[r] EXCEPT !.at = pc, !.session = s.id])
        BY <3>2
      <4>2. /\ bCall'[r] = [bCall[r] EXCEPT !.at = pc, !.session = s.id]
            /\ \A p \in Requests : p # r => bCall'[p] = bCall[p]
        BY <4>1, <1>q
      <4>3. /\ bCall'[r].at = pc /\ bCall'[r].op = bCall[r].op /\ bCall'[r].seen = bCall[r].seen
            /\ bCall'[r].wrote = bCall[r].wrote /\ bCall'[r].revoked = bCall[r].revoked
            /\ bCall'[r].lifted = bCall[r].lifted
        BY <1>0, <4>2 DEF UB!Call
      <4>4. UB!Written \subseteq UB!Written'
        BY <4>2, <4>3 DEF UB!Written
      <4>5. BanChecked(r)' /\ BanOrdered(r)'
        BY <1>k, <2>0, <4>1, <4>3, <4>4 DEF BanChecked, BanOrdered, UB!Op
      <4>6. BansOthers(r) /\ BansRows /\ BansMade(r) /\ bNow' >= bNow
        BY <1>0, <2>0, <4>2 DEF BansOthers, BansRows, BansMade
      <4> QED BY <2>0, <2>1, <4>3, <4>5, <4>6, BansCarry
    <3> QED BY <1>2, <2>3, <3>1, <3>2 DEF UB!Enter
  <2> QED BY <2>2, <2>3
<1>3. ASSUME NEW r \in Requests, UB!Check(r) PROVE BansInv'
  <2> DEFINE row == users[UB!User(r)]
  <2>0. /\ bCall[r].at = "check" /\ UNCHANGED <<bDeploy, bNow, users, bSessions>>
    BY <1>3 DEF UB!Check, UB!At
  <2>1. PICK pc \in {"create", "lift", "failed"} :
          /\ UB!Become(r, [bCall[r] EXCEPT !.at = pc, !.seen = UB!Written])
          /\ pc \in {"create", "lift"} => ~(row.exists /\ row.banned) \/ UB!Over(row)
    BY <1>3 DEF UB!Check, UB!Checked
  <2>2. /\ bCall'[r] = [bCall[r] EXCEPT !.at = pc, !.seen = UB!Written]
        /\ \A p \in Requests : p # r => bCall'[p] = bCall[p]
    BY <2>1, <1>q
  <2>3. /\ bCall'[r].at = pc /\ bCall'[r].op = bCall[r].op /\ bCall'[r].seen = UB!Written
        /\ bCall'[r].wrote = bCall[r].wrote /\ bCall'[r].revoked = bCall[r].revoked
        /\ bCall'[r].lifted = Home
    BY <1>0, <1>k, <2>0, <2>2 DEF UB!Call, BanChecked
  <2>4. UB!Written' = UB!Written
    BY <2>2, <2>3 DEF UB!Written
  <2>6. BanChecked(r)'
    BY <1>0, <2>0, <2>1, <2>3, <2>4 DEF BanChecked, BanPast, UB!User, UB!Over, UB!Written
  <2>7. BanOrdered(r)'
    BY <1>k, <2>0, <2>1, <2>3 DEF BanOrdered, UB!Op
  <2>8. UB!RemovedOut'
    BY <1>r, <2>0 DEF UB!RemovedOut, UB!Exists
  <2>9. BansOthers(r) /\ BansRows /\ BansMade(r) /\ bNow' >= bNow
    BY <1>0, <2>0, <2>2 DEF BansOthers, BansRows, BansMade
  <2> QED BY <2>0, <2>3, <2>6, <2>7, <2>8, <2>9, BansCarry
<1>4. ASSUME NEW r \in Requests, UB!Lift(r) PROVE BansInv'
  <2> DEFINE u == UB!User(r)
             b == IF UB!InForce(users[u]) THEN users[u].ban ELSE Home
  <2>0. /\ bCall[r].at = "lift" /\ UNCHANGED <<bDeploy, bNow, bSessions>>
        /\ users' = [users EXCEPT ![u].banned = FALSE, ![u].until = Never]
        /\ UB!Become(r, [bCall[r] EXCEPT !.at = "create", !.lifted = b])
    BY <1>4 DEF UB!Lift, UB!At
  <2>1. /\ ~users'[u].banned /\ users'[u].exists = users[u].exists
        /\ \A v \in Users : v # u => users'[v] = users[v]
    BY <1>0, <2>0 DEF UB!Row
  <2>2. /\ bCall'[r] = [bCall[r] EXCEPT !.at = "create", !.lifted = b]
        /\ \A p \in Requests : p # r => bCall'[p] = bCall[p]
    BY <2>0, <1>q
  <2>3. /\ bCall'[r].at = "create" /\ bCall'[r].op = bCall[r].op /\ bCall'[r].seen = bCall[r].seen
        /\ bCall'[r].wrote = bCall[r].wrote /\ bCall'[r].revoked = bCall[r].revoked
        /\ bCall'[r].lifted = b
    BY <1>0, <2>2 DEF UB!Call
  <2>4. b \notin bCall[r].seen
    <3>1. bCall[r].seen \subseteq Requests /\ BanPast(u, bCall[r].seen)
      BY <1>0, <1>k, <2>0 DEF BanChecked, UB!Call
    <3> QED BY <1>0, <3>1 DEF BanPast, UB!InForce
  <2>5. UB!Written' = UB!Written
    BY <2>2, <2>3 DEF UB!Written
  <2>6. BanChecked(r)'
    BY <1>k, <2>0, <2>1, <2>3, <2>4, <2>5 DEF BanChecked, BanPast, UB!User
  <2>7. BanOrdered(r)'
    BY <1>k, <2>0, <2>3 DEF BanOrdered, UB!Op
  <2>e. \A v \in Users : users'[v].exists = users[v].exists
    BY <2>1
  <2>8. UB!RemovedOut'
    BY <1>0, <1>r, <1>s, <2>0, <2>e DEF UB!RemovedOut, UB!Exists
  <2>9. BansOthers(r) /\ BansRows /\ BansMade(r) /\ bNow' >= bNow
    BY <1>0, <2>0, <2>1, <2>2 DEF BansOthers, BansRows, BansMade
  <2> QED BY <2>0, <2>3, <2>6, <2>7, <2>8, <2>9, BansCarry
<1>5. ASSUME NEW r \in Requests, UB!Create(r) PROVE BansInv'
  <2>0. bCall[r].at = "create" /\ UNCHANGED <<bDeploy, bNow, users>>
    BY <1>5 DEF UB!Create, UB!At
  <2>1. CASE bDeploy.cascade /\ ~UB!Exists(UB!User(r))
    <3>1. UB!Goto(r, "failed") /\ bSessions' = bSessions
      BY <1>5, <2>1 DEF UB!Create
    <3>2. UB!RemovedOut'
      BY <1>r, <2>0, <3>1 DEF UB!RemovedOut, UB!Exists
    <3> QED BY <1>0, <1>g, <2>0, <3>1, <3>2 DEF UB!Steps
  <2>2. CASE ~(bDeploy.cascade /\ ~UB!Exists(UB!User(r)))
    <3> DEFINE n == [id |-> r, user |-> UB!User(r),
                     by |-> IF UB!Op(r) = "impersonateUser" THEN Admin ELSE UB!User(r),
                     seen |-> bCall[r].seen, after |-> UB!Revoked]
    <3>1. bSessions' = bSessions \cup {n}
      BY <1>5, <2>2 DEF UB!Create
    <3>0. n.user = UB!User(r) /\ n.seen = bCall[r].seen /\ n.after = UB!Revoked
      OBVIOUS
    <3> HIDE DEF n
    <3>2. UB!Goto(r, "ok")
      BY <1>5, <2>2 DEF UB!Create
    <3>3. /\ bCall'[r] = [bCall[r] EXCEPT !.at = "ok"]
          /\ \A p \in Requests : p # r => bCall'[p] = bCall[p]
      BY <3>2, <1>q DEF UB!Goto
    <3>4. /\ bCall'[r].at = "ok" /\ bCall'[r].op = bCall[r].op /\ bCall'[r].seen = bCall[r].seen
          /\ bCall'[r].wrote = bCall[r].wrote /\ bCall'[r].revoked = bCall[r].revoked
          /\ bCall'[r].lifted = bCall[r].lifted
      BY <1>0, <3>3 DEF UB!Call
    <3>5. UB!Written' = UB!Written
      BY <3>3, <3>4 DEF UB!Written
    <3>6. BanChecked(r)' /\ BanOrdered(r)'
      BY <1>k, <2>0, <3>4, <3>5 DEF BanChecked, BanOrdered, UB!Op
    <3>7. UB!RemovedOut'
      BY <1>r, <2>0, <2>2, <3>0, <3>1 DEF UB!RemovedOut, UB!Exists
    <3>8. BansOthers(r) /\ BansRows /\ BansMade(r) /\ bNow' >= bNow
      BY <1>0, <2>0, <3>0, <3>1, <3>3 DEF BansOthers, BansRows, BansMade
    <3> QED BY <2>0, <3>4, <3>6, <3>7, <3>8, BansCarry
  <2> QED BY <2>1, <2>2
<1>6. ASSUME NEW r \in Requests, UB!Write(r) PROVE BansInv'
  <2> DEFINE u == UB!User(r)
  <2>0. bCall[r].at = "write" /\ UNCHANGED <<bDeploy, bNow, bSessions>> /\ ~bCall[r].wrote
    BY <1>6, <1>k DEF UB!Write, UB!At, BanOrdered
  <2>1. PICK row : /\ users' = [users EXCEPT ![u] = row] /\ row.exists = users[u].exists
                   /\ row.exists /\ row.banned => UB!Op(r) \in UB!Bans /\ row.ban = r
    <3>0. u \in Users /\ users[u] \in UB!Row
      BY <1>0
    <3> HIDE DEF u
    <3>1. CASE ~users[u].exists
      <4>1. users' = [users EXCEPT ![u] = users[u]]
        BY <1>6, <3>1 DEF UB!Write, u
      <4> QED BY <3>1, <4>1
    <3>2. CASE users[u].exists /\ UB!Op(r) \in UB!Bans
      <4> DEFINE row == [users[u] EXCEPT !.banned = TRUE, !.until = UB!EndOf(r), !.ban = r]
      <4>1. users' = [users EXCEPT ![u] =
              IF ~users[u].exists THEN users[u]
              ELSE CASE UB!Op(r) \in UB!Bans -> row
                     [] UB!Op(r) = "unbanUser" -> [users[u] EXCEPT !.banned = FALSE, !.until = Never]
                     [] OTHER -> [users[u] EXCEPT !.banned = FALSE]]
        BY <1>6 DEF UB!Write, u
      <4>2. row.exists = users[u].exists /\ row.ban = r
        BY <3>0 DEF UB!Row
      <4> HIDE DEF row
      <4>3. users' = [users EXCEPT ![u] = row]
        BY <3>2, <4>1 DEF UB!Bans
      <4> QED BY <3>2, <4>2, <4>3
    <3>3. CASE users[u].exists /\ UB!Op(r) = "unbanUser"
      <4> DEFINE row == [users[u] EXCEPT !.banned = FALSE, !.until = Never]
      <4>1. users' = [users EXCEPT ![u] = row]
        BY <1>6, <3>3 DEF UB!Write, UB!Bans, u
      <4>2. row.exists = users[u].exists /\ ~row.banned
        BY <3>0 DEF UB!Row
      <4> HIDE DEF row
      <4> QED BY <4>1, <4>2
    <3>4. CASE users[u].exists /\ UB!Op(r) \notin UB!Bans \cup {"unbanUser"}
      <4> DEFINE row == [users[u] EXCEPT !.banned = FALSE]
      <4>1. users' = [users EXCEPT ![u] = row]
        BY <1>6, <3>4 DEF UB!Write, u
      <4>2. row.exists = users[u].exists /\ ~row.banned
        BY <3>0 DEF UB!Row
      <4> HIDE DEF row
      <4> QED BY <4>1, <4>2
    <3> QED BY <3>1, <3>2, <3>3, <3>4
  <2>e. users'[u] = row /\ \A v \in Users : v # u => users'[v] = users[v]
    BY <1>0, <2>1
  <2> DEFINE w == UB!Op(r) \in UB!Bans
             pc == IF w THEN "revoke" ELSE "ok"
  <2>2. /\ pc \in {"revoke", "ok"}
        /\ UB!Become(r, [bCall[r] EXCEPT !.at = pc, !.wrote = w])
        /\ w = (UB!Op(r) \in UB!Bans)
    BY <1>6 DEF UB!Write
  <2> HIDE DEF w, pc
  <2>3. /\ bCall'[r] = [bCall[r] EXCEPT !.at = pc, !.wrote = w]
        /\ \A p \in Requests : p # r => bCall'[p] = bCall[p]
    BY <2>2, <1>q
  <2>4. /\ bCall'[r].at = pc /\ bCall'[r].op = bCall[r].op /\ bCall'[r].seen = bCall[r].seen
        /\ bCall'[r].wrote = w /\ bCall'[r].revoked = bCall[r].revoked
        /\ bCall'[r].lifted = bCall[r].lifted
    BY <1>0, <2>3 DEF UB!Call
  <2>5. UB!Written \subseteq UB!Written' /\ r \notin UB!Written
    BY <2>0, <2>3, <2>4 DEF UB!Written
  <2>6. BanChecked(r)'
    BY <1>k, <2>0, <2>2, <2>4, <2>5 DEF BanChecked
  <2>7. BanOrdered(r)'
    BY <1>k, <2>0, <2>2, <2>4 DEF BanOrdered, UB!Op
  <2>8. UB!RemovedOut'
    <3>1. \A v \in Users : users'[v].exists = users[v].exists
      BY <2>1, <2>e
    <3> QED BY <1>r, <1>s, <2>0, <3>1 DEF UB!RemovedOut, UB!Exists
  <2>9. BansRows
    BY <2>1, <2>e, <2>5 DEF BansRows
  <2>10. BansOthers(r) /\ BansMade(r) /\ bNow' >= bNow
    BY <1>0, <2>0, <2>3 DEF BansOthers, BansMade
  <2> QED BY <2>0, <2>2, <2>4, <2>6, <2>7, <2>8, <2>9, <2>10, BansCarry
<1>7. ASSUME NEW r \in Requests, UB!Revoke(r) PROVE BansInv'
  <2>0. /\ bCall[r].at = "revoke" /\ UNCHANGED <<bDeploy, bNow, users>>
        /\ bSessions' = UB!NotOf(UB!User(r))
    BY <1>7 DEF UB!Revoke, UB!At
  <2>1. PICK pc \in {"deleteSessions", "ok"} :
          UB!Become(r, [bCall[r] EXCEPT !.at = pc, !.revoked = TRUE])
    BY <1>7 DEF UB!Revoke
  <2>3. /\ bCall'[r] = [bCall[r] EXCEPT !.at = pc, !.revoked = TRUE]
        /\ \A p \in Requests : p # r => bCall'[p] = bCall[p]
    BY <2>1, <1>q
  <2>4. /\ bCall'[r].at = pc /\ bCall'[r].op = bCall[r].op /\ bCall'[r].seen = bCall[r].seen
        /\ bCall'[r].wrote = bCall[r].wrote /\ bCall'[r].revoked
        /\ bCall'[r].lifted = bCall[r].lifted
    BY <1>0, <2>3 DEF UB!Call
  <2>5. UB!Written' = UB!Written
    BY <2>3, <2>4 DEF UB!Written
  <2>6. BanChecked(r)' /\ BanOrdered(r)'
    BY <1>k, <2>0, <2>1, <2>4, <2>5 DEF BanChecked, BanOrdered, UB!Op
  <2>7. UB!RemovedOut'
    BY <1>r, <2>0 DEF UB!RemovedOut, UB!Exists, UB!NotOf
  <2>8. BansOthers(r) /\ BansRows /\ BansMade(r) /\ bNow' >= bNow
    BY <1>0, <2>0, <2>3 DEF BansOthers, BansRows, BansMade, UB!NotOf
  <2>9. \A s \in bSessions' : s.user # UB!User(r)
    BY <2>0 DEF UB!NotOf
  <2> QED BY <2>0, <2>4, <2>6, <2>7, <2>8, <2>9, BansCarry
<1>8. ASSUME NEW r \in Requests, UB!DeleteSessions(r) PROVE BansInv'
  <2>0. /\ bCall[r].at = "deleteSessions" /\ UNCHANGED <<bDeploy, bNow, users>>
        /\ bSessions' \subseteq bSessions /\ UB!Goto(r, "delete")
    BY <1>8 DEF UB!DeleteSessions, UB!At, UB!NotOf
  <2>1. UB!RemovedOut'
    BY <1>r, <2>0 DEF UB!RemovedOut, UB!Exists
  <2> QED BY <1>0, <1>g, <2>0, <2>1 DEF UB!Steps
<1>9. ASSUME NEW r \in Requests, UB!DeleteUser(r) PROVE BansInv'
  <2> DEFINE u == UB!User(r)
  <2>0. /\ bCall[r].at = "delete" /\ UNCHANGED <<bDeploy, bNow>>
        /\ bSessions' = (IF bDeploy.cascade THEN UB!NotOf(u) ELSE bSessions)
        /\ users' = [users EXCEPT ![u].exists = FALSE] /\ UB!Goto(r, "ok")
    BY <1>9 DEF UB!DeleteUser, UB!At
  <2>1. /\ ~users'[u].exists /\ \A v \in Users : v # u => users'[v] = users[v]
    BY <1>0, <2>0 DEF UB!Row
  <2>2. UB!RemovedOut'
    <3> SUFFICES ASSUME bDeploy.cascade, NEW s \in bSessions' PROVE users'[s.user].exists
      BY <2>0 DEF UB!RemovedOut, UB!Exists
    <3>1. s \in bSessions /\ s.user # u /\ s.user \in Users
      BY <1>0, <2>0 DEF UB!NotOf, UB!Session
    <3> QED BY <1>r, <2>1, <3>1 DEF UB!RemovedOut, UB!Exists
  <2>3. bSessions' \subseteq bSessions
    BY <2>0 DEF UB!NotOf
  <2> QED BY <1>0, <1>g, <2>0, <2>1, <2>2, <2>3 DEF UB!Steps
<1>10. ASSUME NEW r \in Requests, UB!Return(r) PROVE BansInv'
  <2>0. /\ bCall[r].at = "return" /\ UNCHANGED <<bDeploy, bNow, users>>
        /\ bSessions' \subseteq bSessions /\ UB!Goto(r, "ok")
    BY <1>10 DEF UB!Return, UB!At
  <2>1. UB!RemovedOut'
    BY <1>r, <2>0 DEF UB!RemovedOut, UB!Exists
  <2> QED BY <1>0, <1>g, <2>0, <2>1 DEF UB!Steps
<1>11. ASSUME NEW r \in Requests, UB!Fail(r) PROVE BansInv'
  <2>0. /\ bCall[r].at \in UB!Steps /\ UNCHANGED <<bDeploy, bNow, users, bSessions>>
        /\ UB!Goto(r, "failed")
    BY <1>11 DEF UB!Fail, UB!InFlight
  <2>1. UB!RemovedOut'
    BY <1>r, <2>0 DEF UB!RemovedOut, UB!Exists
  <2> QED BY <1>0, <1>g, <2>0, <2>1
<1>12. CASE UB!Tick \/ UNCHANGED UB!vars
  <2>0. /\ UNCHANGED <<bDeploy, users, bSessions, bCall>> /\ bNow' >= bNow
    BY <1>0, <1>12 DEF UB!Tick, UB!vars
  <2>1. UB!RemovedOut' /\ UB!RevokedGone' /\ UB!Written' = UB!Written
    BY <1>r, <2>0 DEF UB!RemovedOut, UB!Exists, BansInv, UB!RevokedGone, UB!Written, UB!User
  <2>2. \A u \in Users : \A B : BanPast(u, B) => BanPast(u, B)'
    BY <1>0, <2>0 DEF BanPast, UB!Over, UB!Row
  <2>3. \A r \in Requests : BanChecked(r)' /\ BanOrdered(r)'
    BY <1>0, <1>k, <2>0, <2>1, <2>2 DEF BanChecked, BanOrdered, UB!Op, UB!User
  <2>4. \A s \in bSessions : BanPast(s.user, s.seen)'
    BY <1>0, <2>2 DEF BansInv, UB!Session
  <2> QED BY <2>0, <2>1, <2>3, <2>4 DEF BansInv
<1> QED BY <1>1, <1>2, <1>3, <1>4, <1>5, <1>6, <1>7, <1>8, <1>9, <1>10, <1>11, <1>12
        DEF UB!Next, UB!Step, UB!Idle

\* Bans and removals end the sessions there are and keep new ones out: for any
\* users, requests, lengths of bans, clocks and failures.
THEOREM BansHoldAlways == AllSpec => []BansHold
<1>1. UB!Init => UB!TypeOK /\ BansInv
  BY BansInitTyped, InitBansInv
<1>2. (UB!TypeOK /\ BansInv) /\ [UB!Next]_UB!vars => (UB!TypeOK /\ BansInv)'
  BY BansStepTyped, BansStep
<1>3. UB!TypeOK /\ BansInv => BansHold
  BY DEF BansHold, UB!BansHold, BansInv, UB!BannedOut, UB!LiftedForCause, BanPast, BanChecked,
         UB!InForce, UB!TypeOK
<1> QED BY <1>1, <1>2, <1>3, Parts, PTL DEF UB!Spec

-----------------------------------------------------------------------------
(* OneTimeCodes: a code keeps its terms *)

LEMMA CodesTyped ==
  /\ Allowed \in Nat /\ Life \in Nat /\ MaxCodes \in Nat
  /\ cDeploy \in Mailboxes =>
       /\ cDeploy.ops \in [Requests -> SUBSET OC!AllOps]
       /\ cDeploy.plugin \in {"email", "phone"} /\ cDeploy.reuse \in BOOLEAN
       /\ cDeploy.single \in BOOLEAN
       /\ cDeploy.stranger \in BOOLEAN /\ cDeploy.serial \in BOOLEAN
       /\ cDeploy.maxTime \in Nat /\ cDeploy.maxFailures \in Nat
  BY FactorsAssumption DEF OC!ConstantsOK, OC!Deployment

LEMMA CodesInitTyped == OC!Init => OC!TypeOK
<1>1. OC!NoCall \in OC!Call /\ OC!NoRow \in OC!Row
  BY CodesTyped DEF OC!NoCall, OC!Call, OC!NoRow, OC!Row
<1> QED BY <1>1, CodesTyped DEF OC!Init, OC!TypeOK

\* What a request for a code becomes.
LEMMA CodesBecome ==
  ASSUME OC!TypeOK, NEW r \in Requests, NEW c, OC!Become(r, c)
  PROVE  /\ cCall'[r] = c /\ \A q \in Requests : q # r => cCall'[q] = cCall[q]
         /\ c \in OC!Call => cCall' \in [Requests -> OC!Call]
  BY DEF OC!TypeOK, OC!Become

\* A step of r: it goes to pc and holds the row v.
CodesMove(r, pc, v) ==
  /\ cCall'[r].at = pc /\ cCall'[r].op = cCall[r].op /\ cCall'[r].guess = cCall[r].guess
  /\ cCall'[r].val = v
  /\ \A q \in Requests : q # r => cCall'[q] = cCall[q]

LEMMA CodesGoto ==
  ASSUME OC!TypeOK, NEW r \in Requests, NEW pc, OC!Goto(r, pc)
  PROVE  /\ CodesMove(r, pc, cCall[r].val)
         /\ pc \in OC!Steps \cup OC!Ended => cCall' \in [Requests -> OC!Call]
<1>0. cCall[r] \in OC!Call
  BY DEF OC!TypeOK
<1>1. cCall'[r] = [cCall[r] EXCEPT !.at = pc] /\ \A q \in Requests : q # r => cCall'[q] = cCall[q]
  BY CodesBecome DEF OC!Goto
<1>2. CodesMove(r, pc, cCall[r].val)
  BY <1>0, <1>1 DEF OC!Call, CodesMove
<1>3. pc \in OC!Steps \cup OC!Ended => [cCall[r] EXCEPT !.at = pc] \in OC!Call
  BY <1>0 DEF OC!Call
<1> QED BY <1>2, <1>3, CodesBecome DEF OC!Goto

LEMMA CodesHold ==
  ASSUME OC!TypeOK, NEW r \in Requests, NEW pc, NEW v \in OC!Row,
         OC!Become(r, [cCall[r] EXCEPT !.at = pc, !.val = v])
  PROVE  /\ CodesMove(r, pc, v)
         /\ pc \in OC!Steps \cup OC!Ended => cCall' \in [Requests -> OC!Call]
<1>0. cCall[r] \in OC!Call
  BY DEF OC!TypeOK
<1>1. /\ cCall'[r] = [cCall[r] EXCEPT !.at = pc, !.val = v]
      /\ \A q \in Requests : q # r => cCall'[q] = cCall[q]
  BY CodesBecome
<1>2. CodesMove(r, pc, v)
  BY <1>0, <1>1 DEF OC!Call, CodesMove
<1>3. pc \in OC!Steps \cup OC!Ended => [cCall[r] EXCEPT !.at = pc, !.val = v] \in OC!Call
  BY <1>0 DEF OC!Call
<1> QED BY <1>2, <1>3, CodesBecome

\* What a find reads is a row, or nothing; what a write reaches are rows.
LEMMA CodesRead ==
  /\ \A x \in OC!Found : x = OC!NoRow \/ x \in cRows
  /\ \A hit \in OC!Reached : hit \subseteq cRows
  /\ ~cDeploy.single => OC!Reached = {cRows}
  /\ OC!Swept \subseteq cRows
  BY DEF OC!Found, OC!Reached, OC!Swept

-----------------------------------------------------------------------------
\* Where the terms of CodeGuessesBounded hold.
CodesWatched ==
  ~OC!Checks \/ (cDeploy.serial /\ cDeploy.maxFailures = 0 /\ ~cDeploy.single)

\* Who checks may check.
CodePaths ==
  \A r \in Requests :
    /\ OC!At(r, "peek") => OC!Op(r) \in cDeploy.ops[r] /\ OC!Op(r) \in {"check", "verify"}
    /\ OC!At(r, "bump") => "check" \in cDeploy.ops[r]

\* Requests are one at a time, and none has failed, where the deployment says so.
CodeRequests ==
  /\ cDeploy.serial =>
       \A p, q \in Requests : OC!InFlight(p) /\ OC!InFlight(q) => p = q
  /\ cDeploy.maxFailures = 0 => \A r \in Requests : ~OC!At(r, "failed")

\* What is known of a code, and of the codes to come.
CodeCounts ==
  \A c \in OC!Codes :
    /\ missed[c] <= Allowed
    /\ c > cMade => missed[c] = 0 /\ accepted[c] = {}
    /\ \A a \in accepted[c] : accepted[c] = {a} /\ a[2] <= lastSend + Life

\* The row x can be accepted, and its end is no later than the last sending has it.
CodeOpen(x) ==
  /\ x.code \in 1..cMade /\ x.exp <= lastSend + Life
  /\ accepted[x.code] = {}

\* A row counts the guesses compared with its code, but for the one a check is about
\* to write; where nobody checks, no two rows have the same code.
CodeStored ==
  /\ \A x \in cRows :
       /\ CodeOpen(x)
       /\ \/ missed[x.code] <= x.n
          \/ \E r \in Requests : OC!At(r, "bump")
  /\ ~OC!Checks => \A x, y \in cRows : x.code = y.code => x = y

\* A request that claimed a row.
CodeTaker(r) == OC!At(r, "wipe") \/ OC!At(r, "rearm")

\* A row that was claimed is the only one with its code, where nobody checks, and its
\* count is one guess behind when it is about to be made again.
CodeHeld ==
  \A r \in Requests :
    /\ CodeTaker(r) =>
         /\ CodeOpen(cCall[r].val)
         /\ ~OC!Checks =>
              /\ \A x \in cRows : x.code # cCall[r].val.code
              /\ \A q \in Requests :
                   CodeTaker(q) /\ q # r => cCall[q].val.code # cCall[r].val.code
    /\ OC!At(r, "wipe") => missed[cCall[r].val.code] <= cCall[r].val.n
    /\ OC!At(r, "rearm") => missed[cCall[r].val.code] <= cCall[r].val.n + 1
    /\ OC!At(r, "bump") =>
         /\ cCall[r].val.code \in 1..cMade /\ accepted[cCall[r].val.code] = {}
         /\ missed[cCall[r].val.code] <= cCall[r].val.n + 1

CodesInv ==
  /\ OC!TypeOK /\ CodePaths /\ CodeRequests /\ lastSend <= cNow
  /\ CodesWatched => CodeCounts /\ CodeStored /\ CodeHeld

\* The outcomes of the steps that compare a guess with a code.
LEMMA PeekDoes ==
  ASSUME NEW r \in Requests, OC!Peek(r)
  PROVE  \/ OC!Goto(r, "rejected") /\ UNCHANGED missed
         \/ OC!Goto(r, "take") /\ UNCHANGED missed
         \/ OC!Goto(r, "purge") /\ UNCHANGED missed
         \/ \E x \in cRows :
              /\ OC!Op(r) # "verify"
              /\ ~((OC!Op(r) = "check" \/ OC!Phone) /\ x.n >= Allowed)
              /\ \/ /\ OC!Become(r, [cCall[r] EXCEPT !.at = "ok", !.val = x])
                    /\ UNCHANGED missed
                 \/ /\ OC!Become(r, [cCall[r] EXCEPT !.at = "bump", !.val = x])
                    /\ missed' = [missed EXCEPT ![x.code] = @ + 1]
<1> DEFINE late(x) == OC!Stale(x) \/ ((OC!Op(r) = "check" \/ OC!Phone) /\ x.n >= Allowed)
<1>0. PICK x \in OC!Found :
       LET early == OC!Op(r) = "check" \/ OC!Phone
       IN  IF x = OC!NoRow
             THEN OC!Goto(r, IF early THEN "rejected" ELSE "take") /\ UNCHANGED missed
           ELSE IF OC!Stale(x) \/ (early /\ x.n >= Allowed)
             THEN OC!Goto(r, "purge") /\ UNCHANGED missed
           ELSE IF OC!Op(r) = "verify"
             THEN OC!Goto(r, "take") /\ UNCHANGED missed
           ELSE /\ OC!Become(r, [cCall[r] EXCEPT
                     !.at = IF cCall[r].guess = x.code THEN "ok" ELSE "bump", !.val = x])
                /\ OC!Compare(r, x.code)
  BY DEF OC!Peek
<1>1. CASE x = OC!NoRow
  BY <1>0, <1>1
<1>2. CASE x # OC!NoRow /\ late(x)
  BY <1>0, <1>2
<1>3. CASE x # OC!NoRow /\ ~late(x) /\ OC!Op(r) = "verify"
  BY <1>0, <1>3
<1>4. CASE x # OC!NoRow /\ ~late(x) /\ OC!Op(r) # "verify"
  <2>0. x \in cRows
    BY <1>4, CodesRead
  <2>1. /\ OC!Become(r, [cCall[r] EXCEPT
             !.at = IF cCall[r].guess = x.code THEN "ok" ELSE "bump", !.val = x])
        /\ OC!Compare(r, x.code)
    BY <1>0, <1>4
  <2>2. CASE cCall[r].guess = x.code
    BY <1>4, <2>0, <2>1, <2>2 DEF OC!Compare
  <2>3. CASE cCall[r].guess # x.code
    BY <1>4, <2>0, <2>1, <2>3 DEF OC!Compare
  <2> QED BY <2>2, <2>3
<1> QED BY <1>1, <1>2, <1>3, <1>4

LEMMA JudgeDoes ==
  ASSUME NEW r \in Requests, NEW x, OC!Judge(r, x)
  PROVE  \/ OC!Goto(r, "rejected") /\ UNCHANGED <<missed, accepted>>
         \/ /\ ~OC!Stale(x) /\ ~(x.n >= Allowed)
            /\ \/ /\ OC!Goto(r, "ok")
                  /\ UNCHANGED missed
                  /\ accepted' = [accepted EXCEPT ![x.code] = @ \cup {<<r, cNow>>}]
               \/ /\ OC!Goto(r, "rearm")
                  /\ missed' = [missed EXCEPT ![x.code] = @ + 1]
                  /\ UNCHANGED accepted
  BY DEF OC!Judge, OC!Compare

\* What the steps of a request do. It goes on, or ends, without a guess of its own;
\* rows may be deleted.
CodesQuiet(r) ==
  /\ \E pc \in (OC!Steps \cup OC!Ended) \ {"peek", "bump", "wipe", "rearm", "failed"},
        v \in OC!Row :
       CodesMove(r, pc, v)
  /\ cRows' \subseteq cRows
  /\ ~OC!At(r, "bump")
  /\ UNCHANGED <<cMade, created, lastSend, missed, accepted>>
\* It sends a code, new or old.
CodesSent(r) ==
  /\ \E pc \in {"sent", "unmake"}, v \in OC!Row : CodesMove(r, pc, v)
  /\ \/ /\ \E hit \in SUBSET cRows :
             cRows' = (cRows \ hit) \cup {[x EXCEPT !.exp = cNow + Life] : x \in hit}
        /\ cMade' = cMade /\ created' = created
     \/ /\ cMade < MaxCodes /\ cMade' = cMade + 1 /\ created' = created + 1
        /\ cRows' = cRows \cup {[id |-> created + 1, code |-> cMade + 1, n |-> 0,
                                 exp |-> cNow + Life, at |-> cNow]}
  /\ ~OC!At(r, "bump") /\ ~CodeTaker(r)
  /\ lastSend' = cNow
  /\ UNCHANGED <<missed, accepted>>
\* A check sees a wrong guess, and counts it.
CodesSeen(r) ==
  /\ \E x \in cRows :
       /\ CodesMove(r, "bump", x)
       /\ ~((OC!Op(r) = "check" \/ OC!Phone) /\ x.n >= Allowed)
       /\ missed' = [missed EXCEPT ![x.code] = @ + 1]
  /\ OC!At(r, "peek") /\ OC!Op(r) # "verify"
  /\ cRows' \subseteq cRows
  /\ UNCHANGED <<cMade, created, lastSend, accepted>>
CodesCounted(r) ==
  /\ CodesMove(r, "rejected", cCall[r].val)
  /\ OC!At(r, "bump")
  /\ \E hit \in OC!Reached :
       cRows' = (cRows \ hit)
         \cup {[x EXCEPT !.code = cCall[r].val.code, !.n = cCall[r].val.n + 1] : x \in hit}
  /\ UNCHANGED <<cMade, created, lastSend, missed, accepted>>
\* A row is claimed.
CodesClaimed(r) ==
  /\ OC!At(r, "claim")
  /\ \E x \in cRows : CodesMove(r, "wipe", x) /\ cRows' = cRows \ {x}
  /\ UNCHANGED <<cMade, created, lastSend, missed, accepted>>
\* It is judged: accepted for the right guess, and a wrong one is counted.
CodesTaken(r) ==
  /\ OC!At(r, "wipe")
  /\ ~OC!Stale(cCall[r].val) /\ ~(cCall[r].val.n >= Allowed)
  /\ cRows' = {}
  /\ \/ /\ CodesMove(r, "ok", cCall[r].val)
        /\ accepted' = [accepted EXCEPT ![cCall[r].val.code] = @ \cup {<<r, cNow>>}]
        /\ UNCHANGED missed
     \/ /\ CodesMove(r, "rearm", cCall[r].val)
        /\ missed' = [missed EXCEPT ![cCall[r].val.code] = @ + 1]
        /\ UNCHANGED accepted
  /\ UNCHANGED <<cMade, created, lastSend>>
CodesRearmed(r) ==
  /\ CodesMove(r, "rejected", cCall[r].val)
  /\ OC!At(r, "rearm")
  /\ cRows' = cRows \cup {[id |-> created + 1, code |-> cCall[r].val.code,
                           n |-> cCall[r].val.n + 1, exp |-> cCall[r].val.exp, at |-> cNow]}
  /\ created' = created + 1
  /\ UNCHANGED <<cMade, lastSend, missed, accepted>>

CodesKind(r) ==
  \/ CodesQuiet(r) \/ CodesSent(r) \/ CodesSeen(r) \/ CodesCounted(r)
  \/ CodesClaimed(r) \/ CodesTaken(r) \/ CodesRearmed(r)

\* The steps are of these kinds.
LEMMA CodesStep ==
  ASSUME OC!TypeOK, NEW r \in Requests, OC!Step(r)
  PROVE  /\ cCall' \in [Requests -> OC!Call]
         /\ OC!InFlight(r) /\ UNCHANGED <<cDeploy, cNow>>
         /\ CodesKind(r)
<1>0. /\ cCall[r] \in OC!Call /\ cCall[r].val \in OC!Row /\ OC!NoRow \in OC!Row
      /\ \A x \in cRows : x \in OC!Row
      /\ cRows \subseteq cRows
  BY CodesTyped DEF OC!TypeOK, OC!Call, OC!NoRow, OC!Row
<1> USE <1>0 DEF CodesKind
<1>1. CASE OC!Look(r)
  <2>0. PICK x \in OC!Found :
          OC!Become(r, [cCall[r] EXCEPT
            !.at  = IF x = OC!NoRow \/ OC!Stale(x) \/ x.n >= Allowed THEN "make" ELSE "extend",
            !.val = x])
    BY <1>1 DEF OC!Look
  <2>1. PICK pc \in {"make", "extend"} :
          OC!Become(r, [cCall[r] EXCEPT !.at = pc, !.val = x])
    BY <2>0
  <2>2. x \in OC!Row
    BY CodesRead
  <2>3. CodesMove(r, pc, x) /\ cCall' \in [Requests -> OC!Call]
    BY <2>1, <2>2, CodesHold DEF OC!Steps, OC!Ended
  <2>4. CodesQuiet(r)
    BY <1>1, <2>1, <2>2, <2>3, CodesRead DEF OC!Look, OC!At, CodesQuiet, OC!Steps, OC!Ended
  <2> QED BY <1>1, <2>3, <2>4 DEF OC!Look, OC!InFlight, OC!At, OC!Steps
<1>2. CASE OC!Extend(r)
  <2>1. PICK pc \in {"sent", "unmake"} : OC!Goto(r, pc)
    BY <1>2 DEF OC!Extend, OC!AfterMake
  <2>2. CodesMove(r, pc, cCall[r].val) /\ cCall' \in [Requests -> OC!Call]
    BY <2>1, CodesGoto DEF OC!Steps, OC!Ended
  <2>3. CodesSent(r)
    BY <1>2, <2>1, <2>2, CodesRead DEF OC!Extend, OC!At, CodesSent, CodeTaker
  <2> QED BY <1>2, <2>2, <2>3 DEF OC!Extend, OC!InFlight, OC!At, OC!Steps
<1>3. ASSUME OC!NewCode(r), OC!At(r, "make") \/ OC!At(r, "remake")
      PROVE  cCall' \in [Requests -> OC!Call] /\ CodesSent(r)
  <2>1. PICK pc \in {"sent", "unmake"} : OC!Goto(r, pc)
    BY <1>3 DEF OC!NewCode, OC!AfterMake
  <2>2. CodesMove(r, pc, cCall[r].val) /\ cCall' \in [Requests -> OC!Call]
    BY <2>1, CodesGoto DEF OC!Steps, OC!Ended
  <2> QED BY <1>3, <2>1, <2>2 DEF OC!NewCode, OC!Add, OC!At, CodesSent, CodeTaker
<1>4. CASE OC!Make(r) \/ OC!Remake(r)
  <2>1. CASE OC!NewCode(r)
    <3>1. UNCHANGED <<cDeploy, cNow>> /\ (OC!At(r, "make") \/ OC!At(r, "remake"))
      BY <1>4, <2>1 DEF OC!NewCode, OC!Make, OC!Remake
    <3> QED BY <1>3, <2>1, <3>1 DEF OC!InFlight, OC!At, OC!Steps
  <2>2. CASE ~OC!NewCode(r)
    <3>1. /\ OC!At(r, "make") /\ OC!Goto(r, "clear")
          /\ UNCHANGED <<cDeploy, cRows, created, cMade, cNow, lastSend, missed, accepted>>
      BY <1>4, <2>2 DEF OC!Make, OC!Remake
    <3>2. CodesMove(r, "clear", cCall[r].val) /\ cCall' \in [Requests -> OC!Call]
      BY <3>1, CodesGoto DEF OC!Steps
    <3>3. CodesQuiet(r)
      BY <3>1, <3>2 DEF OC!At, CodesQuiet, OC!Steps
    <3> QED BY <3>1, <3>2, <3>3 DEF OC!InFlight, OC!At, OC!Steps
  <2> QED BY <2>1, <2>2
<1>5. CASE OC!Delete(r)
  <2>1. PICK pc \in {"remake", "sent", "rejected"} : OC!Goto(r, pc)
    BY <1>5 DEF OC!Delete
  <2>2. CodesMove(r, pc, cCall[r].val) /\ cCall' \in [Requests -> OC!Call]
    BY <2>1, CodesGoto DEF OC!Steps, OC!Ended
  <2>3. cRows' \subseteq cRows
    BY <1>5 DEF OC!Delete
  <2>4. CodesQuiet(r)
    BY <1>5, <2>1, <2>2, <2>3 DEF OC!Delete, OC!At, CodesQuiet, OC!Steps, OC!Ended
  <2> QED BY <1>5, <2>2, <2>4 DEF OC!Delete, OC!InFlight, OC!At, OC!Steps
<1>6. CASE OC!Peek(r)
  <2>0. /\ OC!At(r, "peek") /\ cRows' \subseteq cRows
        /\ UNCHANGED <<cDeploy, created, cMade, cNow, lastSend, accepted>>
    BY <1>6, CodesRead DEF OC!Peek
  <2>1. ASSUME NEW pc \in {"rejected", "take", "purge"}, OC!Goto(r, pc), UNCHANGED missed
        PROVE  cCall' \in [Requests -> OC!Call] /\ CodesQuiet(r)
    <3>1. CodesMove(r, pc, cCall[r].val) /\ cCall' \in [Requests -> OC!Call]
      BY <2>1, CodesGoto DEF OC!Steps, OC!Ended
    <3> QED BY <2>0, <2>1, <3>1 DEF OC!At, CodesQuiet, OC!Steps, OC!Ended
  <2>2. ASSUME NEW x \in cRows,
               OC!Become(r, [cCall[r] EXCEPT !.at = "ok", !.val = x]), UNCHANGED missed
        PROVE  cCall' \in [Requests -> OC!Call] /\ CodesQuiet(r)
    <3>1. CodesMove(r, "ok", x) /\ cCall' \in [Requests -> OC!Call]
      BY <2>2, CodesHold DEF OC!Ended
    <3> QED BY <2>0, <2>2, <3>1 DEF OC!At, CodesQuiet, OC!Ended
  <2>3. ASSUME NEW x \in cRows, OC!Op(r) # "verify",
               ~((OC!Op(r) = "check" \/ OC!Phone) /\ x.n >= Allowed),
               OC!Become(r, [cCall[r] EXCEPT !.at = "bump", !.val = x]),
               missed' = [missed EXCEPT ![x.code] = @ + 1]
        PROVE  cCall' \in [Requests -> OC!Call] /\ CodesSeen(r)
    <3>1. CodesMove(r, "bump", x) /\ cCall' \in [Requests -> OC!Call]
      BY <2>3, CodesHold DEF OC!Steps
    <3> QED BY <2>0, <2>3, <3>1 DEF CodesSeen
  <2>4. cCall' \in [Requests -> OC!Call] /\ (CodesQuiet(r) \/ CodesSeen(r))
    BY <1>6, <2>1, <2>2, <2>3, PeekDoes
  <2> QED BY <2>0, <2>4 DEF OC!InFlight, OC!At, OC!Steps
<1>7. CASE OC!Bump(r)
  <2>1. CodesMove(r, "rejected", cCall[r].val) /\ cCall' \in [Requests -> OC!Call]
    BY <1>7, CodesGoto DEF OC!Bump, OC!Ended
  <2>2. CodesCounted(r)
    BY <1>7, <2>1 DEF OC!Bump, CodesCounted
  <2> QED BY <1>7, <2>1, <2>2 DEF OC!Bump, OC!InFlight, OC!At, OC!Steps
<1>8. CASE OC!Take(r)
  <2>0. /\ OC!At(r, "take")
        /\ UNCHANGED <<cDeploy, cRows, created, cMade, cNow, lastSend, missed, accepted>>
    BY <1>8 DEF OC!Take
  <2>1. \/ OC!Goto(r, "rejected")
        \/ \E x \in cRows : OC!Become(r, [cCall[r] EXCEPT !.at = "claim", !.val = x])
    BY <1>8, CodesRead DEF OC!Take
  <2>2. PICK pc \in {"rejected", "claim"}, v \in OC!Row :
          CodesMove(r, pc, v) /\ cCall' \in [Requests -> OC!Call]
    <3>1. CASE OC!Goto(r, "rejected")
      BY <3>1, CodesGoto DEF OC!Ended
    <3>2. CASE ~OC!Goto(r, "rejected")
      <4>1. PICK x \in cRows : OC!Become(r, [cCall[r] EXCEPT !.at = "claim", !.val = x])
        BY <2>1, <3>2
      <4>2. "claim" \in OC!Steps \cup OC!Ended
        BY DEF OC!Steps
      <4> QED BY <4>1, <4>2, CodesHold
    <3> QED BY <3>1, <3>2
  <2>3. CodesQuiet(r)
    BY <2>0, <2>2 DEF OC!At, CodesQuiet, OC!Ended, OC!Steps
  <2> QED BY <2>0, <2>2, <2>3 DEF OC!InFlight, OC!At, OC!Steps
<1>9. CASE OC!Claim(r)
  <2>0. /\ OC!At(r, "claim")
        /\ UNCHANGED <<cDeploy, created, cMade, cNow, lastSend, missed, accepted>>
    BY <1>9 DEF OC!Claim
  <2>1. CASE OC!Goto(r, "rejected") /\ UNCHANGED cRows
    <3>1. CodesMove(r, "rejected", cCall[r].val) /\ cCall' \in [Requests -> OC!Call]
      BY <2>1, CodesGoto DEF OC!Ended
    <3>2. CodesQuiet(r)
      BY <2>0, <2>1, <3>1 DEF OC!At, CodesQuiet, OC!Ended
    <3> QED BY <2>0, <3>1, <3>2 DEF OC!InFlight, OC!At, OC!Steps
  <2>2. CASE \E x \in cRows : /\ cRows' = cRows \ {x}
                              /\ OC!Become(r, [cCall[r] EXCEPT !.at = "wipe", !.val = x])
    <3>1. PICK x \in cRows : /\ cRows' = cRows \ {x}
                             /\ OC!Become(r, [cCall[r] EXCEPT !.at = "wipe", !.val = x])
      BY <2>2
    <3>2. CodesMove(r, "wipe", x) /\ cCall' \in [Requests -> OC!Call]
      BY <3>1, CodesHold DEF OC!Steps
    <3> QED BY <2>0, <3>1, <3>2 DEF CodesClaimed, OC!InFlight, OC!At, OC!Steps
  <2> QED BY <1>9, <2>1, <2>2 DEF OC!Claim
<1>10. CASE OC!Wipe(r)
  <2> DEFINE v == cCall[r].val
  <2>0. /\ OC!At(r, "wipe") /\ cRows' = {} /\ OC!Judge(r, v)
        /\ UNCHANGED <<cDeploy, created, cMade, cNow, lastSend>>
    BY <1>10 DEF OC!Wipe
  <2>1. ASSUME OC!Goto(r, "rejected"), UNCHANGED <<missed, accepted>>
        PROVE  cCall' \in [Requests -> OC!Call] /\ CodesQuiet(r)
    <3>1. CodesMove(r, "rejected", v) /\ cCall' \in [Requests -> OC!Call]
      BY <2>1, CodesGoto DEF OC!Ended
    <3> QED BY <2>0, <2>1, <3>1 DEF OC!At, CodesQuiet, OC!Ended
  <2>2. ASSUME ~OC!Stale(v), ~(v.n >= Allowed), OC!Goto(r, "ok"), UNCHANGED missed,
               accepted' = [accepted EXCEPT ![v.code] = @ \cup {<<r, cNow>>}]
        PROVE  cCall' \in [Requests -> OC!Call] /\ CodesTaken(r)
    <3>1. CodesMove(r, "ok", v) /\ cCall' \in [Requests -> OC!Call]
      BY <2>2, CodesGoto DEF OC!Ended
    <3> QED BY <2>0, <2>2, <3>1 DEF CodesTaken
  <2>3. ASSUME ~OC!Stale(v), ~(v.n >= Allowed), OC!Goto(r, "rearm"),
               missed' = [missed EXCEPT ![v.code] = @ + 1], UNCHANGED accepted
        PROVE  cCall' \in [Requests -> OC!Call] /\ CodesTaken(r)
    <3>1. CodesMove(r, "rearm", v) /\ cCall' \in [Requests -> OC!Call]
      BY <2>3, CodesGoto DEF OC!Steps
    <3> QED BY <2>0, <2>3, <3>1 DEF CodesTaken
  <2>4. cCall' \in [Requests -> OC!Call] /\ (CodesQuiet(r) \/ CodesTaken(r))
    BY <2>0, <2>1, <2>2, <2>3, JudgeDoes
  <2> QED BY <2>0, <2>4 DEF OC!InFlight, OC!At, OC!Steps
<1>11. CASE OC!Rearm(r)
  <2>1. CodesMove(r, "rejected", cCall[r].val) /\ cCall' \in [Requests -> OC!Call]
    BY <1>11, CodesGoto DEF OC!Rearm, OC!Ended
  <2>2. CodesRearmed(r)
    BY <1>11, <2>1 DEF OC!Rearm, OC!Add, CodesRearmed
  <2> QED BY <1>11, <2>1, <2>2 DEF OC!Rearm, OC!InFlight, OC!At, OC!Steps
<1> QED BY <1>1, <1>2, <1>4, <1>5, <1>6, <1>7, <1>8, <1>9, <1>10, <1>11 DEF OC!Step

\* A request begins: it has nothing yet, and checks where it may.
CodesBegun(r) ==
  /\ OC!At(r, "idle")
  /\ cDeploy.serial => \A q \in Requests : ~OC!InFlight(q)
  /\ cCall'[r].at \in {"look", "make", "rejected", "peek"}
  /\ cCall'[r].at = "peek" => cCall'[r].op \in cDeploy.ops[r] \cap {"check", "verify"}
  /\ \A q \in Requests : q # r => cCall'[q] = cCall[q]
  /\ UNCHANGED <<cRows, created, cMade, lastSend, missed, accepted>>

LEMMA CodesStarted ==
  ASSUME OC!TypeOK, NEW r \in Requests, NEW op \in cDeploy.ops[r], OC!Start(r, op)
  PROVE  /\ cCall' \in [Requests -> OC!Call]
         /\ UNCHANGED <<cDeploy, cNow>>
         /\ CodesBegun(r)
<1>0. op \in OC!AllOps
  BY CodesTyped DEF OC!TypeOK
<1>1. PICK g \in IF op = "send" THEN {0} ELSE 0..cMade :
        OC!Become(r, [OC!NoCall EXCEPT !.op = op, !.at = OC!FirstStep(op), !.guess = g])
  BY DEF OC!Start
<1> DEFINE c == [OC!NoCall EXCEPT !.op = op, !.at = OC!FirstStep(op), !.guess = g]
<1>2. g \in 0..MaxCodes
  BY <1>1, CodesTyped DEF OC!TypeOK
<1>3. OC!FirstStep(op) \in {"look", "make", "rejected", "peek"}
      /\ (OC!FirstStep(op) = "peek" => op \in {"check", "verify"})
  BY <1>0 DEF OC!FirstStep, OC!AllOps
<1>4. c \in OC!Call /\ c.at = OC!FirstStep(op) /\ c.op = op
  <2>1. OC!NoCall \in OC!Call
    BY CodesTyped DEF OC!Call, OC!NoCall, OC!NoRow, OC!Row
  <2>2. OC!FirstStep(op) \in {"idle"} \cup OC!Steps \cup OC!Ended
    BY <1>3 DEF OC!Steps, OC!Ended
  <2> QED BY <1>0, <1>2, <2>1, <2>2 DEF OC!Call
<1>5. /\ cCall'[r] = c /\ \A q \in Requests : q # r => cCall'[q] = cCall[q]
      /\ cCall' \in [Requests -> OC!Call]
  BY <1>1, <1>4, CodesBecome
<1>6. CodesBegun(r)
  <2>1. OC!At(r, "idle") /\ (cDeploy.serial => \A q \in Requests : ~OC!InFlight(q))
        /\ UNCHANGED <<cRows, created, cMade, lastSend, missed, accepted>>
    BY DEF OC!Start
  <2> HIDE DEF c
  <2> QED BY <1>3, <1>4, <1>5, <2>1 DEF CodesBegun
<1> QED BY <1>5, <1>6 DEF OC!Start

LEMMA CodesFailed ==
  ASSUME OC!TypeOK, NEW r \in Requests, OC!Fail(r)
  PROVE  /\ cCall' \in [Requests -> OC!Call]
         /\ OC!InFlight(r) /\ UNCHANGED <<cDeploy, cNow>>
         /\ CodesMove(r, "failed", cCall[r].val)
         /\ UNCHANGED <<cRows, created, cMade, lastSend, missed, accepted>>
  BY CodesGoto DEF OC!Fail, OC!Ended

LEMMA CodesStepTyped == ASSUME OC!TypeOK, [OC!Next]_OC!vars PROVE OC!TypeOK'
<1>0. /\ Allowed \in Nat /\ Life \in Nat /\ MaxCodes \in Nat
      /\ cRows \subseteq OC!Row /\ created \in Nat
      /\ cMade \in 0..MaxCodes /\ cNow \in Nat /\ lastSend \in Nat
  BY CodesTyped DEF OC!TypeOK
<1>1. ASSUME NEW r \in Requests, NEW op \in cDeploy.ops[r], OC!Start(r, op)
      PROVE  OC!TypeOK'
  BY <1>1, CodesStarted DEF OC!TypeOK, CodesBegun
<1>2. ASSUME NEW r \in Requests, OC!Step(r)
      PROVE  OC!TypeOK'
  <2>0. /\ cCall' \in [Requests -> OC!Call] /\ UNCHANGED <<cDeploy, cNow>> /\ CodesKind(r)
        /\ cCall[r].val \in OC!Row
    BY <1>2, CodesStep DEF OC!TypeOK, OC!Call
  <2>1. cRows' \subseteq OC!Row /\ created' \in Nat /\ cMade' \in 0..MaxCodes
        /\ lastSend' \in Nat
    <3>1. CASE CodesQuiet(r) \/ CodesSeen(r) \/ CodesClaimed(r) \/ CodesTaken(r)
      BY <1>0, <3>1 DEF CodesQuiet, CodesSeen, CodesClaimed, CodesTaken
    <3>2. CASE CodesSent(r)
      <4>1. \A x \in cRows : [x EXCEPT !.exp = cNow + Life] \in OC!Row
        BY <1>0 DEF OC!Row
      <4>2. cMade < MaxCodes =>
              [id |-> created + 1, code |-> cMade + 1, n |-> 0, exp |-> cNow + Life, at |-> cNow]
                \in OC!Row
        BY <1>0 DEF OC!Row
      <4> QED BY <1>0, <3>2, <4>1, <4>2 DEF CodesSent
    <3>3. CASE CodesCounted(r)
      <4>1. cCall[r].val.code \in 0..MaxCodes /\ cCall[r].val.n + 1 \in Nat
        BY <2>0 DEF OC!Row
      <4>2. \A x \in cRows :
              [x EXCEPT !.code = cCall[r].val.code, !.n = cCall[r].val.n + 1] \in OC!Row
        BY <1>0, <4>1 DEF OC!Row
      <4> QED BY <1>0, <3>3, <4>2, CodesRead DEF CodesCounted
    <3>4. CASE CodesRearmed(r)
      <4>1. [id |-> created + 1, code |-> cCall[r].val.code, n |-> cCall[r].val.n + 1,
             exp |-> cCall[r].val.exp, at |-> cNow] \in OC!Row
        BY <1>0, <2>0 DEF OC!Row
      <4> QED BY <1>0, <3>4, <4>1 DEF CodesRearmed
    <3> QED BY <2>0, <3>1, <3>2, <3>3, <3>4 DEF CodesKind
  <2>2. missed' \in [OC!Codes -> Nat]
    <3>1. missed' = missed \/ \E c : missed' = [missed EXCEPT ![c] = @ + 1]
      BY <2>0 DEF CodesKind, CodesQuiet, CodesSeen, CodesTaken, CodesSent, CodesCounted,
                  CodesClaimed, CodesRearmed
    <3> QED BY <3>1 DEF OC!TypeOK
  <2>3. accepted' \in [OC!Codes -> SUBSET (Requests \X Nat)]
    <3>1. accepted' = accepted
          \/ \E c : accepted' = [accepted EXCEPT ![c] = @ \cup {<<r, cNow>>}]
      BY <2>0 DEF CodesKind, CodesQuiet, CodesSeen, CodesTaken, CodesSent, CodesCounted,
                  CodesClaimed, CodesRearmed
    <3> QED BY <1>0, <3>1 DEF OC!TypeOK
  <2> QED BY <2>0, <2>1, <2>2, <2>3 DEF OC!TypeOK
<1>3. ASSUME NEW r \in Requests, OC!Fail(r)
      PROVE  OC!TypeOK'
  BY <1>3, CodesFailed DEF OC!TypeOK
<1>4. CASE OC!Tick
  BY <1>4 DEF OC!TypeOK, OC!Tick
<1>5. CASE UNCHANGED OC!vars
  BY <1>5 DEF OC!TypeOK, OC!vars
<1> QED BY <1>1, <1>2, <1>3, <1>4, <1>5 DEF OC!Next, OC!Idle

\* The paths of the requests.
LEMMA CodesPathsStep ==
  ASSUME CodesInv, [OC!Next]_OC!vars
  PROVE  /\ CodePaths' /\ CodeRequests' /\ (lastSend <= cNow)'
         /\ cDeploy' = cDeploy
<1>0. /\ cNow \in Nat /\ lastSend \in Nat /\ lastSend <= cNow
      /\ CodePaths /\ CodeRequests /\ OC!TypeOK
  BY DEF OC!TypeOK, CodesInv
<1>1. ASSUME NEW r \in Requests, NEW op \in cDeploy.ops[r], OC!Start(r, op)
      PROVE  CodePaths' /\ CodeRequests' /\ (lastSend <= cNow)' /\ cDeploy' = cDeploy
  <2>1. CodesBegun(r) /\ UNCHANGED <<cDeploy, cNow>>
    BY <1>0, <1>1, CodesStarted
  <2>2. CodePaths'
    BY <1>0, <2>1 DEF CodesBegun, CodePaths, OC!At, OC!Op
  <2>3. CodeRequests'
    BY <1>0, <2>1 DEF CodesBegun, CodeRequests, OC!At, OC!InFlight
  <2> QED BY <1>0, <2>1, <2>2, <2>3 DEF CodesBegun
<1>2. ASSUME NEW r \in Requests, OC!Step(r)
      PROVE  CodePaths' /\ CodeRequests' /\ (lastSend <= cNow)' /\ cDeploy' = cDeploy
  <2>0. OC!InFlight(r) /\ UNCHANGED <<cDeploy, cNow>> /\ CodesKind(r)
    BY <1>0, <1>2, CodesStep
  <2>1. PICK pc, v : /\ CodesMove(r, pc, v) /\ pc \notin {"peek", "failed"}
                     /\ pc = "bump" => OC!At(r, "peek") /\ OC!Op(r) # "verify"
    <3>1. CASE CodesSeen(r)
      BY <3>1 DEF CodesSeen
    <3>2. CASE CodesQuiet(r) \/ CodesSent(r)
      BY <3>2 DEF CodesQuiet, CodesSent
    <3>3. CASE CodesCounted(r) \/ CodesRearmed(r)
      <4>1. CodesMove(r, "rejected", cCall[r].val)
        BY <3>3 DEF CodesCounted, CodesRearmed
      <4> QED BY <4>1
    <3>4. CASE CodesClaimed(r)
      BY <3>4 DEF CodesClaimed
    <3>5. CASE CodesTaken(r)
      BY <3>5 DEF CodesTaken
    <3> QED BY <2>0, <3>1, <3>2, <3>3, <3>4, <3>5 DEF CodesKind
  <2>2. CodePaths'
    BY <1>0, <2>0, <2>1 DEF CodesMove, CodePaths, OC!At, OC!Op
  <2>3. CodeRequests'
    BY <1>0, <2>0, <2>1 DEF CodesMove, CodeRequests, OC!At, OC!InFlight
  <2>4. lastSend' = lastSend \/ lastSend' = cNow
    BY <2>0 DEF CodesKind, CodesQuiet, CodesSeen, CodesTaken, CodesSent, CodesCounted,
                CodesClaimed, CodesRearmed
  <2> QED BY <1>0, <2>0, <2>2, <2>3, <2>4
<1>3. ASSUME NEW r \in Requests, OC!Fail(r)
      PROVE  CodePaths' /\ CodeRequests' /\ (lastSend <= cNow)' /\ cDeploy' = cDeploy
  <2>1. /\ OC!InFlight(r) /\ UNCHANGED <<cDeploy, cNow, lastSend>>
        /\ CodesMove(r, "failed", cCall[r].val)
    BY <1>0, <1>3, CodesFailed
  <2>2. cDeploy.maxFailures # 0
    <3>1. SUFFICES ASSUME cDeploy.maxFailures = 0 PROVE FALSE
      OBVIOUS
    <3>2. {q \in Requests : OC!At(q, "failed")} = {}
      BY <1>0, <3>1 DEF CodeRequests
    <3>3. OC!Cardinality({q \in Requests : OC!At(q, "failed")})
            = Cardinality({q \in Requests : OC!At(q, "failed")})
      BY DEF OC!Cardinality, Cardinality
    <3>4. Cardinality({q \in Requests : OC!At(q, "failed")}) = 0
      BY <3>2, FS_EmptySet
    <3> QED BY <1>3, <3>1, <3>3, <3>4 DEF OC!Fail
  <2>3. CodePaths'
    BY <1>0, <2>1 DEF CodesMove, CodePaths, OC!At, OC!Op
  <2>4. CodeRequests'
    BY <1>0, <2>1, <2>2 DEF CodesMove, CodeRequests, OC!At, OC!InFlight, OC!Steps
  <2> QED BY <1>0, <2>1, <2>3, <2>4
<1>4. CASE OC!Tick
  BY <1>0, <1>4 DEF OC!Tick, CodePaths, CodeRequests, OC!At, OC!Op, OC!InFlight
<1>5. CASE UNCHANGED OC!vars
  BY <1>0, <1>5 DEF OC!vars, CodePaths, CodeRequests, OC!At, OC!Op, OC!InFlight
<1> QED BY <1>1, <1>2, <1>3, <1>4, <1>5 DEF OC!Next, OC!Idle

\* Where somebody may check, the requests come one at a time, none fails, and an update
\* reaches all rows.
LEMMA CodesAlone ==
  ASSUME CodesInv, CodesWatched, OC!Checks
  PROVE  /\ cDeploy.serial /\ cDeploy.maxFailures = 0
         /\ OC!Reached = {cRows}
         /\ \A p, q \in Requests : OC!InFlight(p) /\ OC!InFlight(q) => p = q
  BY CodesRead DEF CodesInv, CodesWatched, CodeRequests

\* A request that is about to write its count is one that checks.
LEMMA CodesBumping ==
  ASSUME CodesInv, NEW q \in Requests, OC!At(q, "bump")
  PROVE  OC!Checks
  BY DEF CodesInv, CodePaths, OC!Checks

LEMMA CodesKnown ==
  ASSUME CodesInv, CodesWatched
  PROVE  /\ Allowed \in Nat /\ Life \in Nat /\ MaxCodes \in Nat
         /\ cMade \in 0..MaxCodes /\ cNow \in Nat /\ lastSend \in Nat /\ lastSend <= cNow
         /\ \A x \in cRows : /\ x.n \in Nat /\ x.exp \in Nat /\ x.code \in 0..MaxCodes
                             /\ x \in OC!Row
         /\ \A r \in Requests : /\ cCall[r].val.n \in Nat /\ cCall[r].val.exp \in Nat
                                /\ cCall[r].val.code \in 0..MaxCodes
         /\ missed \in [OC!Codes -> Nat] /\ accepted \in [OC!Codes -> SUBSET (Requests \X Nat)]
         /\ \A c \in 1..cMade : c \in OC!Codes /\ missed[c] \in Nat
         /\ CodeCounts /\ CodeStored /\ CodeHeld
<1>1. \A r \in Requests : cCall[r].val \in OC!Row
  BY DEF CodesInv, OC!TypeOK, OC!Call
<1>2. cMade \in 0..MaxCodes /\ MaxCodes \in Nat /\ missed \in [OC!Codes -> Nat]
  BY CodesTyped DEF CodesInv, OC!TypeOK
<1>3. \A c \in 1..cMade : c \in OC!Codes /\ missed[c] \in Nat
  BY <1>2 DEF OC!Codes
<1> QED BY <1>1, <1>3, CodesTyped DEF CodesInv, OC!TypeOK, OC!Row

\* A step without a guess leaves the terms of all codes as they are.
LEMMA CodesQuietKeeps ==
  ASSUME CodesInv, CodesWatched, NEW r \in Requests, OC!InFlight(r),
         UNCHANGED <<cDeploy, cNow>>, CodesQuiet(r)
  PROVE  CodeCounts' /\ CodeStored' /\ CodeHeld'
<1>0. PICK pc, v : CodesMove(r, pc, v) /\ pc \notin {"bump", "wipe", "rearm"}
  BY DEF CodesQuiet
<1>1. /\ cRows' \subseteq cRows /\ OC!Checks' = OC!Checks
      /\ UNCHANGED <<cMade, lastSend, missed, accepted>>
  BY DEF CodesQuiet, OC!Checks
<1>2. CodeCounts'
  BY <1>1, CodesKnown DEF CodeCounts
<1>3. \A q \in Requests :
        /\ OC!At(q, "bump")' <=> OC!At(q, "bump")
        /\ OC!At(q, "wipe")' => OC!At(q, "wipe")
        /\ OC!At(q, "rearm")' => OC!At(q, "rearm")
        /\ OC!At(q, "bump")' \/ OC!At(q, "wipe")' \/ OC!At(q, "rearm")' => cCall'[q] = cCall[q]
  BY <1>0 DEF CodesMove, OC!At, CodesQuiet
<1>4. CodeStored'
  BY <1>1, <1>3, CodesKnown DEF CodeStored, CodeOpen
<1>5. CodeHeld'
  BY <1>1, <1>3, CodesKnown DEF CodeHeld, CodeOpen, CodeTaker
<1> QED BY <1>2, <1>4, <1>5

\* A sending starts a code, or moves the end of those there are.
LEMMA CodesSentKeeps ==
  ASSUME CodesInv, CodesWatched, NEW r \in Requests, OC!InFlight(r),
         UNCHANGED <<cDeploy, cNow>>, CodesSent(r)
  PROVE  CodeCounts' /\ CodeStored' /\ CodeHeld'
<1>0. PICK pc, v : CodesMove(r, pc, v) /\ pc \notin {"bump", "wipe", "rearm"}
  BY DEF CodesSent
<1>1. /\ cMade' \in {cMade, cMade + 1} /\ cMade' <= MaxCodes
      /\ lastSend' = cNow /\ lastSend <= lastSend' /\ OC!Checks' = OC!Checks
      /\ UNCHANGED <<missed, accepted>>
  BY CodesKnown DEF CodesSent, OC!Checks
<1>2. CodeCounts'
  <2> SUFFICES ASSUME NEW c \in OC!Codes PROVE
        /\ (missed[c] <= Allowed)'
        /\ (c > cMade => missed[c] = 0 /\ accepted[c] = {})'
        /\ (\A a \in accepted[c] : accepted[c] = {a} /\ a[2] <= lastSend + Life)'
    BY DEF CodeCounts
  <2>1. c \in Nat
    BY CodesKnown DEF OC!Codes
  <2>2. \A a \in accepted[c] : a[2] \in Nat
    BY CodesKnown
  <2> QED BY <1>1, <2>1, <2>2, CodesKnown DEF CodeCounts
<1>3. \A q \in Requests :
        /\ OC!At(q, "bump")' <=> OC!At(q, "bump")
        /\ OC!At(q, "wipe")' => OC!At(q, "wipe")
        /\ OC!At(q, "rearm")' => OC!At(q, "rearm")
        /\ OC!At(q, "bump")' \/ OC!At(q, "wipe")' \/ OC!At(q, "rearm")' => cCall'[q] = cCall[q]
  BY <1>0 DEF CodesMove, OC!At, CodesSent, CodeTaker
<1>4. \A x : CodeOpen(x) /\ x.exp \in Nat /\ x.code \in Nat => CodeOpen(x)'
  BY <1>1, CodesKnown DEF CodeOpen
<1>5. /\ CodeStored'
      /\ \A y \in cRows' : (\E x \in cRows : y.code = x.code) \/ y.code > cMade
  <2>1. CASE \E hit \in SUBSET cRows :
               cRows' = (cRows \ hit) \cup {[x EXCEPT !.exp = cNow + Life] : x \in hit}
    <3>1. PICK hit \in SUBSET cRows :
                 cRows' = (cRows \ hit) \cup {[x EXCEPT !.exp = cNow + Life] : x \in hit}
      BY <2>1
    <3>2. \A y \in cRows' :
            \/ y \in cRows \ hit
            \/ \E x \in hit : /\ y = [x EXCEPT !.exp = cNow + Life] /\ x \in cRows
                              /\ y.code = x.code /\ y.n = x.n /\ y.exp = cNow + Life
      BY <3>1, CodesKnown DEF OC!Row
    <3>3. \A y \in cRows' : \E x \in cRows :
            /\ y.code = x.code /\ y.n = x.n /\ CodeOpen(y)'
      BY <1>1, <1>4, <3>2, CodesKnown DEF CodeStored, CodeOpen
    <3>4. \A y \in cRows' : missed'[y.code] <= y.n \/ \E q \in Requests : OC!At(q, "bump")'
      BY <1>1, <1>3, <3>3, CodesKnown DEF CodeStored
    <3>5. ~OC!Checks => \A x, y \in cRows' : x.code = y.code => x = y
      <4> SUFFICES ASSUME ~OC!Checks, NEW x \in cRows', NEW y \in cRows', x.code = y.code
                   PROVE  x = y
        OBVIOUS
      <4>1. \A a, b \in cRows : a.code = b.code => a = b
        BY CodesKnown DEF CodeStored
      <4> QED BY <3>2, <4>1
    <3> QED BY <1>1, <3>3, <3>4, <3>5 DEF CodeStored
  <2>2. CASE /\ cMade < MaxCodes /\ cMade' = cMade + 1
             /\ cRows' = cRows \cup {[id |-> created + 1, code |-> cMade + 1, n |-> 0,
                                      exp |-> cNow + Life, at |-> cNow]}
    <3>1. PICK new : /\ new.code = cMade + 1 /\ new.n = 0 /\ new.exp = cNow + Life
                     /\ cRows' = cRows \cup {new}
      BY <2>2
    <3>2. cMade + 1 \in OC!Codes /\ cMade + 1 > cMade /\ cMade + 1 \in 1..cMade'
      BY <2>2, CodesKnown DEF OC!Codes
    <3>3. missed'[new.code] = 0 /\ accepted'[new.code] = {}
      BY <1>1, <3>1, <3>2, CodesKnown DEF CodeCounts
    <3>4. CodeOpen(new)' /\ missed'[new.code] <= new.n
      BY <1>1, <3>1, <3>2, <3>3, CodesKnown DEF CodeOpen
    <3>5. \A x \in cRows : CodeOpen(x)' /\ x.code <= cMade
      BY <1>4, CodesKnown DEF CodeStored, CodeOpen
    <3>6. \A x \in cRows' : CodeOpen(x)' /\ (missed'[x.code] <= x.n
            \/ \E q \in Requests : OC!At(q, "bump")')
      BY <1>1, <1>3, <3>1, <3>4, <3>5, CodesKnown DEF CodeStored
    <3>7. ~OC!Checks => \A x, y \in cRows' : x.code = y.code => x = y
      BY <3>1, <3>2, <3>5, CodesKnown DEF CodeStored
    <3>8. \A y \in cRows' : (\E x \in cRows : y.code = x.code) \/ y.code > cMade
      BY <3>1, <3>2
    <3> QED BY <1>1, <3>6, <3>7, <3>8 DEF CodeStored
  <2> QED BY <2>1, <2>2 DEF CodesSent
<1>6. CodeHeld'
  <2> SUFFICES ASSUME NEW q \in Requests PROVE
        /\ CodeTaker(q)' =>
             /\ CodeOpen(cCall[q].val)'
             /\ ~OC!Checks =>
                  /\ \A x \in cRows' : x.code # cCall'[q].val.code
                  /\ \A p \in Requests :
                       CodeTaker(p)' /\ p # q => cCall'[p].val.code # cCall'[q].val.code
        /\ OC!At(q, "wipe")' => (missed[cCall[q].val.code] <= cCall[q].val.n)'
        /\ OC!At(q, "rearm")' => (missed[cCall[q].val.code] <= cCall[q].val.n + 1)'
        /\ OC!At(q, "bump")' =>
             (/\ cCall[q].val.code \in 1..cMade /\ accepted[cCall[q].val.code] = {}
              /\ missed[cCall[q].val.code] <= cCall[q].val.n + 1)'
    BY <1>1 DEF CodeHeld
  <2>1. CASE CodeTaker(q)'
    <3>1. /\ CodeTaker(q) /\ cCall'[q] = cCall[q] /\ ~OC!At(q, "bump")'
          /\ OC!At(q, "wipe")' => OC!At(q, "wipe")
          /\ OC!At(q, "rearm")' => OC!At(q, "rearm")
      BY <1>3, <2>1 DEF CodeTaker, OC!At
    <3>2. CodeOpen(cCall[q].val) /\ cCall[q].val.code <= cMade
      BY <3>1, CodesKnown DEF CodeHeld, CodeOpen
    <3>3. CodeOpen(cCall[q].val)'
      BY <1>1, <3>1, <3>2, CodesKnown DEF CodeOpen
    <3>4. ~OC!Checks => \A x \in cRows' : x.code # cCall'[q].val.code
      <4> SUFFICES ASSUME ~OC!Checks, NEW x \in cRows' PROVE x.code # cCall[q].val.code
        BY <3>1
      <4>1. CASE \E y \in cRows : x.code = y.code
        BY <3>1, <4>1, CodesKnown DEF CodeHeld
      <4>2. CASE x.code > cMade
        BY <3>2, <4>2, CodesKnown
      <4> QED BY <1>5, <4>1, <4>2
    <3>5. ~OC!Checks => \A p \in Requests :
            CodeTaker(p)' /\ p # q => cCall'[p].val.code # cCall'[q].val.code
      BY <1>3, <3>1, CodesKnown DEF CodeHeld, CodeTaker
    <3> QED BY <1>1, <3>1, <3>3, <3>4, <3>5, CodesKnown DEF CodeHeld
  <2>2. CASE OC!At(q, "bump")'
    <3>1. OC!At(q, "bump") /\ cCall'[q] = cCall[q] /\ ~CodeTaker(q)'
      BY <1>3, <2>2 DEF CodeTaker, OC!At
    <3> QED BY <1>1, <3>1, CodesKnown DEF CodeHeld, CodeTaker
  <2> QED BY <2>1, <2>2 DEF CodeTaker
<1> QED BY <1>2, <1>5, <1>6

\* Counting a guess that was compared with the code c.
LEMMA CodesMissedOne ==
  ASSUME CodesInv, CodesWatched, NEW c \in 1..cMade, missed[c] < Allowed,
         missed' = [missed EXCEPT ![c] = @ + 1], UNCHANGED <<cMade, lastSend, accepted>>
  PROVE  /\ CodeCounts'
         /\ missed'[c] = missed[c] + 1 /\ \A d \in OC!Codes \ {c} : missed'[d] = missed[d]
<1>1. c \in OC!Codes
  BY CodesKnown DEF OC!Codes
<1>2. missed'[c] = missed[c] + 1 /\ \A d \in OC!Codes \ {c} : missed'[d] = missed[d]
  BY <1>1, CodesKnown
<1>3. CodeCounts'
  <2> SUFFICES ASSUME NEW d \in OC!Codes PROVE
        /\ (missed[d] <= Allowed)'
        /\ (d > cMade => missed[d] = 0 /\ accepted[d] = {})'
        /\ (\A a \in accepted[d] : accepted[d] = {a} /\ a[2] <= lastSend + Life)'
    BY DEF CodeCounts
  <2>1. missed[c] \in Nat /\ missed'[d] \in {missed[d], missed[c] + 1}
        /\ (d > cMade => d # c)
    BY <1>1, <1>2, CodesKnown
  <2> QED BY <1>1, <1>2, <2>1, CodesKnown DEF CodeCounts
<1> QED BY <1>2, <1>3

\* A check counts its guess one step after it compared it, and nobody comes between.
LEMMA CodesSeenKeeps ==
  ASSUME CodesInv, CodesWatched, NEW r \in Requests, OC!InFlight(r),
         UNCHANGED <<cDeploy, cNow>>, CodesSeen(r)
  PROVE  CodeCounts' /\ CodeStored' /\ CodeHeld'
<1>0. PICK x \in cRows : /\ CodesMove(r, "bump", x)
                         /\ ~((OC!Op(r) = "check" \/ OC!Phone) /\ x.n >= Allowed)
                         /\ missed' = [missed EXCEPT ![x.code] = @ + 1]
  BY DEF CodesSeen
<1>1. OC!Op(r) = "check" /\ OC!Checks /\ cRows' \subseteq cRows /\ OC!Checks' = OC!Checks
      /\ UNCHANGED <<cMade, lastSend, accepted>>
  BY DEF CodesSeen, CodesInv, CodePaths, OC!Checks
<1>2. \A q \in Requests : q # r => ~OC!InFlight(q) /\ cCall'[q] = cCall[q]
  BY <1>0, <1>1, CodesAlone DEF CodesMove
<1>3. \A q \in Requests : ~CodeTaker(q)' /\ (OC!At(q, "bump")' => q = r)
  BY <1>0, <1>2 DEF CodesMove, OC!InFlight, OC!At, OC!Steps, CodeTaker
<1>4. x.n < Allowed /\ CodeOpen(x) /\ missed[x.code] <= x.n
  <2>1. ~\E q \in Requests : OC!At(q, "bump")
    BY <1>2 DEF CodesSeen, OC!At, OC!InFlight, OC!Steps
  <2> QED BY <1>0, <1>1, <2>1, CodesKnown DEF CodeStored
<1>5. CodeCounts' /\ missed'[x.code] = missed[x.code] + 1
  <2>1. x.code \in 1..cMade /\ missed[x.code] < Allowed
    BY <1>4, CodesKnown DEF CodeOpen
  <2> QED BY <1>0, <1>1, <2>1, CodesMissedOne
<1>6. CodeStored'
  <2>1. OC!At(r, "bump")'
    BY <1>0 DEF CodesMove, OC!At
  <2> QED BY <1>1, <2>1, CodesKnown DEF CodeStored, CodeOpen
<1>7. CodeHeld'
  <2>1. cCall'[r].val = x /\ x.code \in 1..cMade' /\ accepted'[x.code] = {}
        /\ missed'[x.code] <= x.n + 1
    BY <1>0, <1>1, <1>4, <1>5, CodesKnown DEF CodesMove, CodeOpen
  <2> QED BY <1>3, <2>1 DEF CodeHeld, CodeTaker
<1> QED BY <1>5, <1>6, <1>7

\* A check writes its code and count over every row there is.
LEMMA CodesCountedKeeps ==
  ASSUME CodesInv, CodesWatched, NEW r \in Requests, OC!InFlight(r),
         UNCHANGED <<cDeploy, cNow>>, CodesCounted(r)
  PROVE  CodeCounts' /\ CodeStored' /\ CodeHeld'
<1>0. CodesMove(r, "rejected", cCall[r].val) /\ OC!At(r, "bump") /\ OC!Checks
      /\ OC!Checks' = OC!Checks /\ UNCHANGED <<cMade, lastSend, missed, accepted>>
  BY CodesBumping DEF CodesCounted, OC!Checks
<1>1. \A q \in Requests : ~OC!At(q, "bump")' /\ ~CodeTaker(q)'
  <2>1. \A q \in Requests : OC!InFlight(q) => q = r
    BY <1>0, CodesAlone
  <2> QED BY <1>0, <2>1 DEF CodesMove, OC!InFlight, OC!At, OC!Steps, CodeTaker
<1>2. cRows' = {[x EXCEPT !.code = cCall[r].val.code, !.n = cCall[r].val.n + 1] : x \in cRows}
  BY <1>0, CodesAlone DEF CodesCounted
<1>3. /\ cCall[r].val.code \in 1..cMade /\ accepted[cCall[r].val.code] = {}
      /\ missed[cCall[r].val.code] <= cCall[r].val.n + 1
  BY <1>0, CodesKnown DEF CodeHeld
<1>4. \A y \in cRows' : \E x \in cRows : y.code = cCall[r].val.code
        /\ y.n = cCall[r].val.n + 1 /\ y.exp = x.exp /\ x.exp <= lastSend + Life
  <2>1. \A x \in cRows : x.exp <= lastSend + Life
    BY CodesKnown DEF CodeStored, CodeOpen
  <2> SUFFICES ASSUME NEW x \in cRows, NEW y,
                      y = [x EXCEPT !.code = cCall[r].val.code, !.n = cCall[r].val.n + 1]
               PROVE  y.code = cCall[r].val.code /\ y.n = cCall[r].val.n + 1 /\ y.exp = x.exp
    BY <1>2, <2>1
  <2>2. x \in OC!Row
    BY CodesKnown
  <2> QED BY <2>2 DEF OC!Row
<1>5. CodeCounts'
  BY <1>0, CodesKnown DEF CodeCounts
<1>6. CodeStored'
  BY <1>0, <1>3, <1>4 DEF CodeStored, CodeOpen
<1>7. CodeHeld'
  BY <1>1 DEF CodeHeld, CodeTaker
<1> QED BY <1>5, <1>6, <1>7

\* A claimed row is the claimer's: its code is in no other row and no other hand.
LEMMA CodesClaimedKeeps ==
  ASSUME CodesInv, CodesWatched, NEW r \in Requests, OC!InFlight(r),
         UNCHANGED <<cDeploy, cNow>>, CodesClaimed(r)
  PROVE  CodeCounts' /\ CodeStored' /\ CodeHeld'
<1>0. PICK x \in cRows : CodesMove(r, "wipe", x) /\ cRows' = cRows \ {x}
  BY DEF CodesClaimed
<1>1. OC!At(r, "claim") /\ OC!Checks' = OC!Checks
      /\ UNCHANGED <<cMade, lastSend, missed, accepted>>
  BY DEF CodesClaimed, OC!Checks
<1>2. \A q \in Requests : q # r => cCall'[q] = cCall[q] /\ (CodeTaker(q)' <=> CodeTaker(q))
                                   /\ (OC!At(q, "bump")' <=> OC!At(q, "bump"))
  BY <1>0 DEF CodesMove, OC!At, CodeTaker
<1>3. \A q \in Requests : ~OC!At(q, "bump")
  <2> SUFFICES ASSUME NEW q \in Requests, OC!At(q, "bump") PROVE FALSE
    OBVIOUS
  <2>1. OC!InFlight(q) /\ q # r
    BY <1>1 DEF OC!At, OC!InFlight, OC!Steps
  <2> QED BY <2>1, CodesAlone, CodesBumping
<1>4. CodeOpen(x) /\ missed[x.code] <= x.n
  BY <1>3, CodesKnown DEF CodeStored
<1>5. CodeCounts'
  BY <1>1, CodesKnown DEF CodeCounts
<1>6. CodeStored'
  BY <1>0, <1>1, <1>3, CodesKnown DEF CodeStored, CodeOpen
<1>7. CodeHeld'
  <2>0. /\ cCall'[r].val = x /\ cCall'[r].at = "wipe" /\ CodeOpen(x)'
        /\ ~CodeTaker(r) /\ ~OC!At(r, "bump")' /\ ~OC!At(r, "rearm")'
    BY <1>0, <1>1, <1>4 DEF CodesMove, CodeOpen, CodeTaker, OC!At
  <2>1. ~OC!Checks =>
          /\ \A y \in cRows' : y.code # x.code
          /\ \A q \in Requests : CodeTaker(q)' /\ q # r => cCall'[q].val.code # x.code
    BY <1>0, <1>2, CodesKnown DEF CodeStored, CodeHeld
  <2> SUFFICES ASSUME NEW q \in Requests PROVE
        /\ CodeTaker(q)' =>
             /\ CodeOpen(cCall[q].val)'
             /\ ~OC!Checks =>
                  /\ \A y \in cRows' : y.code # cCall'[q].val.code
                  /\ \A p \in Requests :
                       CodeTaker(p)' /\ p # q => cCall'[p].val.code # cCall'[q].val.code
        /\ OC!At(q, "wipe")' => (missed[cCall[q].val.code] <= cCall[q].val.n)'
        /\ OC!At(q, "rearm")' => (missed[cCall[q].val.code] <= cCall[q].val.n + 1)'
        /\ ~OC!At(q, "bump")'
    BY <1>1 DEF CodeHeld
  <2>2. CASE q = r
    BY <1>1, <1>4, <2>0, <2>1, <2>2 DEF CodeOpen
  <2>3. CASE q # r
    <3>1. cCall'[q] = cCall[q] /\ (CodeTaker(q)' => CodeTaker(q)) /\ ~OC!At(q, "bump")'
      BY <1>2, <1>3, <2>3
    <3>2. CodeTaker(q) => CodeOpen(cCall[q].val)'
      BY <1>1, <3>1, CodesKnown DEF CodeHeld, CodeOpen
    <3>3. /\ OC!At(q, "wipe")' => (missed[cCall[q].val.code] <= cCall[q].val.n)'
          /\ OC!At(q, "rearm")' => (missed[cCall[q].val.code] <= cCall[q].val.n + 1)'
      BY <1>1, <3>1, CodesKnown DEF CodeHeld, OC!At
    <3>4. ASSUME CodeTaker(q), ~OC!Checks
          PROVE  /\ \A y \in cRows' : y.code # cCall'[q].val.code
                 /\ \A p \in Requests :
                      CodeTaker(p)' /\ p # q => cCall'[p].val.code # cCall'[q].val.code
      <4>1. /\ \A y \in cRows : y.code # cCall[q].val.code
            /\ \A p \in Requests : CodeTaker(p) /\ p # q => cCall[p].val.code # cCall[q].val.code
        BY <3>4, CodesKnown DEF CodeHeld
      <4> QED BY <1>0, <1>2, <2>0, <3>1, <4>1
    <3> QED BY <3>1, <3>2, <3>3, <3>4
  <2> QED BY <2>2, <2>3
<1> QED BY <1>5, <1>6, <1>7

\* A claimed row is judged by the one request that has it.
LEMMA CodesTakenKeeps ==
  ASSUME CodesInv, CodesWatched, NEW r \in Requests, OC!InFlight(r),
         UNCHANGED <<cDeploy, cNow>>, CodesTaken(r)
  PROVE  CodeCounts' /\ CodeStored' /\ CodeHeld'
<1>0. PICK v : v = cCall[r].val
  OBVIOUS
<1>1. PICK c : c = v.code
  OBVIOUS
<1>2. cRows' = {} /\ UNCHANGED <<cMade, lastSend>> /\ OC!At(r, "wipe") /\ CodeTaker(r)
      /\ OC!Checks' = OC!Checks
  BY DEF CodesTaken, OC!Checks, CodeTaker
<1>3. /\ CodeOpen(v) /\ missed[c] <= v.n /\ v.n < Allowed
      /\ c \in 1..cMade /\ c \in OC!Codes /\ missed[c] \in Nat /\ accepted[c] = {}
      /\ v.exp >= cNow /\ v.n \in Nat
  <2>1. CodeOpen(v) /\ missed[c] <= v.n
    BY <1>0, <1>1, <1>2, CodesKnown DEF CodeHeld
  <2>2. c \in 1..cMade /\ accepted[c] = {}
    BY <1>1, <2>1 DEF CodeOpen
  <2> QED BY <1>0, <2>1, <2>2, CodesKnown DEF CodesTaken, OC!Stale
<1>4. CodeStored'
  BY <1>2 DEF CodeStored
<1>5. \A q \in Requests \ {r} :
        /\ cCall'[q] = cCall[q]
        /\ ~OC!At(q, "bump") /\ ~OC!At(q, "bump")'
        /\ CodeTaker(q) => cCall[q].val.code \in OC!Codes \ {c}
  <2> SUFFICES ASSUME NEW q \in Requests \ {r} PROVE
        /\ cCall'[q] = cCall[q] /\ ~OC!At(q, "bump")
        /\ CodeTaker(q) => cCall[q].val.code \in OC!Codes \ {c}
    BY DEF OC!At
  <2>1. cCall'[q] = cCall[q]
    BY DEF CodesTaken, CodesMove
  <2>2. OC!Checks => ~CodeTaker(q)
    BY CodesAlone DEF CodeTaker, OC!At, OC!InFlight, OC!Steps
  <2>3. ~OC!At(q, "bump")
    BY CodesAlone, CodesBumping DEF OC!At, OC!InFlight, OC!Steps
  <2>4. CodeTaker(q) => cCall[q].val.code # c /\ cCall[q].val.code \in 1..cMade
    BY <1>0, <1>1, <1>2, <2>2, CodesKnown DEF CodeHeld, CodeOpen
  <2> QED BY <2>1, <2>3, <2>4, CodesKnown
\* The other takers keep what they have, whatever becomes of c.
<1>6. ASSUME \A d \in OC!Codes \ {c} : missed'[d] = missed[d] /\ accepted'[d] = accepted[d],
             NEW q \in Requests \ {r}
      PROVE  /\ CodeTaker(q)' => CodeTaker(q) /\ CodeOpen(cCall[q].val)'
             /\ OC!At(q, "wipe")' => (missed[cCall[q].val.code] <= cCall[q].val.n)'
             /\ OC!At(q, "rearm")' => (missed[cCall[q].val.code] <= cCall[q].val.n + 1)'
             /\ ~OC!At(q, "bump")'
             /\ CodeTaker(q)' /\ ~OC!Checks => \A p \in Requests \ {r} :
                  CodeTaker(p)' /\ p # q => cCall'[p].val.code # cCall'[q].val.code
  <2>0. cCall'[q] = cCall[q] /\ ~OC!At(q, "bump")'
    BY <1>5
  <2>1. CodeTaker(q)' => CodeTaker(q) /\ cCall[q].val.code \in OC!Codes \ {c}
    BY <1>5, <2>0 DEF CodeTaker, OC!At
  <2>2. CodeTaker(q)' => CodeOpen(cCall[q].val)'
    BY <1>2, <1>6, <2>0, <2>1, CodesKnown DEF CodeHeld, CodeOpen
  <2>3. /\ OC!At(q, "wipe")' => (missed[cCall[q].val.code] <= cCall[q].val.n)'
        /\ OC!At(q, "rearm")' => (missed[cCall[q].val.code] <= cCall[q].val.n + 1)'
    BY <1>6, <2>0, <2>1, CodesKnown DEF CodeHeld, CodeTaker, OC!At
  <2>4. ASSUME CodeTaker(q)', ~OC!Checks, NEW p \in Requests \ {r}, CodeTaker(p)', p # q
        PROVE  cCall'[p].val.code # cCall'[q].val.code
    <3>1. CodeTaker(p) /\ cCall'[p] = cCall[p]
      BY <1>5, <2>4 DEF CodeTaker, OC!At
    <3> QED BY <2>0, <2>1, <2>4, <3>1, CodesKnown DEF CodeHeld
  <2> QED BY <2>0, <2>1, <2>2, <2>3, <2>4
<1>7. CASE /\ CodesMove(r, "ok", v) /\ UNCHANGED missed
           /\ accepted' = [accepted EXCEPT ![c] = @ \cup {<<r, cNow>>}]
  <2>1. accepted'[c] = {<<r, cNow>>} /\ \A d \in OC!Codes \ {c} : accepted'[d] = accepted[d]
    BY <1>3, <1>7, CodesKnown
  <2>2. cNow <= lastSend + Life
    BY <1>0, <1>3, CodesKnown DEF CodeOpen
  <2>3. CodeCounts'
    <3> SUFFICES ASSUME NEW d \in OC!Codes PROVE
          /\ (missed[d] <= Allowed)'
          /\ (d > cMade => missed[d] = 0 /\ accepted[d] = {})'
          /\ (\A a \in accepted[d] : accepted[d] = {a} /\ a[2] <= lastSend + Life)'
      BY DEF CodeCounts
    <3>1. CASE d = c
      BY <1>2, <1>3, <1>7, <2>1, <2>2, <3>1, CodesKnown DEF CodeCounts
    <3>2. CASE d # c
      BY <1>2, <1>7, <2>1, <3>2, CodesKnown DEF CodeCounts
    <3> QED BY <3>1, <3>2
  <2>4. ~CodeTaker(r)' /\ ~OC!At(r, "bump")'
    BY <1>7 DEF CodesMove, CodeTaker, OC!At
  <2>5. \A d \in OC!Codes \ {c} : missed'[d] = missed[d] /\ accepted'[d] = accepted[d]
    BY <1>7, <2>1
  <2>6. CodeHeld'
    <3> SUFFICES ASSUME NEW q \in Requests PROVE
          /\ CodeTaker(q)' =>
               /\ CodeOpen(cCall[q].val)'
               /\ ~OC!Checks =>
                    \A p \in Requests :
                      CodeTaker(p)' /\ p # q => cCall'[p].val.code # cCall'[q].val.code
          /\ OC!At(q, "wipe")' => (missed[cCall[q].val.code] <= cCall[q].val.n)'
          /\ OC!At(q, "rearm")' => (missed[cCall[q].val.code] <= cCall[q].val.n + 1)'
          /\ ~OC!At(q, "bump")'
      BY <1>2 DEF CodeHeld
    <3>1. CASE q = r
      BY <2>4, <3>1 DEF CodeTaker
    <3>2. CASE q # r
      BY <1>6, <2>4, <2>5, <3>2
    <3> QED BY <3>1, <3>2
  <2> QED BY <1>4, <2>3, <2>6
<1>8. CASE /\ CodesMove(r, "rearm", v) /\ UNCHANGED accepted
           /\ missed' = [missed EXCEPT ![c] = @ + 1]
  <2>1. /\ CodeCounts'
        /\ missed'[c] = missed[c] + 1 /\ \A d \in OC!Codes \ {c} : missed'[d] = missed[d]
    <3>1. missed[c] < Allowed
      BY <1>3, CodesKnown
    <3> QED BY <1>2, <1>3, <1>8, <3>1, CodesMissedOne
  <2>2. /\ cCall'[r].val = v /\ cCall'[r].at = "rearm"
        /\ CodeOpen(cCall[r].val)' /\ missed'[v.code] <= v.n + 1
    BY <1>1, <1>2, <1>3, <1>8, <2>1, CodesKnown DEF CodesMove, CodeOpen
  <2>3. \A d \in OC!Codes \ {c} : missed'[d] = missed[d] /\ accepted'[d] = accepted[d]
    BY <1>8, <2>1
  <2>4. \A p \in Requests \ {r} : CodeTaker(p)' => cCall'[p].val.code # c
    BY <1>5 DEF CodeTaker, OC!At
  <2>5. CodeHeld'
    <3> SUFFICES ASSUME NEW q \in Requests PROVE
          /\ CodeTaker(q)' =>
               /\ CodeOpen(cCall[q].val)'
               /\ ~OC!Checks =>
                    \A p \in Requests :
                      CodeTaker(p)' /\ p # q => cCall'[p].val.code # cCall'[q].val.code
          /\ OC!At(q, "wipe")' => (missed[cCall[q].val.code] <= cCall[q].val.n)'
          /\ OC!At(q, "rearm")' => (missed[cCall[q].val.code] <= cCall[q].val.n + 1)'
          /\ ~OC!At(q, "bump")'
      BY <1>2 DEF CodeHeld
    <3>1. CASE q = r
      BY <1>1, <2>2, <2>4, <3>1 DEF CodeTaker, OC!At
    <3>2. CASE q # r
      BY <1>1, <1>6, <2>2, <2>3, <2>4, <3>2
    <3> QED BY <3>1, <3>2
  <2> QED BY <1>4, <2>1, <2>5
<1> QED BY <1>0, <1>1, <1>7, <1>8 DEF CodesTaken

\* What was claimed comes back with one guess more and the end it had.
LEMMA CodesRearmedKeeps ==
  ASSUME CodesInv, CodesWatched, NEW r \in Requests, OC!InFlight(r),
         UNCHANGED <<cDeploy, cNow>>, CodesRearmed(r)
  PROVE  CodeCounts' /\ CodeStored' /\ CodeHeld'
<1>0. /\ CodesMove(r, "rejected", cCall[r].val) /\ OC!At(r, "rearm") /\ CodeTaker(r)
      /\ OC!Checks' = OC!Checks /\ UNCHANGED <<cMade, lastSend, missed, accepted>>
  BY DEF CodesRearmed, OC!Checks, CodeTaker
<1>1. PICK new : /\ new.code = cCall[r].val.code /\ new.n = cCall[r].val.n + 1
                 /\ new.exp = cCall[r].val.exp /\ cRows' = cRows \cup {new}
  BY DEF CodesRearmed
<1>2. CodeCounts'
  BY <1>0, CodesKnown DEF CodeCounts
<1>3. CodeStored'
  <2>1. CodeOpen(new)' /\ missed'[new.code] <= new.n
    BY <1>0, <1>1, CodesKnown DEF CodeHeld, CodeOpen
  <2>2. \A q \in Requests : OC!At(q, "bump") => OC!At(q, "bump")'
    BY <1>0 DEF CodesMove, OC!At
  <2>3. \A x \in cRows : CodeOpen(x)' /\ (missed'[x.code] <= x.n
            \/ \E q \in Requests : OC!At(q, "bump")')
    BY <1>0, <2>2, CodesKnown DEF CodeStored, CodeOpen
  <2>4. ~OC!Checks => \A x \in cRows : x.code # new.code
    BY <1>0, <1>1, CodesKnown DEF CodeHeld
  <2>5. ~OC!Checks => \A x, y \in cRows' : x.code = y.code => x = y
    BY <1>1, <2>4, CodesKnown DEF CodeStored
  <2> QED BY <1>0, <1>1, <2>1, <2>3, <2>5 DEF CodeStored
<1>4. \A q \in Requests :
        /\ CodeTaker(q)' => CodeTaker(q) /\ q # r /\ cCall'[q] = cCall[q]
        /\ OC!At(q, "bump")' => OC!At(q, "bump") /\ cCall'[q] = cCall[q]
        /\ OC!At(q, "wipe")' => OC!At(q, "wipe") /\ cCall'[q] = cCall[q]
        /\ OC!At(q, "rearm")' => OC!At(q, "rearm") /\ cCall'[q] = cCall[q]
  BY <1>0 DEF CodesMove, CodeTaker, OC!At
<1>5. CodeHeld'
  <2>1. \A q \in Requests : CodeTaker(q)' /\ ~OC!Checks =>
          /\ \A x \in cRows' : x.code # cCall'[q].val.code
          /\ \A p \in Requests :
               CodeTaker(p)' /\ p # q => cCall'[p].val.code # cCall'[q].val.code
    <3> SUFFICES ASSUME NEW q \in Requests, CodeTaker(q)', ~OC!Checks PROVE
          /\ \A x \in cRows' : x.code # cCall'[q].val.code
          /\ \A p \in Requests :
               CodeTaker(p)' /\ p # q => cCall'[p].val.code # cCall'[q].val.code
      OBVIOUS
    <3>1. CodeTaker(q) /\ q # r /\ cCall'[q] = cCall[q]
      BY <1>4
    <3>2. /\ \A x \in cRows : x.code # cCall[q].val.code
          /\ \A p \in Requests : CodeTaker(p) /\ p # q => cCall[p].val.code # cCall[q].val.code
      BY <3>1, CodesKnown DEF CodeHeld
    <3> QED BY <1>0, <1>1, <1>4, <3>1, <3>2
  <2>2. \A q \in Requests : CodeTaker(q)' => CodeOpen(cCall[q].val)'
    BY <1>0, <1>4, CodesKnown DEF CodeHeld, CodeOpen
  <2>3. \A q \in Requests :
          /\ OC!At(q, "wipe")' => (missed[cCall[q].val.code] <= cCall[q].val.n)'
          /\ OC!At(q, "rearm")' => (missed[cCall[q].val.code] <= cCall[q].val.n + 1)'
          /\ OC!At(q, "bump")' =>
               (/\ cCall[q].val.code \in 1..cMade /\ accepted[cCall[q].val.code] = {}
                /\ missed[cCall[q].val.code] <= cCall[q].val.n + 1)'
    BY <1>0, <1>4, CodesKnown DEF CodeHeld
  <2> QED BY <1>0, <2>1, <2>2, <2>3 DEF CodeHeld
<1> QED BY <1>2, <1>3, <1>5

\* Requests that begin or fail, and the clock, leave everything as it is.
LEMMA CodesStill ==
  ASSUME CodesInv, CodesWatched, UNCHANGED <<cDeploy, cRows, cMade, lastSend, missed, accepted>>,
         \A q \in Requests :
           \/ cCall'[q] = cCall[q]
           \/ ~OC!At(q, "bump") /\ ~OC!At(q, "bump")' /\ ~CodeTaker(q)'
  PROVE  CodeCounts' /\ CodeStored' /\ CodeHeld'
<1>0. OC!Checks' = OC!Checks
  BY DEF OC!Checks
<1>1. \A q \in Requests :
        /\ OC!At(q, "bump")' <=> OC!At(q, "bump")
        /\ OC!At(q, "bump")' \/ CodeTaker(q)' => cCall'[q] = cCall[q]
        /\ CodeTaker(q)' => CodeTaker(q)
        /\ OC!At(q, "wipe")' => OC!At(q, "wipe")
        /\ OC!At(q, "rearm")' => OC!At(q, "rearm")
  BY DEF OC!At, CodeTaker
<1>2. CodeCounts' /\ CodeStored'
  BY <1>0, <1>1, CodesKnown DEF CodeCounts, CodeStored, CodeOpen
<1>3. CodeHeld'
  BY <1>0, <1>1, CodesKnown DEF CodeHeld, CodeOpen, CodeTaker
<1> QED BY <1>2, <1>3

LEMMA CodesInvInit == OC!Init => CodesInv
<1> SUFFICES ASSUME OC!Init PROVE CodesInv
  OBVIOUS
<1>1. OC!TypeOK /\ \A r \in Requests : cCall[r].at = "idle"
  BY CodesInitTyped DEF OC!Init, OC!NoCall
<1>2. CodePaths /\ CodeRequests /\ lastSend <= cNow
  BY <1>1 DEF OC!Init, CodePaths, CodeRequests, OC!At, OC!InFlight, OC!Steps
<1>3. CodeCounts /\ CodeStored /\ CodeHeld
  BY <1>1, CodesTyped DEF OC!Init, CodeCounts, CodeStored, CodeHeld, CodeTaker, OC!At
<1> QED BY <1>1, <1>2, <1>3 DEF CodesInv

LEMMA CodesInvStep == CodesInv /\ [OC!Next]_OC!vars => CodesInv'
<1> SUFFICES ASSUME CodesInv, [OC!Next]_OC!vars PROVE CodesInv'
  OBVIOUS
<1>0. OC!TypeOK
  BY DEF CodesInv
<1>1. /\ OC!TypeOK' /\ CodePaths' /\ CodeRequests' /\ (lastSend <= cNow)'
      /\ cDeploy' = cDeploy
  BY <1>0, CodesStepTyped, CodesPathsStep
<1>2. ASSUME CodesWatched
      PROVE  CodeCounts' /\ CodeStored' /\ CodeHeld'
  <2>1. ASSUME NEW r \in Requests, NEW op \in cDeploy.ops[r], OC!Start(r, op)
        PROVE  CodeCounts' /\ CodeStored' /\ CodeHeld'
    <3>1. CodesBegun(r)
      BY <1>0, <2>1, CodesStarted
    <3>2. \A q \in Requests :
            \/ cCall'[q] = cCall[q]
            \/ ~OC!At(q, "bump") /\ ~OC!At(q, "bump")' /\ ~CodeTaker(q)'
      BY <3>1 DEF CodesBegun, OC!At, CodeTaker
    <3> QED BY <1>1, <1>2, <3>1, <3>2, CodesStill DEF CodesBegun
  <2>2. ASSUME NEW r \in Requests, OC!Step(r)
        PROVE  CodeCounts' /\ CodeStored' /\ CodeHeld'
    <3>1. OC!InFlight(r) /\ UNCHANGED <<cDeploy, cNow>> /\ CodesKind(r)
      BY <1>0, <2>2, CodesStep
    <3> QED BY <1>2, <3>1, CodesQuietKeeps, CodesSentKeeps, CodesSeenKeeps, CodesCountedKeeps,
               CodesClaimedKeeps, CodesTakenKeeps, CodesRearmedKeeps DEF CodesKind
  <2>3. ASSUME NEW r \in Requests, OC!Fail(r)
        PROVE  CodeCounts' /\ CodeStored' /\ CodeHeld'
    <3>1. /\ OC!InFlight(r) /\ CodesMove(r, "failed", cCall[r].val)
          /\ UNCHANGED <<cDeploy, cRows, cMade, lastSend, missed, accepted>>
      BY <1>0, <2>3, CodesFailed
    <3>2. ~OC!At(r, "bump")
      <4>1. SUFFICES ASSUME OC!At(r, "bump") PROVE FALSE
        OBVIOUS
      <4>2. cDeploy.maxFailures = 0
        BY <1>2, <4>1, CodesAlone, CodesBumping
      <4> QED BY <1>1, <3>1, <4>2 DEF CodeRequests, CodesMove, OC!At
    <3>3. \A q \in Requests :
            \/ cCall'[q] = cCall[q]
            \/ ~OC!At(q, "bump") /\ ~OC!At(q, "bump")' /\ ~CodeTaker(q)'
      BY <3>1, <3>2 DEF CodesMove, OC!At, CodeTaker
    <3> QED BY <1>2, <3>1, <3>3, CodesStill
  <2>4. CASE OC!Tick
    BY <1>2, <2>4, CodesStill DEF OC!Tick
  <2>5. CASE UNCHANGED OC!vars
    BY <1>2, <2>5, CodesStill DEF OC!vars
  <2> QED BY <2>1, <2>2, <2>3, <2>4, <2>5 DEF OC!Next, OC!Idle
<1>3. CodesWatched' <=> CodesWatched
  BY <1>1 DEF CodesWatched, OC!Checks
<1> QED BY <1>1, <1>2, <1>3 DEF CodesInv

LEMMA CodesInvHolds == OC!Spec => []CodesInv
<1> QED BY CodesInvInit, CodesInvStep, PTL DEF OC!Spec

LEMMA CodesInvKept == CodesInv => CodeTermsKept
<1> SUFFICES ASSUME CodesInv PROVE OC!CodeTermsKept
  BY DEF CodeTermsKept
<1>1. OC!CodeGuessesBounded
  BY DEF CodesInv, CodesWatched, CodeCounts, OC!CodeGuessesBounded, OC!Bounded
<1>2. OC!AcceptedOnceInTime
  <2> SUFFICES ASSUME ~OC!Checks, NEW c \in OC!Codes
               PROVE  /\ OC!Cardinality(accepted[c]) <= 1
                      /\ \A a \in accepted[c] : a[2] <= lastSend + Life
    BY DEF OC!AcceptedOnceInTime
  <2>1. \A a \in accepted[c] : accepted[c] = {a} /\ a[2] <= lastSend + Life
    BY DEF CodesInv, CodesWatched, CodeCounts
  <2>2. OC!Cardinality(accepted[c]) = Cardinality(accepted[c])
    BY DEF OC!Cardinality, Cardinality
  <2>3. Cardinality(accepted[c]) \in {0, 1}
    <3>1. CASE accepted[c] = {}
      BY <3>1, FS_EmptySet
    <3>2. CASE accepted[c] # {}
      <4>1. PICK a : accepted[c] = {a}
        BY <2>1, <3>2
      <4> QED BY <4>1, FS_Singleton
    <3> QED BY <3>1, <3>2
  <2> QED BY <2>1, <2>2, <2>3
<1> QED BY <1>1, <1>2 DEF OC!CodeTermsKept

\* A one-time code keeps the terms it was sent with, for any requests, plugins and
\* failures: it is compared with no more wrong guesses than are allowed, accepted once,
\* and not after its end, though wrong guesses make it again.
THEOREM CodeTermsKeptAlways == AllSpec => []CodeTermsKept
<1>1. AllSpec => OC!Spec
  BY Parts
<1> QED BY <1>1, CodesInvHolds, CodesInvKept, PTL
=============================================================================
