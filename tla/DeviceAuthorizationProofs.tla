----------------------- MODULE DeviceAuthorizationProofs -----------------------
(***************************************************************************)
(* Theorems about DeviceAuthorization, for any requests, users, times and  *)
(* configurations: the state has its type, decisions stand, sessions go to *)
(* the user who approved, approvals count and polls are spaced, and a code *)
(* is a single-use value.                                                  *)
(***************************************************************************)
EXTENDS DeviceAuthorization, FiniteSetTheorems, TLAPS

-----------------------------------------------------------------------------
(* The type *)

LEMMA DeployTyped ==
  ASSUME deploy \in Deployments
  PROVE  /\ deploy.ops \in [Requests -> SUBSET AllOps]
         /\ deploy.user \in [Requests -> UserOrNobody]
         /\ deploy.bound \in UserOrNobody
  BY ConstantsAssumption DEF Deployment

LEMMA InitTypeOK == Init => TypeOK
<1> SUFFICES ASSUME Init PROVE TypeOK OBVIOUS
<1>1. Issued \in Row
  BY DeployTyped DEF Init, Issued, Row
<1>2. [op |-> "none", at |-> "idle", rec |-> Issued, clock |-> Never,
       winner |-> Nobody, before |-> {}] \in Call
  BY <1>1 DEF Call, UserOrNobody
<1> QED BY <1>1, <1>2 DEF Init, TypeOK

\* What a step may make of a call is a call.
LEMMA CallTyped ==
  ASSUME TypeOK, NEW r \in Requests, NEW pc \in Steps \cup Ended
  PROVE  /\ Goto(r, pc) => call' \in [Requests -> Call]
         /\ Keep(r, pc) => call' \in [Requests -> Call]
         /\ Become(r, [call[r] EXCEPT !.at = pc, !.clock = now]) => call' \in [Requests -> Call]
         /\ Become(r, [call[r] EXCEPT !.at = pc, !.winner = row.user]) =>
              call' \in [Requests -> Call]
         /\ \A op \in AllOps, B \in SUBSET Requests :
              Become(r, [call[r] EXCEPT !.op = op, !.at = pc, !.before = B]) =>
                call' \in [Requests -> Call]
<1>0. call \in [Requests -> Call] /\ call[r] \in Call /\ row \in Row /\ now \in Nat
  BY DEF TypeOK
<1>1. row.user \in UserOrNobody
  BY <1>0 DEF Row
<1>2. \A c \in Call : Become(r, c) => call' \in [Requests -> Call]
  BY <1>0 DEF Become
<1>3. [call[r] EXCEPT !.at = pc] \in Call
  BY <1>0 DEF Call
<1>4. [call[r] EXCEPT !.at = pc, !.rec = row] \in Call
  BY <1>0 DEF Call
<1>5. [call[r] EXCEPT !.at = pc, !.clock = now] \in Call
  BY <1>0 DEF Call
<1>6. [call[r] EXCEPT !.at = pc, !.winner = row.user] \in Call
  BY <1>0, <1>1 DEF Call
<1>7. \A op \in AllOps, B \in SUBSET Requests :
        [call[r] EXCEPT !.op = op, !.at = pc, !.before = B] \in Call
  BY <1>0 DEF Call
<1> QED BY <1>2, <1>3, <1>4, <1>5, <1>6, <1>7 DEF Goto, Keep

LEMMA StepTypeOK == TypeOK /\ [Next]_vars => TypeOK'
<1> SUFFICES ASSUME TypeOK, [Next]_vars PROVE TypeOK' OBVIOUS
<1>0. /\ row \in Row /\ now \in Nat /\ deploy \in Deployments
      /\ call \in [Requests -> Call]
      /\ \A r \in Requests : Me(r) \in UserOrNobody /\ call[r].clock \in Nat \cup {Never}
  BY DeployTyped DEF TypeOK, Me, Call
<1>1. ASSUME NEW r \in Requests, NEW op \in deploy.ops[r], Start(r, op) PROVE TypeOK'
  <2>1. op \in AllOps
    BY <1>0, DeployTyped
  <2>2. FirstStep(op) \in Steps \cup Ended
    BY DEF FirstStep, Steps
  <2>3. {q \in Requests : Over(q)} \in SUBSET Requests
    OBVIOUS
  <2>4. call' \in [Requests -> Call]
    BY <1>1, <2>1, <2>2, <2>3, CallTyped DEF Start
  <2> QED BY <1>1, <1>0, <2>4 DEF Start, TypeOK
<1>2. ASSUME NEW r \in Requests, Step(r) PROVE TypeOK'
  <2>1. CASE Find(r)
    <3>1. \E pc \in Steps \cup Ended : Keep(r, pc)
      BY <2>1 DEF Find, Steps, Ended
    <3> QED BY <2>1, <3>1, <1>0, CallTyped DEF Find, TypeOK
  <2>2. CASE Check(r)
    <3>1. call' \in [Requests -> Call]
      BY <2>2, CallTyped DEF Check, Steps, Ended
    <3> QED BY <2>2, <3>1, <1>0 DEF Check, TypeOK
  <2>3. CASE Touch(r)
    <3>1. row' \in Row
      BY <2>3, <1>0 DEF Touch, Row
    <3>2. call' \in [Requests -> Call]
      BY <2>3, CallTyped DEF Touch, Steps
    <3> QED BY <2>3, <3>1, <3>2, <1>0 DEF Touch, TypeOK
  <2>4. CASE Judge(r)
    <3>1. \E pc \in Steps \cup Ended : Goto(r, pc)
      BY <2>4 DEF Judge, Steps, Ended
    <3> QED BY <2>4, <3>1, <1>0, CallTyped DEF Judge, TypeOK
  <2>5. CASE Drop(r)
    <3>1. row' \in Row
      BY <2>5, <1>0 DEF Drop, Row
    <3>2. \E pc \in Steps \cup Ended : Goto(r, pc)
      BY <2>5 DEF Drop, Ended
    <3> QED BY <2>5, <3>1, <3>2, <1>0, CallTyped DEF Drop, TypeOK
  <2>6. CASE Claim(r)
    <3>1. row' \in Row
      BY <2>6, <1>0 DEF Claim, Row
    <3>2. call' \in [Requests -> Call]
      BY <2>6, CallTyped DEF Claim, Steps, Ended
    <3> QED BY <2>6, <3>1, <3>2, <1>0 DEF Claim, TypeOK
  <2>7. CASE Issue(r)
    <3>1. call' \in [Requests -> Call]
      BY <2>7, CallTyped DEF Issue, Ended
    <3> QED BY <2>7, <3>1, <1>0 DEF Issue, TypeOK
  <2>8. CASE Look(r)
    <3>1. \E pc \in Steps \cup Ended : Keep(r, pc)
      BY <2>8 DEF Look, Steps, Ended
    <3> QED BY <2>8, <3>1, <1>0, CallTyped DEF Look, TypeOK
  <2>9. CASE Bind(r)
    <3>1. row' \in Row
      BY <2>9, <1>0 DEF Bind, Row
    <3>2. call' \in [Requests -> Call]
      BY <2>9, CallTyped DEF Bind, Ended
    <3> QED BY <2>9, <3>1, <3>2, <1>0 DEF Bind, TypeOK
  <2>10. CASE Review(r)
    <3>1. \E pc \in Steps \cup Ended : Keep(r, pc)
      BY <2>10 DEF Review, Steps, Ended
    <3> QED BY <2>10, <3>1, <1>0, CallTyped DEF Review, TypeOK
  <2>11. CASE Settle(r)
    <3>1. row' \in Row
      BY <2>11, <1>0 DEF Settle, Row
    <3>2. call' \in [Requests -> Call]
      BY <2>11, CallTyped DEF Settle, Ended
    <3> QED BY <2>11, <3>1, <3>2, <1>0 DEF Settle, TypeOK
  <2> QED
    BY <1>2, <2>1, <2>2, <2>3, <2>4, <2>5, <2>6, <2>7, <2>8, <2>9, <2>10, <2>11 DEF Step, Poll
<1>3. ASSUME NEW r \in Requests, Fail(r) PROVE TypeOK'
  <2>1. call' \in [Requests -> Call]
    BY <1>3, CallTyped DEF Fail, Ended
  <2> QED BY <1>3, <2>1, <1>0 DEF Fail, TypeOK
<1>4. CASE Tick
  BY <1>4, <1>0 DEF Tick, TypeOK
<1>5. CASE UNCHANGED vars
  BY <1>5 DEF vars, TypeOK
<1> QED BY <1>1, <1>2, <1>3, <1>4, <1>5 DEF Next, Idle

\* Every reachable state has its type.
THEOREM TypeCorrect == Spec => []TypeOK
  BY InitTypeOK, StepTypeOK, PTL DEF Spec

-----------------------------------------------------------------------------
(* What the steps do *)

\* A step of r changes its own call, but not what r is; ended calls stay.
Moves(r) ==
  /\ InFlight(r) /\ deploy' = deploy
  /\ \A q \in Requests : q # r => call'[q] = call[q]
  /\ Op(r)' = Op(r) /\ call'[r].before = call[r].before

SameRow == row'.status = row.status /\ row'.user = row.user
SameWinner(r) == call'[r].winner = call[r].winner

\* Steps that decide, claim and grant nothing.
Quiet(r) ==
  /\ Moves(r) /\ SameRow /\ SameWinner(r)
  /\ call'[r].at \notin {"idle", "look", "review", "settle", "settled", "issue", "granted"}
  /\ call'[r].at \in {"bind", "shown"} => call[r].at \in {"look", "bind"}
  /\ At(r, "bind")' => Me(r) # Nobody

Drops(r) ==
  /\ Moves(r) /\ SameWinner(r) /\ call[r].at \in {"lapse", "drop"}
  /\ row'.status = "gone" /\ row'.user = row.user
  /\ call'[r].at \in {"denied", "expired"}

Claims(r) ==
  /\ Moves(r) /\ At(r, "claim") /\ At(r, "issue")'
  /\ row.status = "approved" /\ row'.status = "gone" /\ row'.user = row.user
  /\ call'[r].winner = row.user

Grants(r) == Moves(r) /\ SameRow /\ SameWinner(r) /\ At(r, "issue") /\ At(r, "granted")'

Binds(r) ==
  /\ Moves(r) /\ SameWinner(r) /\ At(r, "bind") /\ At(r, "shown")'
  /\ row.status = "pending" /\ row'.status = "pending"
  /\ row.user = Nobody /\ row'.user = Me(r)

Reviews(r) ==
  /\ Moves(r) /\ SameRow /\ SameWinner(r) /\ At(r, "review") /\ At(r, "settle")'
  /\ row.status = "pending" /\ row.user = Me(r) /\ Me(r) # Nobody

Settles(r) ==
  /\ Moves(r) /\ SameWinner(r) /\ At(r, "settle") /\ At(r, "settled")'
  /\ \/ row.status = "gone" /\ SameRow
     \/ /\ row.status # "gone" /\ row'.user = Me(r)
        /\ row'.status = IF Op(r) = "approve" THEN "approved" ELSE "denied"

Kind(r) ==
  Quiet(r) \/ Drops(r) \/ Claims(r) \/ Grants(r) \/ Binds(r) \/ Reviews(r) \/ Settles(r)

LEMMA GotoMoves ==
  ASSUME TypeOK, NEW r \in Requests, NEW pc, Goto(r, pc) \/ Keep(r, pc), InFlight(r),
         deploy' = deploy
  PROVE  Moves(r) /\ SameWinner(r) /\ At(r, pc)'
<1>1. call \in [Requests -> Call] /\ call[r] \in Call
  BY DEF TypeOK
<1> QED BY <1>1 DEF Goto, Keep, Become, Moves, SameWinner, At, Op, Call

LEMMA StepKind ==
  ASSUME TypeOK, NEW r \in Requests, Step(r) \/ Fail(r)
  PROVE  Kind(r)
<1>0. /\ call \in [Requests -> Call] /\ call[r] \in Call /\ row \in Row
  BY DEF TypeOK
<1>1. CASE Find(r)
  <2>1. PICK pc \in {"refused", "check"} : Keep(r, pc)
    BY <1>1 DEF Find
  <2>2. Moves(r) /\ SameWinner(r) /\ At(r, pc)'
    BY <1>1, <2>1, GotoMoves DEF Find, InFlight, At, Steps
  <2> QED BY <1>1, <2>2 DEF Find, Kind, Quiet, SameRow, At
<1>2. CASE Check(r)
  <2>1. CASE Goto(r, "slow")
    <3>1. Moves(r) /\ SameWinner(r) /\ At(r, "slow")'
      BY <1>2, <2>1, GotoMoves DEF Check, InFlight, At, Steps
    <3> QED BY <1>2, <3>1 DEF Check, Kind, Quiet, SameRow, At
  <2>2. CASE Become(r, [call[r] EXCEPT !.at = "touch", !.clock = now])
    <3>1. Moves(r) /\ SameWinner(r) /\ At(r, "touch")'
      BY <1>2, <2>2, <1>0 DEF Check, InFlight, At, Steps, Become, Moves, SameWinner, Op, Call
    <3> QED BY <1>2, <3>1 DEF Check, Kind, Quiet, SameRow, At
  <2> QED BY <1>2, <2>1, <2>2 DEF Check
<1>3. CASE Touch(r)
  <2>1. Moves(r) /\ SameWinner(r) /\ At(r, "judge")'
    BY <1>3, GotoMoves DEF Touch, InFlight, At, Steps
  <2>2. SameRow
    BY <1>3, <1>0 DEF Touch, SameRow, Row
  <2> QED BY <2>1, <2>2 DEF Kind, Quiet, At
<1>4. CASE Judge(r)
  <2>1. PICK pc \in {"lapse", "drop", "pending", "claim"} : Goto(r, pc)
    BY <1>4 DEF Judge
  <2>2. Moves(r) /\ SameWinner(r) /\ At(r, pc)'
    BY <1>4, <2>1, GotoMoves DEF Judge, InFlight, At, Steps
  <2> QED BY <1>4, <2>2 DEF Judge, Kind, Quiet, SameRow, At
<1>5. CASE Drop(r)
  <2>1. PICK pc \in {"denied", "expired"} : Goto(r, pc)
    BY <1>5 DEF Drop
  <2>2. Moves(r) /\ SameWinner(r) /\ At(r, pc)'
    BY <1>5, <2>1, GotoMoves DEF Drop, InFlight, At, Steps
  <2>3. row'.status = "gone" /\ row'.user = row.user
    BY <1>5, <1>0 DEF Drop, Row
  <2> QED BY <1>5, <2>2, <2>3 DEF Drop, Kind, Drops, At
<1>6. CASE Claim(r)
  <2>1. CASE row.status = "approved"
    <3>1. row'.status = "gone" /\ row'.user = row.user
      BY <1>6, <2>1, <1>0 DEF Claim, Row
    <3>2. Moves(r) /\ At(r, "issue")' /\ call'[r].winner = row.user
      BY <1>6, <2>1, <1>0, ZenonT(40) DEF Claim, InFlight, At, Steps, Become, Moves, Op, Call
    <3> QED BY <1>6, <2>1, <3>1, <3>2 DEF Claim, Kind, Claims
  <2>2. CASE row.status # "approved"
    <3>1. Moves(r) /\ SameWinner(r) /\ At(r, "refused")'
      BY <1>6, <2>2, GotoMoves DEF Claim, InFlight, At, Steps
    <3> QED BY <1>6, <2>2, <3>1 DEF Claim, Kind, Quiet, SameRow, At
  <2> QED BY <2>1, <2>2
<1>7. CASE Issue(r)
  <2>1. Moves(r) /\ SameWinner(r) /\ At(r, "granted")'
    BY <1>7, GotoMoves DEF Issue, InFlight, At, Steps
  <2> QED BY <1>7, <2>1 DEF Issue, Kind, Grants, SameRow
<1>8. CASE Look(r)
  <2>1. PICK pc \in {"refused", "bind", "shown"} :
          Keep(r, pc) /\ (pc = "bind" => Me(r) # Nobody)
    BY <1>8 DEF Look
  <2>2. Moves(r) /\ SameWinner(r) /\ At(r, pc)'
    BY <1>8, <2>1, GotoMoves DEF Look, InFlight, At, Steps
  <2> QED BY <1>8, <2>1, <2>2 DEF Look, Kind, Quiet, SameRow, At
<1>9. CASE Bind(r)
  <2>1. Moves(r) /\ SameWinner(r) /\ At(r, "shown")'
    BY <1>9, GotoMoves DEF Bind, InFlight, At, Steps
  <2>2. CASE row.status = "pending" /\ row.user = Nobody
    <3>1. row'.status = "pending" /\ row'.user = Me(r)
      BY <1>9, <2>2, <1>0 DEF Bind, Row
    <3> QED BY <1>9, <2>1, <2>2, <3>1 DEF Bind, Kind, Binds
  <2>3. CASE ~(row.status = "pending" /\ row.user = Nobody)
    BY <1>9, <2>1, <2>3 DEF Bind, Kind, Quiet, SameRow, At
  <2> QED BY <2>2, <2>3
<1>10. CASE Review(r)
  <2>1. PICK pc \in {"settle", "refused"} :
          /\ Keep(r, pc)
          /\ pc = "settle" => row.status = "pending" /\ row.user = Me(r) /\ Me(r) # Nobody
    BY <1>10 DEF Review
  <2>2. Moves(r) /\ SameWinner(r) /\ At(r, pc)'
    BY <1>10, <2>1, GotoMoves DEF Review, InFlight, At, Steps
  <2>3. SameRow /\ At(r, "review")
    BY <1>10 DEF Review, SameRow
  <2>4. CASE pc = "settle"
    BY <2>1, <2>2, <2>3, <2>4 DEF Kind, Reviews
  <2>5. CASE pc = "refused"
    BY <2>2, <2>3, <2>5 DEF Kind, Quiet, At
  <2> QED BY <2>4, <2>5
<1>11. CASE Settle(r)
  <2>1. Moves(r) /\ SameWinner(r) /\ At(r, "settled")'
    BY <1>11, GotoMoves DEF Settle, InFlight, At, Steps
  <2>2. CASE row.status = "gone"
    BY <1>11, <2>1, <2>2 DEF Settle, Kind, Settles, SameRow
  <2>3. CASE row.status # "gone"
    <3>1. /\ row'.user = Me(r)
          /\ row'.status = IF Op(r) = "approve" THEN "approved" ELSE "denied"
      BY <1>11, <2>3, <1>0 DEF Settle, Row
    <3> QED BY <1>11, <2>1, <2>3, <3>1 DEF Settle, Kind, Settles
  <2> QED BY <2>2, <2>3
<1>12. CASE Fail(r)
  <2>1. Moves(r) /\ SameWinner(r) /\ At(r, "failed")'
    BY <1>12, GotoMoves DEF Fail
  <2> QED BY <1>12, <2>1 DEF Fail, Kind, Quiet, SameRow, At
<1> QED
  BY <1>1, <1>2, <1>3, <1>4, <1>5, <1>6, <1>7, <1>8, <1>9, <1>10, <1>11, <1>12 DEF Step, Poll

-----------------------------------------------------------------------------
(* The invariant *)

\* How a request comes to be where it is.
Path(r) ==
  /\ call[r].at \in {"look", "bind", "shown"} => Op(r) = "verify"
  /\ call[r].at \in {"review", "settle", "settled"} => Op(r) \in {"approve", "deny"}
  /\ At(r, "bind") => Me(r) # Nobody
  /\ call[r].at \in {"issue", "granted"} => call[r].winner # Nobody
OnPath == \A r \in Requests : Path(r)

BeforeOver == \A r \in Requests : \A q \in call[r].before : q \in Requests /\ Over(q)

\* A decision leaves the code decided on, and a request that is about to decide
\* did not begin after one.
DecidedRow == \A q \in Requests : Decided(q) => row.status # "pending"
SettleFresh ==
  \A r \in Requests : At(r, "settle") => \A q \in call[r].before : ~Decided(q)

\* The code has one user, who claimed it, and nobody else decides.
Owned == row.user # Nobody => row.user \in Users /\ Claimant(row.user)
BoundRow == deploy.bound # Nobody => row.user = deploy.bound
OwnerDecides ==
  \A r \in Requests : At(r, "settle") \/ Decided(r) => Me(r) = row.user /\ row.user # Nobody

\* What is approved, or was claimed, somebody approved.
SomeApproval == \E p \in Requests : Approved(p)
ApprovedRow == row.status = "approved" => SomeApproval
Winner ==
  \A r \in Requests : call[r].winner # Nobody =>
    call[r].winner = row.user /\ row.status = "gone" /\ SomeApproval

IInv == /\ TypeOK /\ OnPath /\ BeforeOver /\ DecidedRow /\ SettleFresh /\ DecisionStands
        /\ Owned /\ BoundRow /\ OwnerDecides /\ ApprovedRow /\ Winner

LEMMA InitIInv == Init => IInv
<1> SUFFICES ASSUME Init PROVE IInv OBVIOUS
<1>1. TypeOK
  BY InitTypeOK
<1>2. \A r \in Requests : /\ call[r].op = "none" /\ call[r].at = "idle"
                          /\ call[r].winner = Nobody /\ call[r].before = {}
  BY DEF Init
<1>3. row.status = "pending" /\ row.user = deploy.bound /\ deploy.bound \in UserOrNobody
  BY DeployTyped DEF Init, Issued
<1>4. OnPath /\ BeforeOver /\ DecidedRow /\ SettleFresh /\ DecisionStands /\ OwnerDecides
  BY <1>2 DEF OnPath, Path, At, BeforeOver, DecidedRow, SettleFresh, DecisionStands,
              OwnerDecides, Decided
<1>5. Owned /\ BoundRow
  BY <1>3 DEF Owned, BoundRow, Claimant, UserOrNobody
<1>6. ApprovedRow /\ Winner
  BY <1>2, <1>3 DEF ApprovedRow, Winner
<1> QED BY <1>1, <1>4, <1>5, <1>6 DEF IInv

\* What ended stays as it is: decisions, approvals and claims to the code.
LEMMA EndedStays ==
  ASSUME TypeOK, NEW r \in Requests, Moves(r)
  PROVE  /\ \A q \in Requests : Over(q) => q # r /\ call'[q] = call[q]
         /\ \A q \in Requests : /\ Op(q)' = Op(q) /\ call'[q].before = call[q].before
                                /\ Me(q)' = Me(q)
         /\ \A q \in Requests : /\ Over(q) => Over(q)'
                                /\ Decided(q) => Decided(q)'
                                /\ Approved(q) => Approved(q)'
         /\ \A q \in Requests : q # r => (At(q, "settle")' <=> At(q, "settle"))
         /\ \A q \in Requests : Decided(q)' /\ ~Decided(q) => q = r /\ At(r, "settled")'
         /\ \A u : Claimant(u) => Claimant(u)'
         /\ SomeApproval => SomeApproval'
<1>1. \A q \in Requests : Over(q) => q # r /\ call'[q] = call[q]
  BY DEF Moves, InFlight, Over, Steps, Ended
<1>2. \A q \in Requests : /\ Op(q)' = Op(q) /\ call'[q].before = call[q].before
                          /\ Me(q)' = Me(q)
  BY DEF Moves, Op, Me
<1>3. \A q \in Requests : /\ Over(q) => Over(q)'
                          /\ Decided(q) => Decided(q)'
                          /\ Approved(q) => Approved(q)'
  BY <1>1, <1>2 DEF Over, Decided, Approved, At, Ended
<1>4. \A q \in Requests : q # r => (At(q, "settle")' <=> At(q, "settle"))
  BY DEF Moves, At
<1>5. \A q \in Requests : Decided(q)' /\ ~Decided(q) => q = r /\ At(r, "settled")'
  BY <1>2 DEF Moves, Decided, At
<1>6. \A q \in Requests : Op(q) = "verify" /\ At(q, "shown") => Op(q)' = "verify" /\ At(q, "shown")'
  BY <1>1, <1>2 DEF Over, At, Ended
<1>7. \A u : Claimant(u) => Claimant(u)'
  BY <1>2, <1>6 DEF Claimant, Moves
<1>8. SomeApproval => SomeApproval'
  BY <1>3 DEF SomeApproval
<1> QED BY <1>1, <1>2, <1>3, <1>4, <1>5, <1>7, <1>8

LEMMA KindPath ==
  ASSUME IInv, NEW r \in Requests, Kind(r)
  PROVE  Path(r)'
<1>0. Path(r) /\ Moves(r) /\ TypeOK
  BY DEF IInv, OnPath, Kind, Quiet, Drops, Claims, Grants, Binds, Reviews, Settles
<1>1. Me(r)' = Me(r) /\ Op(r)' = Op(r)
  BY <1>0 DEF Moves, Me
<1>2. CASE Quiet(r)
  BY <1>0, <1>1, <1>2 DEF Quiet, Path, At
<1>3. CASE Drops(r)
  BY <1>3 DEF Drops, Path, At
<1>4. CASE Claims(r)
  <2>1. row.user # Nobody
    BY <1>4 DEF Claims, IInv, ApprovedRow, SomeApproval, Approved, OwnerDecides, Decided
  <2> QED BY <1>4, <2>1 DEF Claims, Path, At
<1>5. CASE Grants(r)
  BY <1>0, <1>5 DEF Grants, SameWinner, Path, At
<1>6. CASE Binds(r)
  BY <1>0, <1>1, <1>6 DEF Binds, Path, At
<1>7. CASE Reviews(r)
  BY <1>0, <1>1, <1>7 DEF Reviews, Path, At
<1>8. CASE Settles(r)
  BY <1>0, <1>1, <1>8 DEF Settles, Path, At
<1> QED BY <1>2, <1>3, <1>4, <1>5, <1>6, <1>7, <1>8 DEF Kind

\* The row keeps its user, once it has one; only a step that binds, decides,
\* drops or claims changes anything about it.
LEMMA RowKept ==
  ASSUME IInv, NEW r \in Requests, Kind(r)
  PROVE  /\ Moves(r) /\ TypeOK
         /\ row.user # Nobody => row'.user = row.user
         /\ row'.status = "pending" => row.status = "pending"
         /\ row.status = "gone" => row'.status = "gone"
         /\ row'.status = "approved" => row.status = "approved" \/ Settles(r)
<1>1. Moves(r) /\ TypeOK
  BY DEF IInv, Kind, Quiet, Drops, Claims, Grants, Binds, Reviews, Settles
<1>2. At(r, "settle") => Me(r) = row.user
  BY DEF IInv, OwnerDecides
<1> QED
  BY <1>1, <1>2 DEF Kind, Quiet, Drops, Claims, Grants, Binds, Reviews, Settles, SameRow

LEMMA KindIInv ==
  ASSUME IInv, NEW r \in Requests, Kind(r), TypeOK'
  PROVE  IInv'
<1>0. Moves(r) /\ TypeOK
  BY RowKept
<1>1. OnPath'
  <2>1. \A q \in Requests : q # r => Path(q)'
    BY <1>0 DEF IInv, OnPath, Path, Moves, At, Op, Me
  <2> QED BY <2>1, KindPath DEF OnPath
<1>2. BeforeOver'
  BY <1>0, EndedStays DEF IInv, BeforeOver
<1>3. \A q \in Requests : Decided(q)' /\ ~Decided(q) => q = r /\ Settles(r)
  <2>1. At(r, "settled")' => Settles(r)
    BY DEF Kind, Quiet, Drops, Claims, Grants, Binds, Reviews, At
  <2> QED BY <1>0, <2>1, EndedStays
<1>4. DecidedRow'
  <2>1. Settles(r) => row'.status # "pending"
    BY DEF Settles, SameRow
  <2> QED BY <1>3, <2>1, RowKept DEF IInv, DecidedRow
<1>5. SettleFresh'
  <2> SUFFICES ASSUME NEW q \in Requests, At(q, "settle")',
                      NEW b \in call'[q].before
               PROVE  ~Decided(b)'
    BY DEF SettleFresh
  <2>1. b \in call[q].before /\ b \in Requests /\ Over(b) /\ call'[b] = call[b]
    BY <1>0, EndedStays DEF IInv, BeforeOver
  <2>2. Decided(b)' <=> Decided(b)
    BY <2>1 DEF Decided, At, Op
  <2>3. CASE q # r
    BY <1>0, <2>1, <2>2, <2>3, EndedStays DEF IInv, SettleFresh
  <2>4. CASE q = r
    <3>1. Reviews(r)
      BY <2>4 DEF Kind, Quiet, Drops, Claims, Grants, Binds, Settles, At
    <3> QED BY <2>1, <2>2, <3>1 DEF Reviews, IInv, DecidedRow
  <2> QED BY <2>3, <2>4
<1>6. DecisionStands'
  <2> SUFFICES ASSUME NEW q \in Requests, NEW p \in Requests, Decided(q)', Decided(p)',
                      q \in call'[p].before
               PROVE  FALSE
    BY DEF DecisionStands
  <2>1. q \in call[p].before /\ Over(q) /\ call'[q] = call[q] /\ q # r
    BY <1>0, EndedStays DEF IInv, BeforeOver
  <2>2. Decided(q)
    BY <2>1, <1>3
  <2>3. CASE Decided(p)
    BY <2>1, <2>2, <2>3 DEF IInv, DecisionStands
  <2>4. CASE ~Decided(p)
    <3>1. p = r /\ At(r, "settle")
      BY <2>4, <1>3 DEF Settles
    <3> QED BY <2>1, <2>2, <3>1 DEF IInv, SettleFresh
  <2> QED BY <2>3, <2>4
<1>7. Owned'
  <2>1. CASE row.user # Nobody
    BY <1>0, <2>1, RowKept, EndedStays DEF IInv, Owned
  <2>2. CASE row.user = Nobody /\ row'.user # Nobody
    <3>1. Binds(r)
      <4>1. At(r, "settle") => row.user # Nobody
        BY DEF IInv, OwnerDecides
      <4> QED BY <2>2, <4>1 DEF Kind, Quiet, Drops, Claims, Grants, Reviews, Settles, SameRow
    <3>2. row'.user = Me(r) /\ Me(r) \in UserOrNobody
      BY <3>1, <1>0, DeployTyped DEF Binds, Me, TypeOK
    <3>3. row'.user \in Users
      BY <2>2, <3>2 DEF UserOrNobody
    <3>4. Op(r) = "verify" /\ Op(r)' = "verify" /\ At(r, "shown")' /\ Me(r)' = Me(r)
      BY <3>1, <1>0 DEF Binds, Moves, IInv, OnPath, Path, At, Me
    <3>5. deploy.bound # Nobody => deploy.bound = row.user
      BY DEF IInv, BoundRow
    <3>6. Claimant(Me(r))'
      BY <3>4, <3>5, <2>2, <1>0 DEF Claimant, Moves
    <3> QED BY <3>2, <3>3, <3>4, <3>6 DEF Owned, Claimant
  <2> QED BY <2>1, <2>2 DEF Owned
<1>8. OwnerDecides'
  <2> SUFFICES ASSUME NEW q \in Requests, At(q, "settle")' \/ Decided(q)'
               PROVE  Me(q)' = row'.user /\ row'.user # Nobody
    BY DEF OwnerDecides
  <2>1. Me(q)' = Me(q)
    BY <1>0, EndedStays
  <2>2. CASE At(q, "settle") \/ Decided(q)
    BY <2>1, <2>2, RowKept DEF IInv, OwnerDecides
  <2>3. CASE ~At(q, "settle") /\ ~Decided(q)
    <3>1. q = r /\ (At(r, "settle")' \/ Settles(r))
      BY <1>0, <1>3, <2>3, EndedStays
    <3>2. ~Settles(r)
      BY <3>1, <2>3 DEF Settles
    <3>3. Reviews(r)
      BY <3>1, <3>2 DEF Kind, Quiet, Drops, Claims, Grants, Binds, At
    <3> QED BY <2>1, <3>1, <3>3 DEF Reviews, SameRow
  <2> QED BY <2>2, <2>3
<1>9. ApprovedRow'
  <2> SUFFICES ASSUME row'.status = "approved" PROVE SomeApproval'
    BY DEF ApprovedRow
  <2>1. CASE row.status = "approved"
    BY <1>0, <2>1, EndedStays DEF IInv, ApprovedRow
  <2>2. CASE row.status # "approved"
    <3>1. Settles(r) /\ Op(r) = "approve"
      BY <2>2, RowKept DEF Settles, SameRow
    <3>2. Approved(r)'
      BY <3>1, <1>0 DEF Settles, Approved, Moves
    <3> QED BY <3>2 DEF SomeApproval
  <2> QED BY <2>1, <2>2
<1>10. Winner'
  <2> SUFFICES ASSUME NEW q \in Requests, call'[q].winner # Nobody
               PROVE  call'[q].winner = row'.user /\ row'.status = "gone" /\ SomeApproval'
    BY DEF Winner
  <2>1. CASE call'[q].winner = call[q].winner
    <3>1. call[q].winner = row.user /\ row.status = "gone" /\ SomeApproval
      BY <2>1 DEF IInv, Winner
    <3> QED BY <2>1, <3>1, <1>0, RowKept, EndedStays
  <2>2. CASE call'[q].winner # call[q].winner
    <3>1. q = r /\ Claims(r)
      BY <2>2, <1>0 DEF Moves, Kind, Quiet, Drops, Grants, Binds, Reviews, Settles, SameWinner
    <3>2. SomeApproval'
      BY <3>1, <1>0, EndedStays DEF Claims, IInv, ApprovedRow
    <3> QED BY <3>1, <3>2 DEF Claims
  <2> QED BY <2>1, <2>2
<1>11. BoundRow'
  BY <1>0, RowKept DEF IInv, BoundRow, Moves
<1> QED BY <1>1, <1>2, <1>4, <1>5, <1>6, <1>7, <1>8, <1>9, <1>10, <1>11 DEF IInv

LEMMA StartIInv ==
  ASSUME IInv, NEW r \in Requests, NEW op \in deploy.ops[r], Start(r, op), TypeOK'
  PROVE  IInv'
<1>1. /\ call \in [Requests -> Call] /\ UNCHANGED <<deploy, row>> /\ At(r, "idle")
  BY DEF IInv, TypeOK, Start
<1>2. /\ \A q \in Requests : q # r => call'[q] = call[q]
      /\ Op(r)' = op /\ At(r, FirstStep(op))' /\ call'[r].winner = call[r].winner
      /\ call'[r].before = {q \in Requests : Over(q)}
  BY <1>1 DEF Start, Become, Op, At, Call
<1>3. op \in AllOps
  BY DeployTyped DEF IInv, TypeOK
<1>4. FirstStep(op) \in {"find", "look", "review"}
  BY DEF FirstStep
<1>5. /\ \A q \in Requests : Over(q) => q # r
      /\ \A q \in Requests : /\ Decided(q)' <=> Decided(q)
                             /\ Approved(q)' <=> Approved(q)
                             /\ At(q, "settle")' <=> At(q, "settle")
                             /\ Over(q) => Over(q)'
                             /\ Me(q)' = Me(q)
                             /\ call'[q].winner = call[q].winner
  BY <1>1, <1>2, <1>4 DEF Over, Decided, Approved, At, Op, Ended, Me
<1>6. OnPath'
  <2>1. \A q \in Requests : q # r => Path(q)'
    BY <1>2, <1>5 DEF IInv, OnPath, Path, At, Op
  <2>2. Path(r)'
    BY <1>2, <1>3, <1>4 DEF Path, At, FirstStep, AllOps
  <2> QED BY <2>1, <2>2 DEF OnPath
<1>7. BeforeOver'
  BY <1>2, <1>5 DEF IInv, BeforeOver
<1>8. DecidedRow' /\ OwnerDecides' /\ BoundRow'
  BY <1>1, <1>5 DEF IInv, DecidedRow, OwnerDecides, BoundRow
<1>9. SettleFresh' /\ DecisionStands'
  <2>1. ~At(r, "settle")' /\ ~Decided(r)'
    BY <1>2, <1>4 DEF At, Decided
  <2> QED BY <1>2, <1>5, <2>1 DEF IInv, SettleFresh, DecisionStands, BeforeOver
<1>10. Owned'
  <2>1. \A u : Claimant(u) => Claimant(u)'
    <3>1. \A q \in Requests : At(q, "shown") => q # r
      BY <1>1 DEF At
    <3> QED BY <1>1, <1>2, <1>5, <3>1 DEF Claimant, At, Op
  <2> QED BY <1>1, <2>1 DEF IInv, Owned
<1>11. ApprovedRow' /\ Winner'
  BY <1>1, <1>5 DEF IInv, ApprovedRow, Winner, SomeApproval
<1> QED BY <1>6, <1>7, <1>8, <1>9, <1>10, <1>11 DEF IInv

LEMMA StepIInv == IInv /\ [Next]_vars => IInv'
<1> SUFFICES ASSUME IInv, [Next]_vars PROVE IInv' OBVIOUS
<1>0. TypeOK'
  BY StepTypeOK DEF IInv
<1>1. ASSUME NEW r \in Requests, NEW op \in deploy.ops[r], Start(r, op) PROVE IInv'
  BY <1>0, <1>1, StartIInv
<1>2. ASSUME NEW r \in Requests, Step(r) \/ Fail(r) PROVE IInv'
  BY <1>0, <1>2, StepKind, KindIInv DEF IInv
<1>3. CASE Tick \/ UNCHANGED vars
  <2>1. UNCHANGED <<deploy, row, call>>
    BY <1>3 DEF Tick, vars
  <2> QED
    BY <1>0, <2>1 DEF IInv, OnPath, Path, BeforeOver, DecidedRow, SettleFresh, DecisionStands,
      Owned, OwnerDecides, BoundRow, ApprovedRow, Winner, SomeApproval, Claimant, Decided,
      Approved, Over, At, Op, Me
<1> QED BY <1>1, <1>2, <1>3 DEF Next, Idle

LEMMA Invariant == Spec => []IInv
  BY InitIInv, StepIInv, PTL DEF Spec

-----------------------------------------------------------------------------
(* The theorems *)

\* No decision is overruled by a request that comes after it.
THEOREM Decisions == Spec => []DecisionStands
<1>1. IInv => DecisionStands
  BY DEF IInv
<1> QED BY <1>1, Invariant, PTL

\* A session goes to the one user who claimed the code and approved it.
THEOREM Sessions == Spec => []GrantedToApprover
<1>1. IInv => GrantedToApprover
  <2> SUFFICES ASSUME IInv, NEW r \in Requests, At(r, "granted")
               PROVE  /\ call[r].winner \in Users
                      /\ Claimant(call[r].winner)
                      /\ \E p \in Requests : /\ Approved(p) /\ Me(p) = call[r].winner
                                             /\ \A q \in call[p].before : ~Denied(q)
                      /\ \A p \in Requests : Decided(p) => Me(p) = call[r].winner
    BY DEF GrantedToApprover
  <2>1. call[r].winner # Nobody
    BY DEF IInv, OnPath, Path, At
  <2>2. call[r].winner = row.user /\ SomeApproval
    BY <2>1 DEF IInv, Winner
  <2>3. call[r].winner \in Users /\ Claimant(call[r].winner)
    BY <2>1, <2>2 DEF IInv, Owned
  <2>4. \A p \in Requests : Decided(p) => Me(p) = call[r].winner
    BY <2>2 DEF IInv, OwnerDecides
  <2>5. PICK p \in Requests : Approved(p)
    BY <2>2 DEF SomeApproval
  <2>6. Decided(p)
    BY <2>5 DEF Approved, Decided
  <2>7. \A q \in call[p].before : ~Denied(q)
    BY <2>6 DEF IInv, BeforeOver, DecisionStands, Decided, Denied
  <2> QED BY <2>3, <2>4, <2>5, <2>6, <2>7
<1> QED BY <1>1, Invariant, PTL

-----------------------------------------------------------------------------
(* What a poll reads and writes *)

PollSteps == {"find", "check", "touch", "judge", "lapse", "drop", "claim", "issue"}

\* Where a poll comes from, and what it knows there.
From(r) ==
  /\ call'[r].at \notin {"idle", "find"}
  /\ call'[r].at \in PollSteps => call[r].at \in PollSteps
  /\ At(r, "check")' => At(r, "find") /\ row.status # "gone" /\ call'[r].rec = row
  /\ At(r, "touch")' => At(r, "check") /\ ~TooSoon(call[r].rec) /\ call'[r].clock = now
  /\ At(r, "touch") => \/ At(r, "failed")'
                       \/ /\ At(r, "judge")'
                          /\ row'.status = "gone" \/ row'.polled = call[r].clock
  /\ At(r, "judge")' => At(r, "touch")
  /\ At(r, "pending")' => At(r, "judge") /\ call[r].rec.status = "pending"
  /\ At(r, "drop")' => At(r, "judge") /\ call[r].rec.status = "denied"
  /\ At(r, "lapse") => At(r, "expired")' \/ At(r, "failed")'
  /\ At(r, "refused")' => \/ At(r, "find") /\ row.status = "gone"
                          \/ At(r, "claim") /\ row.status # "approved"
                          \/ call[r].at \in {"look", "review"}

\* The record and the time that it holds, and the time in the row.
Holds(r) ==
  /\ \/ call'[r].rec = call[r].rec
     \/ call[r].at \in {"find", "look", "review"} /\ call'[r].rec = row
  /\ call'[r].clock = call[r].clock \/ (At(r, "check") /\ At(r, "touch")')
  /\ row'.polled = row.polled \/ row'.status = "gone" \/ (At(r, "touch") /\ At(r, "judge")')

LEMMA GotoHolds ==
  ASSUME TypeOK, NEW r \in Requests, NEW pc
  PROVE  /\ Goto(r, pc) => /\ call'[r].at = pc /\ call'[r].rec = call[r].rec
                           /\ call'[r].clock = call[r].clock
         /\ Keep(r, pc) => /\ call'[r].at = pc /\ call'[r].rec = row
                           /\ call'[r].clock = call[r].clock
<1>1. call \in [Requests -> Call] /\ call[r] \in Call
  BY DEF TypeOK
<1> QED BY <1>1 DEF Goto, Keep, Become, Call

LEMMA StepHolds ==
  ASSUME TypeOK, NEW r \in Requests, Step(r) \/ Fail(r)
  PROVE  From(r) /\ Holds(r) /\ now' = now
<1>0. call \in [Requests -> Call] /\ call[r] \in Call /\ row \in Row
  BY DEF TypeOK
<1>1. CASE Find(r)
  <2>1. PICK pc \in {"refused", "check"} :
          Keep(r, pc) /\ (pc = "refused" <=> row.status = "gone")
    BY <1>1 DEF Find
  <2>2. call'[r].at = pc /\ call'[r].rec = row /\ call'[r].clock = call[r].clock
    BY <2>1, GotoHolds
  <2> QED BY <1>1, <2>1, <2>2 DEF Find, From, Holds, At, PollSteps
<1>2. CASE Check(r)
  <2>1. CASE TooSoon(call[r].rec)
    <3>1. /\ call'[r].at = "slow" /\ call'[r].rec = call[r].rec
          /\ call'[r].clock = call[r].clock
      BY <1>2, <2>1, GotoHolds DEF Check
    <3> QED BY <1>2, <3>1 DEF Check, From, Holds, At, PollSteps
  <2>2. CASE ~TooSoon(call[r].rec)
    <3>1. call'[r].at = "touch" /\ call'[r].rec = call[r].rec /\ call'[r].clock = now
      BY <1>0, <1>2, <2>2 DEF Check, Become, Call
    <3> QED BY <1>2, <2>2, <3>1 DEF Check, From, Holds, At, PollSteps
  <2> QED BY <2>1, <2>2
<1>3. CASE Touch(r)
  <2>1. call'[r].at = "judge" /\ call'[r].rec = call[r].rec /\ call'[r].clock = call[r].clock
    BY <1>3, GotoHolds DEF Touch
  <2>2. row'.status = "gone" \/ row'.polled = call[r].clock
    BY <1>0, <1>3 DEF Touch, Row
  <2> QED BY <1>3, <2>1, <2>2 DEF Touch, From, Holds, At, PollSteps
<1>4. CASE Judge(r)
  <2>1. PICK pc \in {"lapse", "pending", "drop", "claim"} :
          /\ Goto(r, pc)
          /\ pc = "pending" => call[r].rec.status = "pending"
          /\ pc = "drop" => call[r].rec.status = "denied"
    BY <1>4 DEF Judge
  <2>2. call'[r].at = pc /\ call'[r].rec = call[r].rec /\ call'[r].clock = call[r].clock
    BY <2>1, GotoHolds
  <2> QED BY <1>4, <2>1, <2>2 DEF Judge, From, Holds, At, PollSteps
<1>5. CASE Drop(r)
  <2>1. PICK pc \in {"expired", "denied"} :
          Goto(r, pc) /\ (At(r, "lapse") => pc = "expired")
    BY <1>5 DEF Drop
  <2>2. call'[r].at = pc /\ call'[r].rec = call[r].rec /\ call'[r].clock = call[r].clock
    BY <2>1, GotoHolds
  <2>3. row'.polled = row.polled
    BY <1>0, <1>5 DEF Drop, Row
  <2> QED BY <1>5, <2>1, <2>2, <2>3 DEF Drop, From, Holds, At, PollSteps
<1>6. CASE Claim(r)
  <2>1. CASE row.status = "approved"
    <3>1. /\ call'[r].at = "issue" /\ call'[r].rec = call[r].rec
          /\ call'[r].clock = call[r].clock
      BY <1>0, <1>6, <2>1, ZenonT(40) DEF Claim, Become, Call
    <3>2. row'.status = "gone"
      BY <1>0, <1>6, <2>1 DEF Claim, Row
    <3> QED BY <1>6, <3>1, <3>2 DEF Claim, From, Holds, At, PollSteps
  <2>2. CASE row.status # "approved"
    <3>1. /\ call'[r].at = "refused" /\ call'[r].rec = call[r].rec
          /\ call'[r].clock = call[r].clock
      BY <1>6, <2>2, GotoHolds DEF Claim
    <3> QED BY <1>6, <2>2, <3>1 DEF Claim, From, Holds, At, PollSteps
  <2> QED BY <2>1, <2>2
<1>7. CASE Issue(r)
  <2>1. call'[r].at = "granted" /\ call'[r].rec = call[r].rec /\ call'[r].clock = call[r].clock
    BY <1>7, GotoHolds DEF Issue
  <2> QED BY <1>7, <2>1 DEF Issue, From, Holds, At, PollSteps
<1>8. CASE Look(r)
  <2>1. PICK pc \in {"refused", "bind", "shown"} : Keep(r, pc)
    BY <1>8 DEF Look
  <2>2. call'[r].at = pc /\ call'[r].rec = row /\ call'[r].clock = call[r].clock
    BY <2>1, GotoHolds
  <2> QED BY <1>8, <2>2 DEF Look, From, Holds, At, PollSteps
<1>9. CASE Bind(r)
  <2>1. call'[r].at = "shown" /\ call'[r].rec = call[r].rec /\ call'[r].clock = call[r].clock
    BY <1>9, GotoHolds DEF Bind
  <2>2. row'.polled = row.polled
    BY <1>0, <1>9 DEF Bind, Row
  <2> QED BY <1>9, <2>1, <2>2 DEF Bind, From, Holds, At, PollSteps
<1>10. CASE Review(r)
  <2>1. PICK pc \in {"refused", "settle"} : Keep(r, pc)
    BY <1>10 DEF Review
  <2>2. call'[r].at = pc /\ call'[r].rec = row /\ call'[r].clock = call[r].clock
    BY <2>1, GotoHolds
  <2> QED BY <1>10, <2>2 DEF Review, From, Holds, At, PollSteps
<1>11. CASE Settle(r)
  <2>1. call'[r].at = "settled" /\ call'[r].rec = call[r].rec /\ call'[r].clock = call[r].clock
    BY <1>11, GotoHolds DEF Settle
  <2>2. row'.polled = row.polled
    BY <1>0, <1>11 DEF Settle, Row
  <2> QED BY <1>11, <2>1, <2>2 DEF Settle, From, Holds, At, PollSteps
<1>12. CASE Fail(r)
  <2>1. call'[r].at = "failed" /\ call'[r].rec = call[r].rec /\ call'[r].clock = call[r].clock
    BY <1>12, GotoHolds DEF Fail
  <2>2. row' = row /\ now' = now
    BY <1>12 DEF Fail
  <2>3. From(r) BY <2>1 DEF From, At, PollSteps
  <2>4. Holds(r) BY <2>1, <2>2 DEF Holds, At, PollSteps
  <2> QED BY <2>2, <2>3, <2>4
<1> QED
  BY <1>1, <1>2, <1>3, <1>4, <1>5, <1>6, <1>7, <1>8, <1>9, <1>10, <1>11, <1>12 DEF Step, Poll

\* A request that starts: the parts of its call that Start does not mention stay.
LEMMA StartHolds ==
  ASSUME TypeOK, NEW r \in Requests, NEW op \in deploy.ops[r], Start(r, op)
  PROVE  /\ UNCHANGED <<deploy, row, now>> /\ At(r, "idle") /\ op \in AllOps
         /\ \A q \in Requests : q # r => call'[q] = call[q]
         /\ Op(r)' = op /\ call'[r].at = FirstStep(op)
         /\ call'[r].rec = call[r].rec /\ call'[r].clock = call[r].clock
         /\ call'[r].winner = call[r].winner
         /\ call'[r].before = {q \in Requests : Over(q)}
<1>1. call \in [Requests -> Call] /\ call[r] \in Call
  BY DEF TypeOK
<1>2. op \in AllOps
  BY DeployTyped DEF TypeOK
<1> QED BY <1>1, <1>2 DEF Start, Become, Op, At, Call

-----------------------------------------------------------------------------
(* An approval counts *)

\* A denial that shows anywhere was asked for, and a code that went without one
\* was claimed or found expired.
DenialsKnown ==
  \/ row.status = "denied"
  \/ \E r \in Requests : call[r].rec.status = "denied" \/ At(r, "drop")
  => Denying
Taken(r) == Claimed(r) \/ At(r, "expired")
GoneKnown == ~Denying /\ row.status = "gone" => \E q \in Requests : Taken(q)
PollPath ==
  \A r \in Requests : /\ At(r, "idle") => Op(r) = "none"
                      /\ call[r].at \in PollSteps => Op(r) = "poll"
                      /\ Claimed(r) => call[r].at \in {"issue", "granted", "failed"}

\* A poll that comes after an approval has read it.
AfterApproval(r) == Op(r) = "poll" /\ \E p \in call[r].before : Approved(p)
Counts(r) ==
  /\ call[r].at \in {"check", "touch", "judge"} => call[r].rec.status = "approved"
  /\ ~At(r, "pending")
  /\ At(r, "refused") => \E q \in Requests \ {r} : Taken(q)
CountInv ==
  /\ DenialsKnown /\ GoneKnown /\ PollPath
  /\ ~Denying => \A r \in Requests : AfterApproval(r) => Counts(r)

LEMMA CountInit == Init => CountInv
<1> SUFFICES ASSUME Init PROVE CountInv OBVIOUS
<1>1. \A r \in Requests : /\ call[r].at = "idle" /\ call[r].op = "none"
                          /\ call[r].winner = Nobody
                          /\ call[r].rec.status = "pending" /\ call[r].before = {}
  BY DEF Init, Issued
<1>2. row.status = "pending"
  BY DEF Init, Issued
<1> QED BY <1>1, <1>2 DEF CountInv, DenialsKnown, GoneKnown, PollPath, AfterApproval, Claimed,
                          At, Op, PollSteps

\* Claims and expiries stay; denials are not taken back.
LEMMA TakenStays ==
  ASSUME IInv, PollPath, NEW r \in Requests, Step(r) \/ Fail(r)
  PROVE  /\ \A q \in Requests : Taken(q) => Taken(q)'
         /\ Denying' <=> Denying
<1>1. Moves(r) /\ Kind(r) /\ TypeOK
  BY StepKind, RowKept DEF IInv
<1>2. ASSUME NEW q \in Requests, At(q, "expired") PROVE At(q, "expired")'
  BY <1>1, <1>2, EndedStays DEF Over, At, Ended
<1>3. ASSUME NEW q \in Requests, Claimed(q) PROVE Claimed(q)'
  <2>1. ~(q = r /\ Claims(r))
    BY <1>3 DEF PollPath, Claims, At
  <2> QED BY <1>1, <1>3, <2>1 DEF Moves, Kind, Quiet, Drops, Claims, Grants, Binds, Reviews,
                                  Settles, SameWinner, Claimed
<1>4. Denying' <=> Denying
  BY <1>1, EndedStays DEF Denying
<1> QED BY <1>2, <1>3, <1>4 DEF Taken

LEMMA CountStep ==
  ASSUME IInv, CountInv, NEW r \in Requests, Step(r) \/ Fail(r)
  PROVE  CountInv'
<1>1. /\ Moves(r) /\ Kind(r) /\ TypeOK /\ Path(r) /\ From(r) /\ Holds(r)
  BY StepKind, RowKept, StepHolds DEF IInv, OnPath
<1>2. /\ \A q \in Requests : Taken(q) => Taken(q)'
      /\ Denying' <=> Denying
  BY TakenStays DEF CountInv
<1>3. DenialsKnown'
  <2>1. row'.status = "denied" => row.status = "denied" \/ Op(r) = "deny"
    BY <1>1 DEF Kind, Quiet, Drops, Claims, Grants, Binds, Reviews, Settles, SameRow, Path, At
  <2>2. call'[r].rec.status = "denied" => call[r].rec.status = "denied" \/ row.status = "denied"
    BY <1>1 DEF Holds
  <2>3. At(r, "drop")' => call[r].rec.status = "denied"
    BY <1>1 DEF From
  <2>4. \A q \in Requests : q # r => call'[q] = call[q]
    BY <1>1 DEF Moves
  <2> QED BY <1>2, <2>1, <2>2, <2>3, <2>4 DEF CountInv, DenialsKnown, Denying, At
<1>4. GoneKnown'
  <2> SUFFICES ASSUME ~Denying, row'.status = "gone" PROVE \E q \in Requests : Taken(q)'
    BY <1>2 DEF GoneKnown
  <2>1. CASE row.status = "gone"
    BY <1>2, <2>1 DEF CountInv, GoneKnown
  <2>2. CASE row.status # "gone"
    <3>1. Drops(r) \/ Claims(r)
      BY <1>1, <2>2 DEF Kind, Quiet, Grants, Binds, Reviews, Settles, SameRow
    <3>2. CASE Drops(r)
      <4>1. At(r, "lapse")
        BY <3>2 DEF Drops, CountInv, DenialsKnown, At
      <4>2. At(r, "expired")'
        BY <1>1, <3>2, <4>1 DEF From, Drops, At
      <4> QED BY <4>2 DEF Taken
    <3>3. CASE Claims(r)
      <4>1. row.user # Nobody
        BY <3>3 DEF Claims, IInv, ApprovedRow, SomeApproval, Approved, OwnerDecides, Decided
      <4> QED BY <3>3, <4>1 DEF Claims, Taken, Claimed
    <3> QED BY <3>1, <3>2, <3>3
  <2> QED BY <2>1, <2>2
<1>5. PollPath'
  <2>1. \A q \in Requests : q # r => call'[q] = call[q]
    BY <1>1 DEF Moves
  <2>2. /\ call'[r].at \in PollSteps => Op(r)' = "poll"
        /\ ~At(r, "idle")'
    BY <1>1 DEF CountInv, PollPath, From, Moves, At
  <2>3. Claimed(r)' => call'[r].at \in {"issue", "granted", "failed"}
    <3>1. CASE Claims(r)
      BY <3>1 DEF Claims, At
    <3>2. CASE SameWinner(r)
      <4>1. Claimed(r)' => At(r, "issue")
        BY <1>1, <3>2 DEF CountInv, PollPath, SameWinner, Claimed, Moves, InFlight, Steps, At
      <4>2. At(r, "issue") => call'[r].at \in {"granted", "failed"}
        BY DEF At, Step, Poll, Find, Check, Touch, Judge, Drop, Claim, Look, Bind, Review, Settle,
               Issue, Fail, Goto, Become, TypeOK, IInv, Call
      <4> QED BY <4>1, <4>2
    <3> QED BY <1>1, <3>1, <3>2 DEF Kind, Quiet, Drops, Grants, Binds, Reviews, Settles
  <2> QED BY <2>1, <2>2, <2>3 DEF CountInv, PollPath, Op, Claimed, At
<1>6. ASSUME ~Denying, NEW q \in Requests, AfterApproval(q)' PROVE Counts(q)'
  <2>1. PICK p \in call[q].before : p \in Requests /\ Over(p) /\ Approved(p)' /\ call'[p] = call[p]
    BY <1>1, <1>6, EndedStays DEF AfterApproval, IInv, BeforeOver
  <2>2. Approved(p) /\ Op(q) = "poll" /\ AfterApproval(q)
    BY <1>1, <1>6, <2>1, EndedStays DEF AfterApproval, Approved, At, Op
  <2>3. Counts(q)
    BY <1>6, <2>2 DEF CountInv
  <2>4. row.status # "pending"
    BY <2>1, <2>2 DEF IInv, DecidedRow, Approved, Decided
  <2>5. row.status # "denied"
    BY <1>6 DEF CountInv, DenialsKnown
  <2>6. row.status \in {"approved", "gone"}
    BY <1>1, <2>4, <2>5 DEF TypeOK, Row
  <2>7. CASE q # r
    <3>1. call'[q] = call[q]
      BY <1>1, <2>7 DEF Moves
    <3> QED BY <1>2, <2>3, <3>1 DEF Counts, At
  <2>8. CASE q = r
    <3>1. call'[r].at \in {"check", "touch", "judge"} => call'[r].rec.status = "approved"
      BY <1>1, <2>3, <2>6, <2>8 DEF From, Holds, Counts, At
    <3>2. ~At(r, "pending")'
      BY <1>1, <2>3, <2>8 DEF From, Counts, At
    <3>3. ASSUME At(r, "refused")' PROVE \E x \in Requests \ {r} : Taken(x)'
      <4>1. At(r, "find") \/ At(r, "claim")
        BY <1>1, <2>2, <2>8, <3>3 DEF From, Path, At
      <4>2. row.status = "gone"
        BY <1>1, <2>6, <3>3, <4>1 DEF From, At
      <4>3. PICK x \in Requests : Taken(x)
        BY <1>6, <4>2 DEF CountInv, GoneKnown
      <4>4. x # r
        BY <4>1, <4>3 DEF Taken, CountInv, PollPath, At
      <4> QED BY <1>2, <4>3, <4>4
    <3> QED BY <2>8, <3>1, <3>2, <3>3 DEF Counts
  <2> QED BY <2>7, <2>8
<1> QED BY <1>2, <1>3, <1>4, <1>5, <1>6 DEF CountInv

LEMMA CountStart ==
  ASSUME IInv, CountInv, NEW r \in Requests, NEW op \in deploy.ops[r], Start(r, op)
  PROVE  CountInv'
<1>1. /\ UNCHANGED <<deploy, row, now>> /\ At(r, "idle") /\ op \in AllOps
      /\ \A q \in Requests : q # r => call'[q] = call[q]
      /\ Op(r)' = op /\ call'[r].at = FirstStep(op)
      /\ call'[r].rec = call[r].rec /\ call'[r].winner = call[r].winner
      /\ call'[r].before = {q \in Requests : Over(q)}
  BY StartHolds DEF IInv
<1>2. call'[r].at \in {"find", "look", "review"} /\ (call'[r].at = "find" => op = "poll")
  BY <1>1 DEF FirstStep, AllOps
<1>3. \A q \in Requests : Taken(q)' <=> Taken(q)
  BY <1>1, <1>2 DEF Taken, Claimed, At
<1>4. Denying => Denying'
  BY <1>1 DEF Denying, CountInv, PollPath, Op
<1>5. DenialsKnown'
  BY <1>1, <1>2, <1>4 DEF CountInv, DenialsKnown, At
<1>6. GoneKnown'
  BY <1>1, <1>3, <1>4 DEF CountInv, GoneKnown
<1>7. PollPath'
  BY <1>1, <1>2 DEF CountInv, PollPath, Op, At, Claimed, PollSteps
<1>8. ASSUME ~Denying', NEW q \in Requests, AfterApproval(q)' PROVE Counts(q)'
  <2>1. CASE q = r
    BY <1>1, <1>2, <2>1 DEF Counts, At
  <2>2. CASE q # r
    <3>1. PICK p \in call[q].before : p \in Requests /\ Over(p) /\ Approved(p)'
      BY <1>1, <1>8, <2>2 DEF AfterApproval, IInv, BeforeOver
    <3>2. Approved(p)
      BY <1>1, <3>1 DEF Approved, Op, At, Over, Ended
    <3>3. Counts(q)
      BY <1>1, <1>4, <1>8, <2>2, <3>1, <3>2 DEF AfterApproval, CountInv, Op
    <3> QED BY <1>1, <1>3, <2>2, <3>3 DEF Counts, At
  <2> QED BY <2>1, <2>2
<1> QED BY <1>5, <1>6, <1>7, <1>8 DEF CountInv

LEMMA CountNext == IInv /\ CountInv /\ [Next]_vars => CountInv'
<1> SUFFICES ASSUME IInv, CountInv, [Next]_vars PROVE CountInv' OBVIOUS
<1>1. CASE Tick \/ UNCHANGED vars
  <2>1. UNCHANGED <<deploy, row, call>>
    BY <1>1 DEF Tick, vars
  <2> QED BY <2>1 DEF CountInv, DenialsKnown, GoneKnown, PollPath, AfterApproval, Counts, Taken,
                      Claimed, Denying, Approved, At, Op
<1> QED BY <1>1, CountStep, CountStart DEF Next, Idle

-----------------------------------------------------------------------------
(* Polls keep their distance *)

\* The requests that came so far are finitely many, and one poll runs at a time.
Busy == {q \in Requests : ~At(q, "idle")}
FinitelyMany == IsFiniteSet(Busy)
Polling(r) == Op(r) = "poll" /\ InFlight(r)
Single == deploy.maxPolls = 1
OnePoll == Single => \A p, q \in Requests : Polling(p) /\ Polling(q) => p = q

\* The time that a poll writes was the time, and no other poll has a later one.
Clocks ==
  /\ \A q \in Requests : /\ call[q].clock <= now
                         /\ call[q].at \in {"idle", "find", "check"} => call[q].clock = Never
  /\ Single => \A r \in Requests : At(r, "touch") =>
       call[r].clock # Never /\ \A q \in Requests : call[q].clock <= call[r].clock

\* The row has the time of every poll that wrote it, or a later one, and a poll
\* that comes after another has read that.
InRow(q) == row.status = "gone" \/ row.polled >= call[q].clock
Written(q) == call[q].clock # Never /\ call[q].at \notin {"touch", "failed"}
Spaced(r) ==
  \A q \in call[r].before : Answered(q) =>
    /\ At(r, "check") => call[r].rec.polled >= call[q].clock
    /\ call[r].clock # Never => call[r].clock - call[q].clock >= Interval
SpaceInv ==
  /\ FinitelyMany /\ OnePoll /\ Clocks
  /\ Single => \A q \in Requests : (Written(q) => InRow(q)) /\ Spaced(q)

LEMMA SpaceInit == Init => SpaceInv
<1> SUFFICES ASSUME Init PROVE SpaceInv OBVIOUS
<1>1. \A r \in Requests : /\ call[r].at = "idle" /\ call[r].clock = Never
                          /\ call[r].before = {}
  BY DEF Init
<1>2. Busy = {}
  BY <1>1 DEF Busy, At
<1>3. FinitelyMany
  BY <1>2, FS_EmptySet DEF FinitelyMany
<1>4. OnePoll
  BY <1>1 DEF OnePoll, Polling, InFlight, Steps
<1>5. Clocks
  BY <1>1 DEF Clocks, Init, Never, At
<1> QED BY <1>1, <1>3, <1>4, <1>5 DEF SpaceInv, Written, Spaced

LEMMA Numbers ==
  ASSUME TypeOK, NEW r \in Requests
  PROVE  /\ now \in Nat /\ row.polled \in Int /\ Interval \in Nat /\ Never = -1
         /\ call[r].clock \in Int /\ (call[r].clock # Never => call[r].clock \in Nat)
         /\ call[r].rec.polled \in Int
BY ConstantsAssumption DEF TypeOK, Row, Call, Never

\* A poll that wrote the row is over or on its way, and stays as it is once over.
LEMMA SpaceClocks ==
  ASSUME IInv, PollPath, SpaceInv, NEW r \in Requests, Step(r) \/ Fail(r)
  PROVE  Clocks'
<1>1. Moves(r) /\ TypeOK /\ From(r) /\ Holds(r) /\ now' = now
  BY StepKind, RowKept, StepHolds DEF IInv
<1>2. \A q \in Requests : call'[q].clock <= now
  <2>1. call'[r].clock = call[r].clock \/ call'[r].clock = now
    BY <1>1 DEF From, Holds
  <2> QED BY <1>1, <2>1, Numbers DEF Moves, SpaceInv, Clocks
<1>3. \A q \in Requests : call'[q].at \in {"idle", "find", "check"} => call'[q].clock = Never
  <2>1. At(r, "check")' => At(r, "find") /\ call'[r].clock = call[r].clock
    BY <1>1 DEF From, Holds, At
  <2> QED BY <1>1, <2>1 DEF Moves, From, SpaceInv, Clocks, At
<1>4. ASSUME Single, NEW p \in Requests, At(p, "touch")'
      PROVE  call'[p].clock # Never /\ \A q \in Requests : call'[q].clock <= call'[p].clock
  <2>1. CASE p = r
    <3>1. call'[r].clock = now
      BY <1>1, <1>4, <2>1 DEF From
    <3> QED BY <1>1, <1>2, <2>1, <3>1, Numbers
  <2>2. CASE p # r
    <3>1. At(p, "touch") /\ Polling(p)
      BY <1>1, <1>4, <2>2 DEF Moves, At, Polling, InFlight, Steps, PollPath, PollSteps
    <3>2. ~At(r, "check")
      BY <1>4, <2>2, <3>1 DEF SpaceInv, OnePoll, Polling, InFlight, Steps, PollPath, PollSteps, At
    <3>3. call'[r].clock = call[r].clock
      BY <1>1, <3>2 DEF Holds
    <3> QED BY <1>1, <1>4, <2>2, <3>1, <3>3 DEF Moves, SpaceInv, Clocks
  <2> QED BY <2>1, <2>2
<1>5. Single' <=> Single
  BY <1>1 DEF Moves, Single
<1> QED BY <1>1, <1>2, <1>3, <1>4, <1>5 DEF Clocks

LEMMA SpaceStep ==
  ASSUME IInv, PollPath, SpaceInv, NEW r \in Requests, Step(r) \/ Fail(r)
  PROVE  SpaceInv'
<1>1. Moves(r) /\ TypeOK /\ From(r) /\ Holds(r) /\ now' = now /\ (Single' <=> Single)
  BY StepKind, RowKept, StepHolds DEF IInv, Moves, Single
<1>2. FinitelyMany'
  <2>1. Busy' = Busy
    BY <1>1 DEF Moves, From, InFlight, Steps, Busy, At
  <2> QED BY <2>1 DEF SpaceInv, FinitelyMany
<1>3. OnePoll'
  <2>1. \A q \in Requests : Polling(q)' => Polling(q)
    BY <1>1 DEF Moves, Polling, Op, InFlight
  <2> QED BY <1>1, <2>1 DEF SpaceInv, OnePoll
<1>4. Clocks'
  BY SpaceClocks
<1>5. row.status = "gone" => row'.status = "gone"
  BY RowKept, StepKind DEF IInv
<1>6. ASSUME Single, NEW q \in Requests, Written(q)' PROVE InRow(q)'
  <2>1. CASE q = r
    <3>1. CASE At(r, "touch")
      BY <1>1, <1>6, <2>1, <3>1, Numbers DEF From, Holds, Written, InRow, At
    <3>2. CASE ~At(r, "touch")
      <4>1. call'[r].clock = call[r].clock
        BY <1>1, <1>6, <2>1 DEF Holds, Written, At
      <4>2. Written(r)
        BY <1>1, <1>6, <2>1, <3>2, <4>1 DEF Written, At, Moves, InFlight, Steps
      <4> QED BY <1>1, <1>5, <1>6, <2>1, <3>2, <4>1, <4>2 DEF SpaceInv, InRow, Holds
    <3> QED BY <3>1, <3>2
  <2>2. CASE q # r
    <3>1. call'[q] = call[q] /\ Written(q) /\ InRow(q)
      BY <1>1, <1>6, <2>2 DEF Moves, Written, SpaceInv
    <3>2. CASE At(r, "touch") /\ row'.polled = call[r].clock
      BY <1>6, <3>1, <3>2 DEF InRow, SpaceInv, Clocks
    <3>3. CASE row'.polled = row.polled \/ row'.status = "gone"
      BY <1>5, <3>1, <3>3 DEF InRow
    <3> QED BY <1>1, <3>2, <3>3 DEF Holds, From, At
  <2> QED BY <2>1, <2>2
<1>7. ASSUME Single, NEW p \in Requests PROVE Spaced(p)'
  <2> SUFFICES ASSUME NEW q \in call[p].before, Answered(q)'
               PROVE  /\ At(p, "check")' => call'[p].rec.polled >= call'[q].clock
                      /\ call'[p].clock # Never => call'[p].clock - call'[q].clock >= Interval
    BY <1>1, EndedStays DEF Spaced
  <2>1. q \in Requests /\ Over(q) /\ call'[q] = call[q] /\ q # r
    BY <1>1, EndedStays DEF IInv, BeforeOver
  <2>2. Answered(q) /\ Written(q)
    BY <2>1 DEF Answered, Over, Ended, Written, At, Op
  <2>3. CASE p # r
    BY <1>1, <1>7, <2>1, <2>2, <2>3 DEF Moves, SpaceInv, Spaced, At
  <2>4. CASE p = r
    <3>1. At(r, "check")' => call'[r].rec.polled >= call[q].clock
      BY <1>1, <1>7, <2>1, <2>2 DEF From, SpaceInv, InRow
    <3>2. CASE call'[r].clock = call[r].clock
      BY <1>7, <2>1, <2>2, <2>4, <3>1, <3>2 DEF SpaceInv, Spaced
    <3>3. CASE call'[r].clock # call[r].clock
      <4>1. At(r, "check") /\ ~TooSoon(call[r].rec) /\ call'[r].clock = now
        BY <1>1, <3>3 DEF Holds, From
      <4>2. call[r].rec.polled >= call[q].clock
        BY <1>7, <2>2, <2>4, <4>1 DEF SpaceInv, Spaced
      <4>3. call[q].clock \in Nat
        BY <1>1, <2>1, <2>2, Numbers DEF Answered
      <4>4. call[r].rec.polled # Never /\ now - call[r].rec.polled >= Interval
        BY <1>1, <4>1, <4>2, <4>3, Numbers DEF TooSoon
      <4> QED BY <1>1, <2>1, <2>4, <3>1, <4>1, <4>2, <4>3, <4>4, Numbers
    <3> QED BY <3>2, <3>3
  <2> QED BY <2>2, <2>3, <2>4
<1> QED BY <1>1, <1>2, <1>3, <1>4, <1>6, <1>7 DEF SpaceInv

LEMMA SpaceStart ==
  ASSUME IInv, PollPath, SpaceInv, NEW r \in Requests, NEW op \in deploy.ops[r], Start(r, op)
  PROVE  SpaceInv'
<1>1. /\ UNCHANGED <<deploy, row, now>> /\ At(r, "idle") /\ op \in AllOps
      /\ \A q \in Requests : q # r => call'[q] = call[q]
      /\ Op(r)' = op /\ call'[r].at = FirstStep(op)
      /\ call'[r].rec = call[r].rec /\ call'[r].clock = call[r].clock
      /\ call'[r].before = {q \in Requests : Over(q)}
  BY StartHolds DEF IInv
<1>2. call'[r].at \in {"find", "look", "review"} /\ call'[r].clock = Never
  BY <1>1 DEF FirstStep, SpaceInv, Clocks, At
<1>3. FinitelyMany'
  <2>1. Busy' \subseteq Busy \cup {r}
    BY <1>1 DEF Busy, At
  <2>2. IsFiniteSet(Busy \cup {r})
    BY FS_AddElement DEF SpaceInv, FinitelyMany
  <2> QED BY <2>1, <2>2, FS_Subset DEF FinitelyMany
<1>4. OnePoll'
  <2> SUFFICES ASSUME Single, NEW p \in Requests, NEW q \in Requests, Polling(p)', Polling(q)'
               PROVE  p = q
    BY <1>1 DEF OnePoll, Single
  <2>1. CASE p # r /\ q # r
    BY <1>1, <2>1 DEF SpaceInv, OnePoll, Polling, Op, InFlight
  <2>2. CASE p = r \/ q = r
    <3> DEFINE S == {x \in Requests : Op(x) = "poll" /\ InFlight(x)}
    <3>1. op = "poll"
      BY <1>1, <2>2 DEF Polling
    <3>2. S \subseteq Busy
      BY DEF Busy, InFlight, Steps, At
    <3>3. IsFiniteSet(S)
      BY <3>2, FS_Subset DEF SpaceInv, FinitelyMany
    <3>4. Cardinality(S) < 1 /\ Cardinality(S) \in Nat
      BY <3>1, <3>3, FS_CardinalityType DEF Start, Single
    <3>5. S = {}
      BY <3>3, <3>4, FS_EmptySet
    <3> QED BY <1>1, <3>5 DEF Polling, Op, InFlight
  <2> QED BY <2>1, <2>2
<1>5. Clocks'
  BY <1>1, <1>2 DEF SpaceInv, Clocks, Single, At
<1>6. ASSUME Single, NEW q \in Requests PROVE (Written(q)' => InRow(q)') /\ Spaced(q)'
  <2>1. CASE q = r
    BY <1>1, <1>2, <2>1 DEF Written, Spaced, At
  <2>2. CASE q # r
    <3>1. \A p \in call[q].before : p \in Requests /\ Over(p) /\ p # r
      BY <1>1 DEF IInv, BeforeOver, Over, Ended, At
    <3> QED BY <1>1, <1>6, <2>2, <3>1
            DEF SpaceInv, Written, InRow, Spaced, Answered, Over, Op, At
  <2> QED BY <2>1, <2>2
<1> QED BY <1>1, <1>3, <1>4, <1>5, <1>6 DEF SpaceInv, Single

LEMMA SpaceNext == IInv /\ PollPath /\ SpaceInv /\ [Next]_vars => SpaceInv'
<1> SUFFICES ASSUME IInv, PollPath, SpaceInv, [Next]_vars PROVE SpaceInv' OBVIOUS
<1>1. CASE Tick \/ UNCHANGED vars
  <2>1. UNCHANGED <<deploy, row, call>> /\ now' >= now /\ now \in Nat /\ now' \in Nat
    BY <1>1 DEF Tick, vars, IInv, TypeOK
  <2>2. \A q \in Requests : call[q].clock \in Int
    BY Numbers DEF IInv
  <2>3. Clocks'
    BY <2>1, <2>2 DEF SpaceInv, Clocks, Single, At
  <2>4. FinitelyMany' /\ OnePoll'
    BY <2>1 DEF SpaceInv, FinitelyMany, Busy, OnePoll, Polling, Single, At, Op, InFlight
  <2> QED BY <2>1, <2>3, <2>4 DEF SpaceInv, Single, Written, InRow, Spaced, Answered, At, Op, Over
<1> QED BY <1>1, SpaceStep, SpaceStart DEF Next, Idle

\* A poll is answered by the decision that was made before it, and a device that
\* polls one request at a time is answered once in an interval.
THEOREM Polls == Spec => []PollsHonoured
<1>1. Init => CountInv /\ SpaceInv
  BY CountInit, SpaceInit
<1>2. IInv /\ CountInv /\ SpaceInv /\ [Next]_vars => CountInv' /\ SpaceInv'
  BY CountNext, SpaceNext DEF CountInv
<1>3. IInv /\ CountInv /\ SpaceInv => PollsHonoured
  <2> SUFFICES ASSUME IInv, CountInv, SpaceInv PROVE ApprovalCounts /\ PollsSpaced
    BY DEF PollsHonoured
  <2>1. ApprovalCounts
    BY DEF ApprovalCounts, CountInv, AfterApproval, Counts, Taken
  <2>2. PollsSpaced
    BY DEF PollsSpaced, SpaceInv, Single, Spaced, Answered
  <2> QED BY <2>1, <2>2
<1> QED BY <1>1, <1>2, <1>3, Invariant, PTL DEF Spec

-----------------------------------------------------------------------------
(* Refinement *)

\* A code that is there has no winner yet; a claim makes one, no other step does.
LEMMA KindImplements ==
  ASSUME IInv, NEW r \in Requests, Kind(r)
  PROVE  [Promise!Next]_Promise!vars
<1>0. Moves(r) /\ TypeOK
  BY RowKept
<1> DEFINE live == IF row.status = "gone" THEN {} ELSE {1}
           redeemed == {<<q, 1>> : q \in {p \in Requests : Claimed(p)}}
<1>1. CASE Claims(r)
  <2>1. row.status = "approved" /\ row'.status = "gone" /\ row.user # Nobody
    BY <1>1 DEF Claims, IInv, ApprovedRow, SomeApproval, Approved, OwnerDecides, Decided
  <2>2. \A q \in Requests : ~Claimed(q) /\ (Claimed(q)' <=> q = r)
    BY <1>0, <1>1, <2>1 DEF Claims, Moves, Claimed, IInv, Winner
  <2>3. live = {1} /\ live' = {}
    BY <2>1
  <2>4. redeemed = {} /\ redeemed' = {<<r, 1>>}
    BY <2>2
  <2>5. Promise!Redeem(r, 1)
    BY <2>3, <2>4 DEF Promise!Redeem
  <2> QED BY <2>3, <2>5 DEF Promise!Next
<1>2. CASE ~Claims(r)
  <2>1. \A q \in Requests : Claimed(q)' <=> Claimed(q)
    BY <1>0, <1>2 DEF Moves, Kind, Quiet, Drops, Grants, Binds, Reviews, Settles, SameWinner,
      Claimed
  <2>2. redeemed' = redeemed
    BY <2>1
  <2>3. live' \subseteq live
    BY RowKept
  <2>4. Promise!Discard
    BY <2>2, <2>3 DEF Promise!Discard
  <2> QED BY <2>4 DEF Promise!Next
<1> QED BY <1>1, <1>2

LEMMA RefinesInit == Init => Promise!Init
<1> SUFFICES ASSUME Init PROVE Promise!Init OBVIOUS
<1>1. row.status # "gone" /\ \A r \in Requests : ~Claimed(r)
  BY DEF Init, Issued, Claimed
<1> QED BY <1>1 DEF Promise!Init

LEMMA RefinesNext == IInv /\ [Next]_vars => [Promise!Next]_Promise!vars
<1> SUFFICES ASSUME IInv, [Next]_vars PROVE [Promise!Next]_Promise!vars OBVIOUS
<1>1. ASSUME NEW r \in Requests, NEW op \in deploy.ops[r], Start(r, op)
      PROVE  UNCHANGED Promise!vars
  <2>1. row' = row /\ \A q \in Requests : Claimed(q)' <=> Claimed(q)
    BY <1>1 DEF Start, Become, Claimed, IInv, TypeOK, Call
  <2> QED BY <2>1 DEF Promise!vars
<1>2. ASSUME NEW r \in Requests, Step(r) \/ Fail(r) PROVE [Promise!Next]_Promise!vars
  BY <1>2, StepKind, KindImplements DEF IInv
<1>3. CASE Tick \/ UNCHANGED vars
  BY <1>3 DEF Tick, vars, Promise!vars, Claimed
<1> QED BY <1>1, <1>2, <1>3 DEF Next, Idle

\* One poll at most gets a session for a code, and a code that was claimed,
\* denied or found expired is never claimed again.
THEOREM Implements == Spec => ImplementsSingleUse
<1>1. Init => Promise!Init
  BY RefinesInit
<1>2. IInv /\ [Next]_vars => [Promise!Next]_Promise!vars
  BY RefinesNext
<1> QED BY <1>1, <1>2, Invariant, PTL DEF Spec, ImplementsSingleUse, Promise!Spec
=============================================================================
