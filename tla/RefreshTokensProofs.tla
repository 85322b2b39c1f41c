------------------------- MODULE RefreshTokensProofs -------------------------
(***************************************************************************)
(* Theorems about RefreshTokens, for any set of requests and any           *)
(* configurations: the state has its type; tokens do not fork; replays     *)
(* tear down and revocations are final, access tokens included; a client   *)
(* that presents each token once keeps its session; refresh tokens are     *)
(* single-use values in the sense of SingleUse.                            *)
(***************************************************************************)
EXTENDS RefreshTokens, SequenceTheorems, FiniteSetTheorems, TLAPS

-----------------------------------------------------------------------------
\* What the steps do to a call

\* Every step changes one call, which stays a call.
LEMMA BecomeCall ==
  ASSUME TypeOK, NEW r \in Requests, NEW c \in Call, Become(r, c)
  PROVE  call' \in [Requests -> Call]
BY DEF TypeOK, Become

LEMMA GotoCall ==
  ASSUME TypeOK, NEW r \in Requests, NEW pc \in Steps \cup Ended, Goto(r, pc)
  PROVE  call' \in [Requests -> Call]
<1> DEFINE c == [call[r] EXCEPT !.at = pc]
<1>1. call[r] \in Call
  BY DEF TypeOK
<1>2. c \in Call
  BY <1>1 DEF Call
<1>3. Become(r, c)
  BY DEF Goto
<1> HIDE DEF c
<1> QED BY <1>2, <1>3, BecomeCall

\* The state of a row can change; everything else about it stays.
LEMMA RowState ==
  ASSUME NEW x \in Row, NEW s \in {"live", "revoked", "gone"}
  PROVE  /\ [x EXCEPT !.state = s] \in Row
         /\ [x EXCEPT !.state = s].state = s
         /\ [x EXCEPT !.state = s].parent = x.parent
BY DEF Row

LEMMA RowsDomain ==
  ASSUME rows \in Seq(Row)
  PROVE  /\ Len(rows) \in Nat /\ DOMAIN rows = 1..Len(rows)
         /\ \A t \in 1..Len(rows) : rows[t] \in Row
BY LenProperties, ElementOfSeq

\* Marking a token.
LEMMA Marked ==
  ASSUME rows \in Seq(Row), NEW t \in 1..Len(rows), NEW s \in {"live", "revoked", "gone"},
         rows' = [rows EXCEPT ![t].state = s]
  PROVE  /\ rows' \in Seq(Row) /\ Len(rows') = Len(rows)
         /\ rows'[t].state = s
         /\ \A u \in 1..Len(rows) : rows'[u].parent = rows[u].parent
         /\ \A u \in 1..Len(rows) : u # t => rows'[u] = rows[u]
<1> DEFINE x == [rows[t] EXCEPT !.state = s]
<1>1. rows[t] \in Row
  BY RowsDomain
<1>2. x \in Row /\ x.state = s /\ x.parent = rows[t].parent
  BY <1>1, RowState
<1>3. rows' = [rows EXCEPT ![t] = x]
  OBVIOUS
<1> HIDE DEF x
<1>4. /\ rows' \in Seq(Row) /\ Len(rows') = Len(rows)
      /\ \A u \in 1..Len(rows) : rows'[u] = IF u = t THEN x ELSE rows[u]
  BY <1>2, <1>3, ExceptSeq
<1> QED BY <1>2, <1>4

\* Deleting all rows.
LEMMA AllGone ==
  ASSUME rows \in Seq(Row),
         rows' = [t \in DOMAIN rows |-> [rows[t] EXCEPT !.state = "gone"]]
  PROVE  /\ rows' \in Seq(Row) /\ Len(rows') = Len(rows)
         /\ \A t \in 1..Len(rows) : rows'[t].state = "gone" /\ rows'[t].parent = rows[t].parent
<1>1. \A t \in 1..Len(rows) : /\ [rows[t] EXCEPT !.state = "gone"] \in Row
                              /\ [rows[t] EXCEPT !.state = "gone"].state = "gone"
                              /\ [rows[t] EXCEPT !.state = "gone"].parent = rows[t].parent
  BY RowsDomain, RowState
<1>2. Len(rows) \in Nat /\ DOMAIN rows = 1..Len(rows)
  BY RowsDomain
<1>3. rows' \in [1..Len(rows) -> Row]
  BY <1>1, <1>2
<1>4. rows' \in Seq(Row)
  BY <1>2, <1>3
<1>5. Len(rows') = Len(rows)
  BY <1>2, <1>3, <1>4, LenProperties
<1> QED BY <1>1, <1>2, <1>4, <1>5

-----------------------------------------------------------------------------
(* Type correctness *)

LEMMA TypeInit == Init => TypeOK
<1> SUFFICES ASSUME Init PROVE TypeOK OBVIOUS
<1>1. NoCall \in Call
  BY DEF NoCall, Call
<1>2. rows \in Seq(Row)
  BY EmptySeq DEF Init
<1> QED BY <1>1, <1>2 DEF Init, TypeOK

LEMMA TypeStart ==
  ASSUME TypeOK, NEW r \in Requests, NEW op \in deploy.ops[r], Start(r, op)
  PROVE  TypeOK'
<1>1. op \in AllOps
  BY ConstantsAssumption DEF TypeOK, Deployment
<1>2. Len(rows) \in Nat
  BY RowsDomain DEF TypeOK
<1>3. PICK t \in (IF op = "code" THEN {0} ELSE Known), narrow \in BOOLEAN, jwt \in BOOLEAN :
        Become(r, [NoCall EXCEPT
          !.op = op, !.at = IF op = "code" THEN "create" ELSE "find",
          !.tok = t, !.narrow = narrow, !.jwt = jwt,
          !.floor = Len(rows), !.before = {q \in Requests : At(q, "granted")}])
  BY DEF Start
<1>4. t \in Nat
  BY DEF Known, TypeOK, Call
<1> DEFINE at == IF op = "code" THEN "create" ELSE "find"
           before == {q \in Requests : At(q, "granted")}
           c == [NoCall EXCEPT !.op = op, !.at = at, !.tok = t, !.narrow = narrow,
                               !.jwt = jwt, !.floor = Len(rows), !.before = before]
<1>5. at \in Steps /\ before \in SUBSET Requests
  BY DEF Steps
<1>6. Become(r, c)
  BY <1>3
<1>7. c \in Call
  <2> HIDE DEF at, before
  <2> QED BY <1>1, <1>2, <1>4, <1>5 DEF NoCall, Call
<1> HIDE DEF c
<1> QED BY <1>6, <1>7, BecomeCall DEF Start, TypeOK

\* What a step leaves alone: the other calls, and of its own all but its place.
Others(r) == \A q \in Requests : q # r => call'[q] = call[q]
Same(r) == /\ call'[r].op = call[r].op /\ call'[r].tok = call[r].tok
           /\ call'[r].floor = call[r].floor /\ call'[r].before = call[r].before
Keeps(r) == Others(r) /\ Same(r) /\ call'[r].cas = call[r].cas /\ call'[r].child = call[r].child

LEMMA GotoKeeps ==
  ASSUME TypeOK, NEW r \in Requests, NEW pc, Goto(r, pc)
  PROVE  call'[r].at = pc /\ Keeps(r)
<1>1. call[r] \in Call /\ call \in [Requests -> Call]
  BY DEF TypeOK
<1>2. [call[r] EXCEPT !.at = pc].at = pc
  BY <1>1 DEF Call
<1> DEFINE c == [call[r] EXCEPT !.at = pc]
<1>3. /\ c.op = call[r].op /\ c.tok = call[r].tok /\ c.floor = call[r].floor
      /\ c.before = call[r].before /\ c.cas = call[r].cas /\ c.child = call[r].child
  BY <1>1 DEF Call
<1>4. call' = [call EXCEPT ![r] = c]
  BY DEF Goto, Become
<1> HIDE DEF c
<1>5. call'[r] = c /\ Others(r)
  BY <1>1, <1>4 DEF Others
<1>6. c.at = pc
  BY <1>2 DEF c
<1> QED BY <1>3, <1>5, <1>6 DEF Keeps, Same

LEMMA FindEffect ==
  ASSUME TypeOK, NEW r \in Requests, Find(r)
  PROVE  /\ TypeOK' /\ deploy' = deploy /\ rows' = rows /\ access' = access
         /\ Keeps(r) /\ At(r, "find")
         /\ call'[r].at \in {"refused", "collect", "swap", "granted", "mint"}
         /\ call'[r].at \in {"granted", "mint"} => call[r].op # "revoke"
         /\ call'[r].at = "collect" => rows[Tok(r)].state = "revoked"
<1>1. PICK pc \in {"refused", "collect", "swap", "granted", "mint"} :
        /\ Goto(r, pc)
        /\ pc \in {"granted", "mint"} => call[r].op # "revoke"
        /\ pc = "collect" => rows[Tok(r)].state = "revoked"
  BY DEF Find
<1>2. pc \in Steps \cup Ended
  BY DEF Steps, Ended
<1>3. call' \in [Requests -> Call]
  BY <1>1, <1>2, GotoCall
<1>4. call'[r].at = pc /\ Keeps(r)
  BY <1>1, GotoKeeps
<1> QED BY <1>1, <1>3, <1>4 DEF Find, TypeOK

LEMMA SwapEffect ==
  ASSUME TypeOK, NEW r \in Requests, Swap(r), Tok(r) \in 1..Len(rows)
  PROVE  /\ TypeOK' /\ deploy' = deploy /\ access' = access
         /\ Others(r) /\ Same(r) /\ call'[r].child = call[r].child /\ At(r, "swap")
         /\ \/ /\ rows[Tok(r)].state = "live"
               /\ rows' = [rows EXCEPT ![Tok(r)].state = "revoked"]
               /\ call'[r].cas = "won"
               /\ call'[r].at = IF call[r].op = "revoke" THEN "clear" ELSE "create"
            \/ /\ rows[Tok(r)].state # "live"
               /\ rows' = rows
               /\ call'[r].cas = "lost"
               /\ call'[r].at = IF call[r].op = "revoke" THEN "collect" ELSE "refused"
<1>1. PICK pc \in {"clear", "create", "collect", "refused"}, cas \in {"won", "lost"} :
        /\ Become(r, [call[r] EXCEPT !.at = pc, !.cas = cas])
        /\ \/ /\ rows[Tok(r)].state = "live"
              /\ rows' = [rows EXCEPT ![Tok(r)].state = "revoked"]
              /\ cas = "won" /\ pc = IF call[r].op = "revoke" THEN "clear" ELSE "create"
           \/ /\ rows[Tok(r)].state # "live" /\ rows' = rows
              /\ cas = "lost" /\ pc = IF call[r].op = "revoke" THEN "collect" ELSE "refused"
  BY DEF Swap
<1> DEFINE c == [call[r] EXCEPT !.at = pc, !.cas = cas]
<1>2. call[r] \in Call /\ call \in [Requests -> Call]
  BY DEF TypeOK
<1>3. pc \in Steps \cup Ended
  BY DEF Steps, Ended
<1>4. c \in Call
  BY <1>2, <1>3 DEF Call
<1>5. c.at = pc /\ c.cas = cas
  BY <1>2 DEF Call
<1>6. /\ c.op = call[r].op /\ c.tok = call[r].tok /\ c.floor = call[r].floor
      /\ c.before = call[r].before /\ c.child = call[r].child
  BY <1>2 DEF Call
<1>7. Become(r, c)
  BY <1>1
<1> HIDE DEF c
<1>8. call' \in [Requests -> Call] /\ call'[r] = c /\ Others(r)
  BY <1>2, <1>4, <1>7, BecomeCall DEF Become, Others
<1>9. rows' \in Seq(Row)
  BY <1>1, Marked DEF TypeOK
<1> QED BY <1>1, <1>5, <1>6, <1>8, <1>9 DEF Swap, TypeOK, Same

\* A step that only moves a request on, and the steps that also change tokens.
LEMMA GotoEffect ==
  ASSUME TypeOK, NEW r \in Requests, NEW pc \in Steps \cup Ended, Goto(r, pc),
         rows' \in Seq(Row), access' \subseteq AccessToken, deploy' = deploy
  PROVE  TypeOK' /\ Keeps(r) /\ call'[r].at = pc
<1>1. call' \in [Requests -> Call]
  BY GotoCall
<1> QED BY <1>1, GotoKeeps DEF TypeOK

LEMMA CreateEffect ==
  ASSUME TypeOK, NEW r \in Requests, Create(r)
  PROVE  /\ TypeOK' /\ deploy' = deploy /\ access' = access
         /\ Others(r) /\ Same(r) /\ call'[r].cas = call[r].cas /\ At(r, "create")
         /\ call'[r].child = Len(rows) + 1
         /\ call'[r].at \in {"mint", "granted", "failed"}
         /\ Len(rows') = Len(rows) + 1
         /\ \A t \in 1..Len(rows) : rows'[t] = rows[t]
         /\ rows'[Len(rows) + 1].parent = Tok(r) /\ rows'[Len(rows) + 1].state = "live"
<1> DEFINE x == [state |-> "live", parent |-> Tok(r), expired |-> FALSE,
                 offline |-> ~call[r].narrow]
<1>1. call[r] \in Call /\ call \in [Requests -> Call] /\ rows \in Seq(Row)
  BY DEF TypeOK
<1>2. x \in Row /\ x.parent = Tok(r) /\ x.state = "live"
  BY <1>1 DEF Row, Call, Tok
<1>3. rows' = Append(rows, x)
  BY DEF Create
<1> HIDE DEF x
<1>4. /\ rows' \in Seq(Row) /\ Len(rows') = Len(rows) + 1
      /\ \A t \in 1..Len(rows) : rows'[t] = rows[t]
      /\ rows'[Len(rows) + 1] = x
  BY <1>1, <1>2, <1>3, AppendProperties
<1>5. PICK pc \in {"mint", "granted", "failed"} :
        Become(r, [call[r] EXCEPT !.child = Len(rows) + 1, !.at = pc])
  BY DEF Create, Answer
<1> DEFINE c == [call[r] EXCEPT !.child = Len(rows) + 1, !.at = pc]
<1>6. pc \in Steps \cup Ended /\ Len(rows) + 1 \in Nat
  BY <1>1, RowsDomain DEF Steps, Ended
<1>7. c \in Call
  BY <1>1, <1>6 DEF Call
<1>8. c.at = pc /\ c.child = Len(rows) + 1
  BY <1>1 DEF Call
<1>9. /\ c.op = call[r].op /\ c.tok = call[r].tok /\ c.floor = call[r].floor
      /\ c.before = call[r].before /\ c.cas = call[r].cas
  BY <1>1 DEF Call
<1>10. Become(r, c)
  BY <1>5
<1> HIDE DEF c
<1>11. call' \in [Requests -> Call] /\ call'[r] = c /\ Others(r)
  BY <1>1, <1>7, <1>10, BecomeCall DEF Become, Others
<1> QED BY <1>2, <1>4, <1>8, <1>9, <1>11 DEF Create, TypeOK, Same

LEMMA MintEffect ==
  ASSUME TypeOK, NEW r \in Requests, Mint(r)
  PROVE  /\ TypeOK' /\ deploy' = deploy /\ rows' = rows
         /\ Keeps(r) /\ At(r, "mint") /\ call'[r].at \in {"granted", "failed"}
         /\ \/ access' = access
            \/ /\ access' = access \cup {[by |-> r, ref |-> call[r].child]}
               /\ deploy.foreignKeys /\ call[r].child # 0 => rows[call[r].child].state # "gone"
<1>1. PICK pc \in {"granted", "failed"} : Goto(r, pc)
  BY DEF Mint, Answer
<1>2. pc \in Steps \cup Ended
  BY DEF Ended
<1>3. call[r].child \in Nat
  BY DEF TypeOK, Call
<1>4. \/ access' = access
      \/ /\ access' = access \cup {[by |-> r, ref |-> call[r].child]}
         /\ deploy.foreignKeys /\ call[r].child # 0 => rows[call[r].child].state # "gone"
  BY DEF Mint
<1>5. access' \subseteq AccessToken
  BY <1>3, <1>4 DEF TypeOK, AccessToken
<1>6. rows' = rows /\ deploy' = deploy /\ At(r, "mint") /\ rows \in Seq(Row)
  BY DEF Mint, TypeOK
<1>7. TypeOK' /\ Keeps(r) /\ call'[r].at = pc
  BY <1>1, <1>2, <1>5, <1>6, GotoEffect
<1> QED BY <1>4, <1>6, <1>7

LEMMA AbandonEffect ==
  ASSUME TypeOK, NEW r \in Requests, Abandon(r)
  PROVE  /\ TypeOK' /\ deploy' = deploy /\ rows' = rows /\ access' = access
         /\ Keeps(r) /\ call[r].at \in {"mint", "create"} /\ call'[r].at = call[r].at
<1> DEFINE c == [call[r] EXCEPT !.ok = FALSE]
<1>1. call[r] \in Call /\ call \in [Requests -> Call]
  BY DEF TypeOK
<1>2. c \in Call
  BY <1>1 DEF Call
<1>3. /\ c.op = call[r].op /\ c.tok = call[r].tok /\ c.floor = call[r].floor
      /\ c.before = call[r].before /\ c.cas = call[r].cas /\ c.child = call[r].child
      /\ c.at = call[r].at
  BY <1>1 DEF Call
<1>4. Become(r, c)
  BY DEF Abandon
<1> HIDE DEF c
<1>5. call' \in [Requests -> Call] /\ call'[r] = c /\ Others(r)
  BY <1>1, <1>2, <1>4, BecomeCall DEF Become, Others
<1> QED BY <1>3, <1>5 DEF Abandon, At, TypeOK, Keeps, Same

LEMMA ClearEffect ==
  ASSUME TypeOK, NEW r \in Requests, Clear(r)
  PROVE  /\ TypeOK' /\ deploy' = deploy /\ rows' = rows
         /\ Keeps(r) /\ At(r, "clear") /\ call'[r].at = "revoked"
         /\ access' = {a \in access : a.ref # Tok(r)}
<1>1. /\ Goto(r, "revoked") /\ "revoked" \in Steps \cup Ended
      /\ rows' = rows /\ deploy' = deploy /\ rows \in Seq(Row)
      /\ access' = {a \in access : a.ref # Tok(r)} /\ access' \subseteq AccessToken
  BY DEF Clear, Ended, TypeOK
<1> QED BY <1>1, GotoEffect DEF Clear

LEMMA CollectEffect ==
  ASSUME TypeOK, NEW r \in Requests, Collect(r)
  PROVE  /\ TypeOK' /\ deploy' = deploy /\ rows' = rows /\ access' = access
         /\ Keeps(r) /\ At(r, "collect") /\ call'[r].at \in {"dropRows", "dropAccess"}
         /\ FullPage(r)' \/ call'[r].family = Present
         /\ call'[r].at = "dropRows" => call'[r].family = {}
<1>1. PICK T \in Page, pc \in {"dropRows", "dropAccess"} :
        /\ Become(r, [call[r] EXCEPT !.family = T, !.at = pc])
        /\ pc = "dropRows" => T = {}
  BY DEF Collect
<1> DEFINE c == [call[r] EXCEPT !.family = T, !.at = pc]
<1>2. call[r] \in Call /\ call \in [Requests -> Call]
  BY DEF TypeOK
<1>3. T \subseteq Nat /\ pc \in Steps
  BY RowsDomain DEF TypeOK, Present, Page, Steps
<1>4. c \in Call
  BY <1>2, <1>3 DEF Call
<1>5. /\ c.op = call[r].op /\ c.tok = call[r].tok /\ c.floor = call[r].floor
      /\ c.before = call[r].before /\ c.cas = call[r].cas /\ c.child = call[r].child
      /\ c.at = pc /\ c.family = T
  BY <1>2 DEF Call
<1>6. Become(r, c)
  BY <1>1
<1> HIDE DEF c
<1>7. call' \in [Requests -> Call] /\ call'[r] = c /\ Others(r)
  BY <1>2, <1>4, <1>6, BecomeCall DEF Become, Others
<1>8. rows' = rows /\ access' = access /\ deploy' = deploy
  BY DEF Collect
<1>9. Cardinality(T) = deploy.limit \/ T = Present
  BY DEF Page
<1>10. FullPage(r)' \/ call'[r].family = Present
  BY <1>5, <1>7, <1>8, <1>9 DEF FullPage
<1> QED BY <1>1, <1>5, <1>7, <1>8, <1>10 DEF Collect, TypeOK, Keeps, Same

LEMMA DropAccessEffect ==
  ASSUME TypeOK, NEW r \in Requests, DropAccess(r)
  PROVE  /\ TypeOK' /\ deploy' = deploy /\ rows' = rows
         /\ access' = {a \in access : a.ref \notin call[r].family}
         /\ Keeps(r) /\ At(r, "dropAccess") /\ call'[r].at = "dropRows"
<1>1. /\ Goto(r, "dropRows") /\ "dropRows" \in Steps \cup Ended
      /\ rows' = rows /\ deploy' = deploy /\ rows \in Seq(Row)
      /\ access' = {a \in access : a.ref \notin call[r].family} /\ access' \subseteq AccessToken
  BY DEF DropAccess, Steps, TypeOK
<1> QED BY <1>1, GotoEffect DEF DropAccess

LEMMA DropRowsEffect ==
  ASSUME TypeOK, NEW r \in Requests, DropRows(r)
  PROVE  /\ TypeOK' /\ deploy' = deploy /\ access' \subseteq access
         /\ Keeps(r) /\ At(r, "dropRows") /\ call'[r].at = "torn"
         /\ deploy.foreignKeys => \A a \in access' : a.ref = 0
         /\ Len(rows') = Len(rows)
         /\ \A t \in 1..Len(rows) : rows'[t].state = "gone" /\ rows'[t].parent = rows[t].parent
<1>1. /\ rows' \in Seq(Row) /\ Len(rows') = Len(rows)
      /\ \A t \in 1..Len(rows) : rows'[t].state = "gone" /\ rows'[t].parent = rows[t].parent
  BY AllGone DEF DropRows, TypeOK
<1>2. /\ Goto(r, "torn") /\ "torn" \in Steps \cup Ended
      /\ deploy' = deploy /\ access' \subseteq access /\ access' \subseteq AccessToken
      /\ deploy.foreignKeys => \A a \in access' : a.ref = 0
  BY DEF DropRows, Ended, TypeOK
<1> QED BY <1>1, <1>2, GotoEffect DEF DropRows

LEMMA FailEffect ==
  ASSUME TypeOK, NEW r \in Requests, Fail(r)
  PROVE  /\ TypeOK' /\ deploy' = deploy /\ rows' = rows /\ access' = access
         /\ Keeps(r) /\ InFlight(r) /\ call'[r].at = "failed"
<1>1. /\ Goto(r, "failed") /\ "failed" \in Steps \cup Ended
      /\ rows' = rows /\ access' = access /\ deploy' = deploy
      /\ rows \in Seq(Row) /\ access \subseteq AccessToken
  BY DEF Fail, Ended, TypeOK
<1> QED BY <1>1, GotoEffect DEF Fail

LEMMA ExpireEffect ==
  ASSUME TypeOK, NEW t \in DOMAIN rows, Expire(t)
  PROVE  /\ TypeOK' /\ deploy' = deploy /\ access' = access /\ call' = call
         /\ Len(rows') = Len(rows)
         /\ \A u \in 1..Len(rows) : /\ rows'[u].state = rows[u].state
                                    /\ rows'[u].parent = rows[u].parent
<1> DEFINE x == [rows[t] EXCEPT !.expired = TRUE]
<1>1. /\ rows \in Seq(Row) /\ t \in 1..Len(rows) /\ rows[t] \in Row
  BY RowsDomain DEF TypeOK
<1>2. x \in Row /\ x.state = rows[t].state /\ x.parent = rows[t].parent
  BY <1>1 DEF Row
<1>3. rows' = [rows EXCEPT ![t] = x]
  BY DEF Expire
<1> HIDE DEF x
<1>4. /\ rows' \in Seq(Row) /\ Len(rows') = Len(rows)
      /\ \A u \in 1..Len(rows) : rows'[u] = IF u = t THEN x ELSE rows[u]
  BY <1>1, <1>2, <1>3, ExceptSeq
<1> QED BY <1>2, <1>4 DEF Expire, TypeOK

-----------------------------------------------------------------------------
(* The inductive invariant *)

Presents(r) == call[r].op \in {"refresh", "revoke"}
Won(r) == call[r].cas = "won"

\* What a request refers to is there.
InRange ==
  \A r \in Requests :
    /\ call[r].floor \in 0..Len(rows)
    /\ call[r].child \in 0..Len(rows)
    /\ Presents(r) => Tok(r) \in 1..Len(rows)
    /\ ~Presents(r) => Tok(r) = 0

\* How a request comes to be where it is.
Path(c) ==
  /\ c.at = "idle" => c.op = "none"
  /\ c.at \in {"idle", "find", "swap"} => c.cas = "none"
  /\ c.at \in {"find", "swap", "clear", "revoked", "collect", "dropAccess", "dropRows",
              "torn", "refused"} => c.op \in {"refresh", "revoke"}
  /\ c.at = "create" => c.child = 0 /\ (c.op = "code" \/ (c.op = "refresh" /\ c.cas = "won"))
  /\ c.at = "mint" => c.op \in {"code", "refresh"}
  /\ c.at \in {"clear", "revoked"} => c.op = "revoke" /\ c.cas = "won"
  /\ c.child # 0 => c.at \in {"mint", "granted", "failed"}
  /\ c.cas = "won" => c.op \in {"refresh", "revoke"}
OnPath == \A r \in Requests : Path(call[r])

\* A token has one winner at most, and is used up by it.
Winners ==
  \A r \in Requests : Won(r) =>
    /\ rows[Tok(r)].state # "live"
    /\ \A q \in Requests : Won(q) /\ Tok(q) = Tok(r) => q = r

\* A token was created by one request, the one that won the token it replaced.
Children ==
  /\ \A q, r \in Requests : call[q].child = call[r].child /\ call[r].child # 0 => q = r
  /\ \A t \in 1..Len(rows) : rows[t].parent # 0 =>
       \E r \in Requests : /\ Won(r) /\ call[r].op = "refresh"
                          /\ Tok(r) = rows[t].parent /\ call[r].child = t

\* A token that is presented was given out, by a request that is over.
Issued ==
  \A r \in Requests : Presents(r) =>
    \E q \in Requests : At(q, "granted") /\ call[q].child = Tok(r)

Torn ==
  \A r \in Requests : At(r, "torn") => \A t \in 1..call[r].floor : rows[t].state = "gone"

\* No access token is left of a token that was revoked.
AccessGone ==
  \A r \in Requests : At(r, "revoked") => \A a \in access : a.ref # Tok(r)

IInv ==
  /\ TypeOK /\ InRange /\ OnPath /\ Winners
  /\ Children /\ Issued /\ Torn /\ AccessGone

LEMMA InvInit == Init => IInv
<1> SUFFICES ASSUME Init PROVE IInv OBVIOUS
<1>1. TypeOK
  BY TypeInit
<1>2. Len(rows) = 0 /\ access = {}
  BY EmptySeq DEF Init
<1>3. \A r \in Requests : call[r] = NoCall
  BY DEF Init
<1>4. InRange
  BY <1>2, <1>3 DEF InRange, NoCall, Presents, Tok
<1>5. OnPath
  BY <1>3 DEF OnPath, Path, NoCall
<1>6. Winners /\ Children /\ Issued
  BY <1>2, <1>3 DEF Winners, Children, Issued, NoCall, Won, Presents
<1>7. Torn /\ AccessGone
  BY <1>3 DEF Torn, AccessGone, At, NoCall
<1> QED BY <1>1, <1>4, <1>5, <1>6, <1>7 DEF IInv

\* Rows stay where they are, and a token that is used up or gone stays so.
RowsKeep ==
  /\ Len(rows') = Len(rows)
  /\ \A t \in 1..Len(rows) : /\ rows'[t].parent = rows[t].parent
                             /\ rows'[t].state = "live" => rows[t].state = "live"
                             /\ rows[t].state = "gone" => rows'[t].state = "gone"

\* A step that leaves the requests and the access tokens alone.
LEMMA InvRows ==
  ASSUME IInv, TypeOK', call' = call, access' = access, RowsKeep
  PROVE  IInv'
<1>1. InRange' /\ OnPath' /\ Issued' /\ AccessGone'
  BY DEF IInv, RowsKeep, InRange, OnPath, Issued, AccessGone, Presents, Tok, At
<1>2. \A r \in Requests : Won(r) => Tok(r) \in 1..Len(rows)
  BY DEF IInv, InRange, OnPath, Path, Presents, Won
<1>3. Winners'
  BY <1>2 DEF IInv, RowsKeep, Winners, Won, Tok
<1>4. Children'
  BY DEF IInv, RowsKeep, Children, Won, Tok
<1>5. \A r \in Requests : 1..call[r].floor \subseteq 1..Len(rows)
  BY RowsDomain DEF IInv, TypeOK, InRange
<1>6. Torn'
  BY <1>5 DEF IInv, RowsKeep, Torn, At
<1> QED BY <1>1, <1>3, <1>4, <1>6 DEF IInv

\* A step that moves one request on: what is left to show of it.
LEMMA InvMove ==
  ASSUME IInv, TypeOK', NEW r \in Requests, Keeps(r), RowsKeep, InFlight(r), Path(call'[r]),
         call'[r].at = "torn" => \A t \in 1..Len(rows) : rows'[t].state = "gone",
         call'[r].at = "revoked" => \A a \in access' : a.ref # Tok(r),
         \/ access' \subseteq access
         \/ At(r, "mint") /\ access' = access \cup {[by |-> r, ref |-> call[r].child]}
  PROVE  IInv'
<1>1. ASSUME NEW q \in Requests
      PROVE  /\ call'[q].op = call[q].op /\ call'[q].tok = call[q].tok
             /\ call'[q].cas = call[q].cas /\ call'[q].child = call[q].child
             /\ call'[q].floor = call[q].floor
             /\ (q # r => call'[q] = call[q])
  BY DEF Keeps, Others, Same
<1>2. Len(rows') = Len(rows) /\ Len(rows) \in Nat
  BY RowsDomain DEF RowsKeep, IInv, TypeOK
<1>3. InRange'
  BY <1>1, <1>2 DEF IInv, InRange, Presents, Tok
<1>4. OnPath'
  BY <1>1 DEF IInv, OnPath, Path
<1>5. \A q \in Requests : Won(q) => Tok(q) \in 1..Len(rows)
  BY DEF IInv, InRange, OnPath, Path, Presents, Won
<1>6. Winners'
  BY <1>1, <1>5 DEF IInv, RowsKeep, Winners, Won, Tok
<1>7. Children'
  <2>1. \A q, p \in Requests : call'[q].child = call'[p].child /\ call'[p].child # 0 => q = p
    BY <1>1 DEF IInv, Children
  <2>2. ASSUME NEW t \in 1..Len(rows'), rows'[t].parent # 0
        PROVE  \E q \in Requests : /\ Won(q)' /\ call'[q].op = "refresh"
                                  /\ Tok(q)' = rows'[t].parent /\ call'[q].child = t
    <3>1. t \in 1..Len(rows) /\ rows'[t].parent = rows[t].parent
      BY <1>2, <2>2 DEF RowsKeep
    <3>2. PICK q \in Requests : /\ Won(q) /\ call[q].op = "refresh"
                               /\ Tok(q) = rows[t].parent /\ call[q].child = t
      BY <3>1, <2>2 DEF IInv, Children
    <3> QED BY <1>1, <3>1, <3>2 DEF Won, Tok
  <2> QED BY <2>1, <2>2 DEF Children
<1>8. ~At(r, "granted") /\ ~At(r, "revoked") /\ ~At(r, "torn")
  BY DEF InFlight, At, Steps
<1>9. Issued'
  <2> SUFFICES ASSUME NEW p \in Requests, Presents(p)'
               PROVE  \E q \in Requests : At(q, "granted")' /\ call'[q].child = Tok(p)'
    BY DEF Issued
  <2>1. PICK q \in Requests : At(q, "granted") /\ call[q].child = Tok(p)
    BY <1>1 DEF IInv, Issued, Presents
  <2>2. q # r
    BY <1>8, <2>1
  <2> QED BY <1>1, <2>1, <2>2 DEF At, Tok
<1>10. Torn'
  <2> SUFFICES ASSUME NEW q \in Requests, At(q, "torn")', NEW t \in 1..call'[q].floor
               PROVE  rows'[t].state = "gone"
    BY DEF Torn
  <2>1. t \in 1..Len(rows) /\ t \in 1..call[q].floor
    BY <1>1, <1>2 DEF IInv, InRange
  <2>2. CASE q = r
    BY <2>1, <2>2 DEF At
  <2>3. CASE q # r
    BY <1>1, <2>1, <2>3 DEF IInv, Torn, At, RowsKeep
  <2> QED BY <2>2, <2>3
<1>11. AccessGone'
  <2> SUFFICES ASSUME NEW q \in Requests, At(q, "revoked")', NEW a \in access'
               PROVE  a.ref # Tok(q)'
    BY DEF AccessGone
  <2>1. Tok(q)' = Tok(q)
    BY <1>1 DEF Tok
  <2>2. CASE q = r
    BY <2>1, <2>2 DEF At
  <2>3. CASE q # r
    <3>1. At(q, "revoked")
      BY <1>1, <2>3 DEF At
    <3>2. CASE a \in access
      BY <2>1, <3>1, <3>2 DEF IInv, AccessGone
    <3>3. CASE a \notin access
      <4>1. At(r, "mint") /\ a.ref = call[r].child
        BY <3>3
      <4>2. Presents(q) /\ Tok(q) \in 1..Len(rows)
        BY <3>1 DEF IInv, OnPath, Path, At, InRange, Presents
      <4>3. PICK p \in Requests : At(p, "granted") /\ call[p].child = Tok(q)
        BY <4>2 DEF IInv, Issued
      <4>4. Tok(q) # 0
        BY <1>2, <4>2
      <4>5. p # r
        BY <1>8, <4>3
      <4>6. call[r].child # Tok(q)
        BY <4>3, <4>4, <4>5 DEF IInv, Children
      <4> QED BY <2>1, <4>1, <4>6
    <3> QED BY <3>2, <3>3
  <2> QED BY <2>2, <2>3
<1> QED BY <1>3, <1>4, <1>6, <1>7, <1>9, <1>10, <1>11 DEF IInv

\* A request that starts presents nothing yet, or a token that was given out.
LEMMA StartEffect ==
  ASSUME TypeOK, NEW r \in Requests, NEW op \in deploy.ops[r], Start(r, op)
  PROVE  /\ TypeOK' /\ rows' = rows /\ access' = access /\ deploy' = deploy
         /\ Others(r) /\ At(r, "idle")
         /\ call'[r].before = {q \in Requests : At(q, "granted")}
         /\ call'[r].cas = "none" /\ call'[r].child = 0 /\ call'[r].floor = Len(rows)
         /\ \/ call'[r].op = "code" /\ call'[r].at = "create" /\ call'[r].tok = 0
            \/ /\ call'[r].op \in {"refresh", "revoke"} /\ call'[r].at = "find"
               /\ call'[r].tok # 0
               /\ \E q \in Requests : At(q, "granted") /\ call[q].child = call'[r].tok
<1>1. op \in AllOps
  BY ConstantsAssumption DEF TypeOK, Deployment
<1>2. PICK t \in (IF op = "code" THEN {0} ELSE Known), narrow \in BOOLEAN, jwt \in BOOLEAN :
        Become(r, [NoCall EXCEPT
          !.op = op, !.at = IF op = "code" THEN "create" ELSE "find",
          !.tok = t, !.narrow = narrow, !.jwt = jwt,
          !.floor = Len(rows), !.before = {q \in Requests : At(q, "granted")}])
  BY DEF Start
<1>3. op # "code" => t # 0 /\ \E q \in Requests : At(q, "granted") /\ call[q].child = t
  BY <1>2 DEF Known
<1> DEFINE at == IF op = "code" THEN "create" ELSE "find"
           before == {q \in Requests : At(q, "granted")}
           c == [NoCall EXCEPT !.op = op, !.at = at, !.tok = t, !.narrow = narrow,
                               !.jwt = jwt, !.floor = Len(rows), !.before = before]
<1>4. c.op = op /\ c.at = at /\ c.tok = t /\ c.cas = "none" /\ c.child = 0 /\ c.floor = Len(rows)
      /\ c.before = before
  <2> HIDE DEF at, before
  <2> QED BY DEF NoCall
<1>5. Become(r, c)
  BY <1>2
<1> HIDE DEF c
<1>6. call'[r] = c /\ Others(r)
  BY <1>5 DEF TypeOK, Become, Others
<1>7. TypeOK' /\ rows' = rows /\ access' = access /\ deploy' = deploy /\ At(r, "idle")
  BY TypeStart DEF Start
<1>8. op = "code" => at = "create" /\ t = 0
  BY <1>2
<1>9. op # "code" => at = "find" /\ op \in {"refresh", "revoke"}
  BY <1>1 DEF AllOps
<1> QED BY <1>3, <1>4, <1>6, <1>7, <1>8, <1>9

LEMMA InvStart ==
  ASSUME IInv, NEW r \in Requests, NEW op \in deploy.ops[r], Start(r, op)
  PROVE  IInv'
<1>1. TypeOK' /\ rows' = rows /\ access' = access /\ At(r, "idle")
  BY StartEffect DEF IInv
<1>2. ASSUME NEW q \in Requests, q # r
      PROVE  call'[q] = call[q]
  BY <1>2, StartEffect DEF IInv, Others
<1>3. call'[r].cas = "none" /\ call'[r].child = 0 /\ call'[r].floor = Len(rows)
  BY StartEffect DEF IInv
<1>4. \/ call'[r].op = "code" /\ call'[r].at = "create" /\ call'[r].tok = 0
      \/ /\ call'[r].op \in {"refresh", "revoke"} /\ call'[r].at = "find" /\ call'[r].tok # 0
         /\ \E q \in Requests : At(q, "granted") /\ call[q].child = call'[r].tok
  BY StartEffect DEF IInv
<1>5. Len(rows) \in Nat
  BY RowsDomain DEF IInv, TypeOK
<1>6. call[r].cas = "none" /\ call[r].op = "none" /\ ~At(r, "granted")
  BY <1>1 DEF IInv, OnPath, Path, At
<1>7. InRange'
  <2>1. ASSUME NEW q \in Requests, At(q, "granted"), call[q].child # 0
        PROVE  call[q].child \in 1..Len(rows)
    BY <1>5, <2>1 DEF IInv, InRange
  <2>2. /\ call'[r].floor \in 0..Len(rows) /\ call'[r].child \in 0..Len(rows)
        /\ Presents(r)' => Tok(r)' \in 1..Len(rows)
        /\ ~Presents(r)' => Tok(r)' = 0
    BY <1>3, <1>4, <1>5, <2>1 DEF Presents, Tok
  <2> QED BY <1>1, <1>2, <2>2 DEF IInv, InRange, Presents, Tok
<1>8. OnPath'
  BY <1>2, <1>3, <1>4 DEF IInv, OnPath, Path
<1>9. Winners'
  BY <1>1, <1>2, <1>3 DEF IInv, Winners, Won, Tok
<1>10. Children'
  <2>1. \A q, p \in Requests : call'[q].child = call'[p].child /\ call'[p].child # 0 => q = p
    BY <1>2, <1>3 DEF IInv, Children
  <2>2. ASSUME NEW t \in 1..Len(rows), rows[t].parent # 0
        PROVE  \E q \in Requests : /\ Won(q)' /\ call'[q].op = "refresh"
                                  /\ Tok(q)' = rows[t].parent /\ call'[q].child = t
    <3>1. PICK q \in Requests : /\ Won(q) /\ call[q].op = "refresh"
                               /\ Tok(q) = rows[t].parent /\ call[q].child = t
      BY <2>2 DEF IInv, Children
    <3>2. q # r
      BY <1>6, <3>1 DEF Won
    <3> QED BY <1>2, <3>1, <3>2 DEF Won, Tok
  <2> QED BY <1>1, <2>1, <2>2 DEF Children
<1>11. Issued'
  <2> SUFFICES ASSUME NEW p \in Requests, Presents(p)'
               PROVE  \E q \in Requests : At(q, "granted")' /\ call'[q].child = Tok(p)'
    BY DEF Issued
  <2>1. PICK q \in Requests : At(q, "granted") /\ call[q].child = Tok(p)'
    <3>1. CASE p = r
      BY <1>4, <3>1 DEF Presents, Tok
    <3>2. CASE p # r
      BY <1>2, <3>2 DEF IInv, Issued, Presents, Tok
    <3> QED BY <3>1, <3>2
  <2>2. q # r
    BY <1>6, <2>1
  <2> QED BY <1>2, <2>1, <2>2 DEF At
<1>12. Torn'
  BY <1>1, <1>2, <1>4 DEF IInv, Torn, At
<1>13. AccessGone'
  BY <1>1, <1>2, <1>4 DEF IInv, AccessGone, At, Tok
<1> QED BY <1>1, <1>7, <1>8, <1>9, <1>10, <1>11, <1>12, <1>13 DEF IInv

LEMMA InvSwap ==
  ASSUME IInv, NEW r \in Requests, Swap(r)
  PROVE  IInv'
<1>1. /\ At(r, "swap") /\ Presents(r) /\ call[r].cas = "none" /\ call[r].child = 0
      /\ Tok(r) \in 1..Len(rows)
  BY DEF IInv, OnPath, Path, InRange, Presents, Swap, At
<1>2. /\ TypeOK' /\ access' = access /\ Others(r) /\ Same(r)
      /\ call'[r].child = call[r].child
      /\ \/ /\ rows[Tok(r)].state = "live"
            /\ rows' = [rows EXCEPT ![Tok(r)].state = "revoked"]
            /\ call'[r].cas = "won"
            /\ call'[r].at = IF call[r].op = "revoke" THEN "clear" ELSE "create"
         \/ /\ rows' = rows
            /\ call'[r].cas = "lost"
            /\ call'[r].at = IF call[r].op = "revoke" THEN "collect" ELSE "refused"
  BY <1>1, SwapEffect DEF IInv
<1>3. ASSUME NEW q \in Requests
      PROVE  /\ call'[q].op = call[q].op /\ call'[q].tok = call[q].tok
             /\ call'[q].child = call[q].child /\ call'[q].floor = call[q].floor
             /\ (q # r => call'[q] = call[q])
  BY <1>2 DEF Others, Same
<1>4. rows \in Seq(Row) /\ Len(rows) \in Nat
  BY RowsDomain DEF IInv, TypeOK
<1>5. /\ RowsKeep
      /\ call'[r].cas = "won" => rows[Tok(r)].state = "live" /\ rows'[Tok(r)].state # "live"
  <2>1. CASE rows' = rows /\ call'[r].cas = "lost"
    BY <2>1 DEF RowsKeep
  <2>2. CASE rows[Tok(r)].state = "live" /\ rows' = [rows EXCEPT ![Tok(r)].state = "revoked"]
    <3>1. /\ Len(rows') = Len(rows) /\ rows'[Tok(r)].state = "revoked"
          /\ \A u \in 1..Len(rows) : rows'[u].parent = rows[u].parent
          /\ \A u \in 1..Len(rows) : u # Tok(r) => rows'[u] = rows[u]
      BY <1>1, <1>4, <2>2, Marked
    <3> QED BY <2>2, <3>1 DEF RowsKeep
  <2> QED BY <1>2, <2>1, <2>2
<1>6. InRange'
  BY <1>3, <1>5 DEF IInv, RowsKeep, InRange, Presents, Tok
<1>7. OnPath'
  <2>1. Path(call'[r])
    BY <1>1, <1>2, <1>3 DEF Path, Presents
  <2> QED BY <1>3, <2>1 DEF IInv, OnPath, Path
<1>8. \A q \in Requests : Won(q) => Tok(q) \in 1..Len(rows)
  BY DEF IInv, InRange, OnPath, Path, Presents, Won
<1>9. Winners'
  <2> SUFFICES ASSUME NEW q \in Requests, Won(q)'
               PROVE  /\ rows'[Tok(q)'].state # "live"
                      /\ \A p \in Requests : Won(p)' /\ Tok(p)' = Tok(q)' => p = q
    BY DEF Winners
  <2>1. rows'[Tok(q)'].state # "live"
    BY <1>3, <1>5, <1>8 DEF IInv, RowsKeep, Winners, Won, Tok
  <2>2. ASSUME NEW p \in Requests, Won(p)', Tok(p)' = Tok(q)'
        PROVE  p = q
    BY <1>3, <1>5, <2>2 DEF IInv, Winners, Won, Tok
  <2> QED BY <2>1, <2>2
<1>10. Children'
  <2>1. \A q, p \in Requests : call'[q].child = call'[p].child /\ call'[p].child # 0 => q = p
    BY <1>3 DEF IInv, Children
  <2>2. ASSUME NEW t \in 1..Len(rows'), rows'[t].parent # 0
        PROVE  \E q \in Requests : /\ Won(q)' /\ call'[q].op = "refresh"
                                  /\ Tok(q)' = rows'[t].parent /\ call'[q].child = t
    <3>1. t \in 1..Len(rows) /\ rows'[t].parent = rows[t].parent
      BY <1>5, <2>2 DEF RowsKeep
    <3>2. PICK q \in Requests : /\ Won(q) /\ call[q].op = "refresh"
                               /\ Tok(q) = rows[t].parent /\ call[q].child = t
      BY <3>1, <2>2 DEF IInv, Children
    <3>3. q # r
      BY <1>1, <3>2 DEF Won
    <3> QED BY <1>3, <3>1, <3>2, <3>3 DEF Won, Tok
  <2> QED BY <2>1, <2>2 DEF Children
<1>11. Issued'
  <2> SUFFICES ASSUME NEW p \in Requests, Presents(p)'
               PROVE  \E q \in Requests : At(q, "granted")' /\ call'[q].child = Tok(p)'
    BY DEF Issued
  <2>1. PICK q \in Requests : At(q, "granted") /\ call[q].child = Tok(p)
    BY <1>3 DEF IInv, Issued, Presents
  <2>2. q # r
    BY <1>1, <2>1 DEF At
  <2> QED BY <1>3, <2>1, <2>2 DEF At, Tok
<1>12. ~At(r, "torn")' /\ ~At(r, "revoked")'
  BY <1>2 DEF At
<1>13. Torn'
  <2> SUFFICES ASSUME NEW q \in Requests, At(q, "torn")', NEW t \in 1..call'[q].floor
               PROVE  rows'[t].state = "gone"
    BY DEF Torn
  <2>1. t \in 1..Len(rows) /\ t \in 1..call[q].floor
    BY <1>3, <1>4 DEF IInv, InRange
  <2>2. q # r
    BY <1>12
  <2> QED BY <1>3, <1>5, <2>1, <2>2 DEF IInv, Torn, At, RowsKeep
<1>14. AccessGone'
  BY <1>2, <1>3, <1>12 DEF IInv, AccessGone, At, Tok
<1> QED BY <1>2, <1>6, <1>7, <1>9, <1>10, <1>11, <1>13, <1>14 DEF IInv

LEMMA InvCreate ==
  ASSUME IInv, NEW r \in Requests, Create(r)
  PROVE  IInv'
<1>1. /\ TypeOK' /\ access' = access /\ Others(r) /\ Same(r)
      /\ call'[r].cas = call[r].cas /\ At(r, "create")
      /\ call'[r].child = Len(rows) + 1
      /\ call'[r].at \in {"mint", "granted", "failed"}
      /\ Len(rows') = Len(rows) + 1
      /\ \A t \in 1..Len(rows) : rows'[t] = rows[t]
      /\ rows'[Len(rows) + 1].parent = Tok(r) /\ rows'[Len(rows) + 1].state = "live"
  BY CreateEffect DEF IInv
<1>2. /\ call[r].child = 0
      /\ call[r].op = "code" \/ (call[r].op = "refresh" /\ Won(r))
      /\ Tok(r) # 0 => call[r].op = "refresh"
  BY <1>1 DEF IInv, OnPath, Path, At, InRange, Presents, Won
<1>3. ASSUME NEW q \in Requests
      PROVE  /\ call'[q].op = call[q].op /\ call'[q].tok = call[q].tok
             /\ call'[q].cas = call[q].cas /\ call'[q].floor = call[q].floor
             /\ (q # r => call'[q] = call[q])
  BY <1>1 DEF Others, Same
<1>4. Len(rows) \in Nat
  BY RowsDomain DEF IInv, TypeOK
<1>5. InRange'
  <2> SUFFICES ASSUME NEW q \in Requests
               PROVE  /\ call'[q].floor \in 0..Len(rows')
                      /\ call'[q].child \in 0..Len(rows')
                      /\ Presents(q)' => Tok(q)' \in 1..Len(rows')
                      /\ ~Presents(q)' => Tok(q)' = 0
    BY DEF InRange
  <2>1. /\ call[q].floor \in 0..Len(rows) /\ call[q].child \in 0..Len(rows)
        /\ Presents(q) => Tok(q) \in 1..Len(rows)
        /\ ~Presents(q) => Tok(q) = 0
    BY DEF IInv, InRange
  <2>2. call'[q].child \in 0..Len(rows')
    BY <1>1, <1>3, <1>4, <2>1
  <2> QED BY <1>1, <1>3, <1>4, <2>1, <2>2 DEF Presents, Tok
<1>6. OnPath'
  <2>1. Path(call'[r])
    BY <1>1, <1>2, <1>3 DEF IInv, OnPath, Path, Won
  <2> QED BY <1>3, <2>1 DEF IInv, OnPath, Path
<1>7. \A q \in Requests : Won(q) => Tok(q) \in 1..Len(rows)
  BY DEF IInv, InRange, OnPath, Path, Presents, Won
<1>8. Winners'
  BY <1>1, <1>3, <1>7 DEF IInv, Winners, Won, Tok
<1>9. \A q \in Requests : call[q].child \in 0..Len(rows)
  BY DEF IInv, InRange
<1>10. Children'
  <2>1. \A q, p \in Requests : call'[q].child = call'[p].child /\ call'[p].child # 0 => q = p
    <3> SUFFICES ASSUME NEW q \in Requests, NEW p \in Requests,
                        call'[q].child = call'[p].child, call'[p].child # 0
                 PROVE  q = p
      OBVIOUS
    <3>1. q # r /\ p # r => q = p
      BY <1>3 DEF IInv, Children
    <3>2. \A s \in Requests : s # r => call'[s].child # Len(rows) + 1
      BY <1>3, <1>4, <1>9
    <3> QED BY <1>1, <3>1, <3>2
  <2>2. ASSUME NEW t \in 1..Len(rows'), rows'[t].parent # 0
        PROVE  \E q \in Requests : /\ Won(q)' /\ call'[q].op = "refresh"
                                  /\ Tok(q)' = rows'[t].parent /\ call'[q].child = t
    <3>1. CASE t \in 1..Len(rows)
      <4>1. PICK q \in Requests : /\ Won(q) /\ call[q].op = "refresh"
                                 /\ Tok(q) = rows[t].parent /\ call[q].child = t
        BY <1>1, <2>2, <3>1 DEF IInv, Children
      <4>2. q # r
        BY <1>2, <1>4, <3>1, <4>1
      <4> QED BY <1>1, <1>3, <3>1, <4>1, <4>2 DEF Won, Tok
    <3>2. CASE t = Len(rows) + 1
      <4>1. Tok(r) # 0
        BY <1>1, <2>2, <3>2
      <4> QED BY <1>1, <1>2, <1>3, <3>2, <4>1 DEF Won, Tok
    <3> QED BY <1>1, <1>4, <2>2, <3>1, <3>2
  <2> QED BY <2>1, <2>2 DEF Children
<1>11. Issued'
  <2> SUFFICES ASSUME NEW p \in Requests, Presents(p)'
               PROVE  \E q \in Requests : At(q, "granted")' /\ call'[q].child = Tok(p)'
    BY DEF Issued
  <2>1. PICK q \in Requests : At(q, "granted") /\ call[q].child = Tok(p)
    BY <1>3 DEF IInv, Issued, Presents
  <2>2. q # r
    BY <1>1, <2>1 DEF At
  <2> QED BY <1>3, <2>1, <2>2 DEF At, Tok
<1>12. ~At(r, "torn")' /\ ~At(r, "revoked")'
  BY <1>1 DEF At
<1>13. Torn'
  <2> SUFFICES ASSUME NEW q \in Requests, At(q, "torn")', NEW t \in 1..call'[q].floor
               PROVE  rows'[t].state = "gone"
    BY DEF Torn
  <2>1. t \in 1..Len(rows) /\ t \in 1..call[q].floor
    BY <1>3, <1>4 DEF IInv, InRange
  <2>2. q # r
    BY <1>12
  <2> QED BY <1>1, <1>3, <2>1, <2>2 DEF IInv, Torn, At
<1>14. AccessGone'
  BY <1>1, <1>3, <1>12 DEF IInv, AccessGone, At, Tok
<1> QED BY <1>1, <1>5, <1>6, <1>8, <1>10, <1>11, <1>13, <1>14 DEF IInv

LEMMA InvStep ==
  ASSUME IInv, NEW r \in Requests, Step(r)
  PROVE  IInv'
<1>1. TypeOK /\ Path(call[r])
  BY DEF IInv, OnPath
<1>2. ASSUME rows' = rows PROVE RowsKeep
  BY <1>2 DEF RowsKeep
<1>3. CASE Find(r)
  <2>1. /\ TypeOK' /\ rows' = rows /\ access' = access /\ Keeps(r) /\ At(r, "find")
        /\ call'[r].at \in {"refused", "collect", "swap", "granted", "mint"}
        /\ call'[r].at \in {"granted", "mint"} => call[r].op # "revoke"
    BY <1>1, <1>3, FindEffect
  <2>2. Path(call'[r]) /\ InFlight(r)
    BY <1>1, <2>1 DEF Path, Keeps, Same, At, InFlight, Steps
  <2> QED BY <1>2, <2>1, <2>2, InvMove
<1>4. CASE Swap(r)
  BY <1>4, InvSwap
<1>5. CASE Create(r)
  BY <1>5, InvCreate
<1>6. CASE Mint(r)
  <2>1. /\ TypeOK' /\ rows' = rows /\ Keeps(r) /\ At(r, "mint")
        /\ call'[r].at \in {"granted", "failed"}
        /\ \/ access' = access
           \/ access' = access \cup {[by |-> r, ref |-> call[r].child]}
    BY <1>1, <1>6, MintEffect
  <2>2. Path(call'[r]) /\ InFlight(r)
    BY <1>1, <2>1 DEF Path, Keeps, Same, At, InFlight, Steps
  <2> QED BY <1>2, <2>1, <2>2, InvMove
<1>7. CASE Abandon(r)
  <2>1. /\ TypeOK' /\ rows' = rows /\ access' = access /\ Keeps(r)
        /\ call[r].at \in {"mint", "create"} /\ call'[r].at = call[r].at
    BY <1>1, <1>7, AbandonEffect
  <2>2. Path(call'[r]) /\ InFlight(r)
    BY <1>1, <2>1 DEF Path, Keeps, Same, InFlight, Steps
  <2> QED BY <1>2, <2>1, <2>2, InvMove
<1>8. CASE Clear(r)
  <2>1. /\ TypeOK' /\ rows' = rows /\ Keeps(r) /\ At(r, "clear") /\ call'[r].at = "revoked"
        /\ access' = {a \in access : a.ref # Tok(r)}
    BY <1>1, <1>8, ClearEffect
  <2>2. Path(call'[r]) /\ InFlight(r)
    BY <1>1, <2>1 DEF Path, Keeps, Same, At, InFlight, Steps
  <2> QED BY <1>2, <2>1, <2>2, InvMove
<1>9. CASE Collect(r)
  <2>1. /\ TypeOK' /\ rows' = rows /\ access' = access /\ Keeps(r) /\ At(r, "collect")
        /\ call'[r].at \in {"dropRows", "dropAccess"}
    BY <1>1, <1>9, CollectEffect
  <2>2. Path(call'[r]) /\ InFlight(r)
    BY <1>1, <2>1 DEF Path, Keeps, Same, At, InFlight, Steps
  <2> QED BY <1>2, <2>1, <2>2, InvMove
<1>10. CASE DropAccess(r)
  <2>1. /\ TypeOK' /\ rows' = rows /\ access' = {a \in access : a.ref \notin call[r].family}
        /\ Keeps(r) /\ At(r, "dropAccess") /\ call'[r].at = "dropRows"
    BY <1>1, <1>10, DropAccessEffect
  <2>2. Path(call'[r]) /\ InFlight(r)
    BY <1>1, <2>1 DEF Path, Keeps, Same, At, InFlight, Steps
  <2> QED BY <1>2, <2>1, <2>2, InvMove
<1>11. CASE DropRows(r)
  <2>1. /\ TypeOK' /\ access' \subseteq access /\ Keeps(r)
        /\ At(r, "dropRows") /\ call'[r].at = "torn"
        /\ Len(rows') = Len(rows)
        /\ \A t \in 1..Len(rows) : rows'[t].state = "gone" /\ rows'[t].parent = rows[t].parent
    BY <1>1, <1>11, DropRowsEffect
  <2>2. Path(call'[r]) /\ InFlight(r)
    BY <1>1, <2>1 DEF Path, Keeps, Same, At, InFlight, Steps
  <2>3. RowsKeep
    BY <2>1 DEF RowsKeep
  <2> QED BY <2>1, <2>2, <2>3, InvMove
<1> QED
  BY <1>3, <1>4, <1>5, <1>6, <1>7, <1>8, <1>9, <1>10, <1>11 DEF Step

LEMMA InvFail ==
  ASSUME IInv, NEW r \in Requests, Fail(r)
  PROVE  IInv'
<1>1. TypeOK /\ Path(call[r])
  BY DEF IInv, OnPath
<1>2. /\ TypeOK' /\ rows' = rows /\ access' = access /\ Keeps(r)
      /\ InFlight(r) /\ call'[r].at = "failed"
  BY <1>1, FailEffect
<1>3. Path(call'[r]) /\ RowsKeep
  BY <1>1, <1>2 DEF Path, Keeps, Same, RowsKeep
<1> QED BY <1>2, <1>3, InvMove

LEMMA InvNext == IInv /\ [Next]_vars => IInv'
<1> SUFFICES ASSUME IInv, [Next]_vars PROVE IInv' OBVIOUS
<1>1. CASE \E r \in Requests : \E op \in deploy.ops[r] : Start(r, op)
  BY <1>1, InvStart
<1>2. CASE \E r \in Requests : Step(r)
  BY <1>2, InvStep
<1>3. CASE \E r \in Requests : Fail(r)
  BY <1>3, InvFail
<1>4. CASE \E t \in DOMAIN rows : Expire(t)
  <2>1. PICK t \in DOMAIN rows : Expire(t)
    BY <1>4
  <2>2. /\ TypeOK' /\ access' = access /\ call' = call
        /\ Len(rows') = Len(rows)
        /\ \A u \in 1..Len(rows) : rows'[u].state = rows[u].state /\ rows'[u].parent = rows[u].parent
    BY <2>1, ExpireEffect DEF IInv
  <2>3. RowsKeep
    BY <2>2 DEF RowsKeep
  <2> QED BY <2>2, <2>3, InvRows
<1>5. CASE UNCHANGED vars
  <2>1. TypeOK' /\ call' = call /\ access' = access /\ rows' = rows
    BY <1>5 DEF vars, IInv, TypeOK
  <2> QED BY <2>1, InvRows DEF RowsKeep
<1> QED BY <1>1, <1>2, <1>3, <1>4, <1>5 DEF Next, Idle

-----------------------------------------------------------------------------
(* Theorems *)

LEMMA Inductive == Spec => []IInv
<1>1. Init => IInv
  BY InvInit
<1>2. IInv /\ [Next]_vars => IInv'
  BY InvNext
<1> QED BY <1>1, <1>2, PTL DEF Spec

\* Every reachable state has its type.
THEOREM TypeCorrect == Spec => []TypeOK
<1>1. IInv => TypeOK
  BY DEF IInv
<1> QED BY <1>1, Inductive, PTL

LEMMA NoForkHolds == IInv => NoFork
<1> SUFFICES ASSUME IInv, NEW t \in DOMAIN rows, rows[t].parent # 0
             PROVE  /\ rows[rows[t].parent].state # "live"
                    /\ \A u \in DOMAIN rows : rows[u].parent = rows[t].parent => u = t
  BY DEF NoFork
<1>1. DOMAIN rows = 1..Len(rows) /\ Len(rows) \in Nat
  BY RowsDomain DEF IInv, TypeOK
<1>2. PICK r \in Requests : Won(r) /\ Tok(r) = rows[t].parent /\ call[r].child = t
  BY <1>1 DEF IInv, Children
<1>3. rows[rows[t].parent].state # "live"
  BY <1>2 DEF IInv, Winners
<1>4. ASSUME NEW u \in DOMAIN rows, rows[u].parent = rows[t].parent PROVE u = t
  <2>1. PICK q \in Requests : Won(q) /\ Tok(q) = rows[u].parent /\ call[q].child = u
    BY <1>1, <1>4 DEF IInv, Children
  <2>2. q = r
    BY <1>2, <1>4, <2>1 DEF IInv, Winners
  <2> QED BY <1>2, <2>1, <2>2
<1> QED BY <1>3, <1>4

LEMMA RevocationHolds == IInv => RevocationEnds
<1> SUFFICES ASSUME IInv, NEW r \in Requests, At(r, "revoked")
             PROVE  /\ rows[Tok(r)].state # "live"
                    /\ \A t \in DOMAIN rows : rows[t].parent # Tok(r)
                    /\ \A a \in access : a.ref # Tok(r)
  BY DEF RevocationEnds
<1>1. DOMAIN rows = 1..Len(rows) /\ Len(rows) \in Nat
  BY RowsDomain DEF IInv, TypeOK
<1>2. Won(r) /\ call[r].op = "revoke" /\ Tok(r) \in 1..Len(rows)
  BY DEF IInv, OnPath, Path, InRange, At, Won, Presents
<1>3. ASSUME NEW t \in DOMAIN rows, rows[t].parent = Tok(r) PROVE FALSE
  <2>1. PICK q \in Requests : Won(q) /\ call[q].op = "refresh" /\ Tok(q) = rows[t].parent
    BY <1>1, <1>2, <1>3 DEF IInv, Children
  <2>2. q = r
    BY <1>2, <1>3, <2>1 DEF IInv, Winners
  <2> QED BY <1>2, <2>1, <2>2
<1>4. rows[Tok(r)].state # "live" /\ \A a \in access : a.ref # Tok(r)
  BY <1>2 DEF IInv, Winners, AccessGone
<1> QED BY <1>3, <1>4

\* Tokens do not fork, a replay leaves none of the older tokens usable, and a
\* revocation that succeeded is final, for any number of requests and tokens.
THEOREM FamilySafe == Spec => [](NoFork /\ ReplayTearsDown /\ RevocationEnds)
<1>1. IInv => NoFork /\ RevocationEnds
  BY NoForkHolds, RevocationHolds
<1>2. IInv => ReplayTearsDown
  BY DEF IInv, Torn, ReplayTearsDown
<1> QED BY <1>1, <1>2, Inductive, PTL

-----------------------------------------------------------------------------
(* How the requests move *)

\* A step moves one request, if any: it starts it, or takes it on from where it is.
Moved(r) ==
  /\ Others(r)
  /\ \/ /\ \E op \in deploy.ops[r] : Start(r, op)
        /\ At(r, "idle") /\ access' = access /\ rows' = rows
     \/ InFlight(r) /\ Same(r) /\ (Won(r) => Won(r)')

LEMMA StepMoves ==
  ASSUME IInv, NEW r \in Requests, Step(r)
  PROVE  Moved(r) /\ deploy' = deploy
<1>1. TypeOK /\ Path(call[r])
  BY DEF IInv, OnPath
<1>2. CASE Swap(r)
  <2>1. /\ Tok(r) \in 1..Len(rows) /\ ~Won(r)
    BY <1>2 DEF IInv, OnPath, Path, InRange, Presents, Swap, At, Won
  <2>2. Others(r) /\ Same(r) /\ At(r, "swap") /\ deploy' = deploy
    BY <1>1, <1>2, <2>1, SwapEffect
  <2> QED BY <2>1, <2>2 DEF Moved, InFlight, Steps, At
<1>3. CASE Create(r)
  <2>1. /\ Others(r) /\ Same(r) /\ At(r, "create") /\ call'[r].cas = call[r].cas
        /\ deploy' = deploy
    BY <1>1, <1>3, CreateEffect
  <2> QED BY <2>1 DEF Moved, InFlight, Steps, At, Won
<1>4. CASE \/ Find(r) \/ Mint(r) \/ Abandon(r) \/ Clear(r) \/ Collect(r) \/ DropAccess(r)
           \/ DropRows(r)
  <2>1. Keeps(r) /\ deploy' = deploy
    BY <1>1, <1>4, FindEffect, MintEffect, AbandonEffect, ClearEffect, CollectEffect,
       DropAccessEffect, DropRowsEffect
  <2>2. InFlight(r)
    BY <1>4 DEF Find, Mint, Abandon, Clear, Collect, DropAccess, DropRows, At, InFlight, Steps
  <2> QED BY <2>1, <2>2 DEF Moved, Keeps, Won
<1> QED BY <1>2, <1>3, <1>4 DEF Step

LEMMA NextMoves ==
  ASSUME IInv, [Next]_vars
  PROVE  /\ deploy' = deploy
         /\ call' = call \/ \E r \in Requests : Moved(r)
<1>1. CASE \E r \in Requests : \E op \in deploy.ops[r] : Start(r, op)
  <2>1. PICK r \in Requests : \E op \in deploy.ops[r] : Start(r, op)
    BY <1>1
  <2>2. Others(r) /\ At(r, "idle") /\ access' = access /\ rows' = rows /\ deploy' = deploy
    BY <2>1, StartEffect DEF IInv
  <2> QED BY <2>1, <2>2 DEF Moved
<1>2. CASE \E r \in Requests : Step(r)
  BY <1>2, StepMoves
<1>3. CASE \E r \in Requests : Fail(r)
  <2>1. PICK r \in Requests : Keeps(r) /\ InFlight(r) /\ deploy' = deploy
    BY <1>3, FailEffect DEF IInv
  <2> QED BY <2>1 DEF Moved, Keeps, Won
<1>4. CASE \E t \in DOMAIN rows : Expire(t)
  BY <1>4 DEF Expire
<1>5. CASE UNCHANGED vars
  BY <1>5 DEF vars
<1> QED BY <1>1, <1>2, <1>3, <1>4, <1>5 DEF Next, Idle

\* A request that is over stays as it is; what one presents, and whether it
\* won, is settled for good.
LEMMA Settled ==
  ASSUME IInv, [Next]_vars, NEW q \in Requests
  PROVE  /\ call[q].at \in Ended => call'[q] = call[q]
         /\ Presents(q) => Presents(q)' /\ Tok(q)' = Tok(q)
         /\ Won(q) => Won(q)' /\ Tok(q)' = Tok(q)
<1>1. CASE call' = call
  BY <1>1 DEF Presents, Won, Tok
<1>2. CASE \E r \in Requests : Moved(r)
  <2>1. PICK r \in Requests : Moved(r)
    BY <1>2
  <2>2. CASE q # r
    BY <2>1, <2>2 DEF Moved, Others, Presents, Won, Tok
  <2>3. CASE q = r /\ At(r, "idle")
    BY <2>3 DEF IInv, OnPath, Path, At, Ended, Presents, Won
  <2>4. CASE q = r /\ InFlight(r) /\ Same(r) /\ (Won(r) => Won(r)')
    BY <2>4 DEF InFlight, Steps, Ended, Same, Presents, Tok
  <2> QED BY <2>1, <2>2, <2>3, <2>4 DEF Moved
<1> QED BY <1>1, <1>2, NextMoves

\* The requests that came so far are finitely many.
Busy == {q \in Requests : ~At(q, "idle")}
FinitelyMany == IsFiniteSet(Busy)

LEMMA BusyInit == Init => FinitelyMany
<1> SUFFICES ASSUME Init PROVE IsFiniteSet(Busy) BY DEF FinitelyMany
<1>1. Busy = {}
  BY DEF Init, Busy, At, NoCall
<1> QED BY <1>1, FS_EmptySet

LEMMA BusyNext == IInv /\ FinitelyMany /\ [Next]_vars => FinitelyMany'
<1> SUFFICES ASSUME IInv, IsFiniteSet(Busy), [Next]_vars PROVE IsFiniteSet(Busy')
  BY DEF FinitelyMany
<1>1. CASE call' = call
  BY <1>1 DEF Busy, At
<1>2. CASE \E r \in Requests : Moved(r)
  <2>1. PICK r \in Requests : Moved(r)
    BY <1>2
  <2>2. Busy' \subseteq Busy \cup {r}
    BY <2>1 DEF Moved, Others, Busy, At
  <2>3. IsFiniteSet(Busy \cup {r})
    BY FS_AddElement
  <2> QED BY <2>2, <2>3, FS_Subset
<1> QED BY <1>1, <1>2, NextMoves

-----------------------------------------------------------------------------
(* A client that presents every token once *)

\* A token that is used up was won; tokens are torn down, or about to be, only
\* when one of them was presented twice.
TwicePresented ==
  \E p, q \in Requests : p # q /\ Presents(p) /\ Presents(q) /\ Tok(p) = Tok(q)
UsedUp ==
  \A t \in 1..Len(rows) : rows[t].state = "revoked" =>
    \E q \in Requests : Won(q) /\ Tok(q) = t
Tearing ==
  \/ \E t \in 1..Len(rows) : rows[t].state = "gone"
  \/ \E r \in Requests : call[r].at \in {"collect", "dropAccess", "dropRows"}
CarefulInv == UsedUp /\ (Tearing => TwicePresented)

LEMMA CarefulInit == Init => CarefulInv
<1> SUFFICES ASSUME Init PROVE CarefulInv OBVIOUS
<1>1. Len(rows) = 0
  BY EmptySeq DEF Init
<1>2. \A r \in Requests : call[r].at = "idle"
  BY DEF Init, NoCall
<1> QED BY <1>1, <1>2 DEF CarefulInv, UsedUp, Tearing

LEMMA TwiceStays == IInv /\ TwicePresented /\ [Next]_vars => TwicePresented'
<1> SUFFICES ASSUME IInv, TwicePresented, [Next]_vars PROVE TwicePresented' OBVIOUS
<1>1. PICK p, q \in Requests : p # q /\ Presents(p) /\ Presents(q) /\ Tok(p) = Tok(q)
  BY DEF TwicePresented
<1>2. Presents(p)' /\ Presents(q)' /\ Tok(p)' = Tok(p) /\ Tok(q)' = Tok(q)
  BY <1>1, Settled
<1> QED BY <1>1, <1>2 DEF TwicePresented

\* What is left to show of a step: who won the tokens it uses up, and that it
\* begins to tear down only for a token that was presented twice.
LEMMA CarefulStep ==
  ASSUME IInv, CarefulInv, [Next]_vars,
         \A t \in 1..Len(rows') : rows'[t].state = "revoked" =>
           \/ t \in 1..Len(rows) /\ rows[t].state = "revoked"
           \/ \E q \in Requests : Won(q)' /\ Tok(q)' = t,
         Tearing' => Tearing \/ TwicePresented
  PROVE  CarefulInv'
<1>1. ASSUME NEW t \in 1..Len(rows), rows[t].state = "revoked"
      PROVE  \E q \in Requests : Won(q)' /\ Tok(q)' = t
  <2>1. PICK q \in Requests : Won(q) /\ Tok(q) = t
    BY <1>1 DEF CarefulInv, UsedUp
  <2> QED BY <2>1, Settled
<1>2. UsedUp'
  BY <1>1 DEF UsedUp
<1>3. Tearing' => TwicePresented'
  BY TwiceStays DEF CarefulInv
<1> QED BY <1>2, <1>3 DEF CarefulInv

LEMMA CarefulSwap ==
  ASSUME IInv, CarefulInv, NEW r \in Requests, Swap(r)
  PROVE  CarefulInv'
<1>1. /\ At(r, "swap") /\ Presents(r) /\ ~Won(r) /\ Tok(r) \in 1..Len(rows)
  BY DEF IInv, OnPath, Path, InRange, Presents, Swap, At, Won
<1>2. /\ Others(r) /\ Same(r)
      /\ \/ /\ rows[Tok(r)].state = "live"
            /\ rows' = [rows EXCEPT ![Tok(r)].state = "revoked"]
            /\ call'[r].cas = "won"
            /\ call'[r].at = IF call[r].op = "revoke" THEN "clear" ELSE "create"
         \/ /\ rows[Tok(r)].state # "live"
            /\ rows' = rows
  BY <1>1, SwapEffect DEF IInv
<1>3. [Next]_vars /\ rows \in Seq(Row)
  BY DEF Next, Step, IInv, TypeOK
<1>4. CASE /\ rows[Tok(r)].state = "live"
           /\ rows' = [rows EXCEPT ![Tok(r)].state = "revoked"]
           /\ call'[r].cas = "won"
           /\ call'[r].at = IF call[r].op = "revoke" THEN "clear" ELSE "create"
  <2>1. /\ Len(rows') = Len(rows) /\ rows'[Tok(r)].state = "revoked"
        /\ \A u \in 1..Len(rows) : u # Tok(r) => rows'[u] = rows[u]
    BY <1>1, <1>3, <1>4, Marked
  <2>2. Won(r)' /\ Tok(r)' = Tok(r)
    BY <1>2, <1>4 DEF Won, Same, Tok
  <2>3. Tearing' => Tearing
    BY <1>2, <1>4, <2>1 DEF Tearing, Others
  <2> QED BY <1>3, <2>1, <2>2, <2>3, CarefulStep
<1>5. CASE rows[Tok(r)].state # "live" /\ rows' = rows
  <2>1. TwicePresented
    <3>1. rows[Tok(r)].state \in {"revoked", "gone"}
      BY <1>1, <1>3, <1>5, RowsDomain DEF Row
    <3>2. CASE rows[Tok(r)].state = "revoked"
      <4>1. PICK q \in Requests : Won(q) /\ Tok(q) = Tok(r)
        BY <1>1, <3>2 DEF CarefulInv, UsedUp
      <4>2. Presents(q) /\ q # r
        BY <1>1, <4>1 DEF IInv, OnPath, Path, Presents, Won
      <4> QED BY <1>1, <4>1, <4>2 DEF TwicePresented
    <3>3. CASE rows[Tok(r)].state = "gone"
      BY <1>1, <3>3 DEF CarefulInv, Tearing
    <3> QED BY <3>1, <3>2, <3>3
  <2> QED BY <1>3, <1>5, <2>1, CarefulStep
<1> QED BY <1>2, <1>4, <1>5

LEMMA CarefulFind ==
  ASSUME IInv, CarefulInv, NEW r \in Requests, Find(r)
  PROVE  CarefulInv'
<1>1. /\ At(r, "find") /\ Presents(r) /\ ~Won(r) /\ Tok(r) \in 1..Len(rows)
  BY DEF IInv, OnPath, Path, InRange, Presents, Find, At, Won
<1>2. /\ Keeps(r) /\ rows' = rows
      /\ call'[r].at \in {"refused", "collect", "swap", "granted", "mint"}
      /\ call'[r].at = "collect" => rows[Tok(r)].state = "revoked"
  BY FindEffect DEF IInv
<1>3. [Next]_vars
  BY DEF Next, Step
<1>4. CASE call'[r].at = "collect"
  <2>1. PICK q \in Requests : Won(q) /\ Tok(q) = Tok(r)
    BY <1>1, <1>2, <1>4 DEF CarefulInv, UsedUp
  <2>2. Presents(q) /\ q # r
    BY <1>1, <2>1 DEF IInv, OnPath, Path, Presents, Won
  <2>3. TwicePresented
    BY <1>1, <2>1, <2>2 DEF TwicePresented
  <2> QED BY <1>2, <1>3, <2>3, CarefulStep
<1>5. CASE call'[r].at # "collect"
  <2>1. Tearing' => Tearing
    BY <1>2, <1>5 DEF Tearing, Keeps, Others
  <2> QED BY <1>2, <1>3, <2>1, CarefulStep
<1> QED BY <1>4, <1>5

LEMMA CarefulNext == IInv /\ CarefulInv /\ [Next]_vars => CarefulInv'
<1> SUFFICES ASSUME IInv, CarefulInv, [Next]_vars PROVE CarefulInv' OBVIOUS
<1>1. TypeOK /\ Len(rows) \in Nat
  BY RowsDomain DEF IInv, TypeOK
<1>2. CASE \E r \in Requests : \E op \in deploy.ops[r] : Start(r, op)
  <2>1. PICK r \in Requests : \E op \in deploy.ops[r] : Start(r, op)
    BY <1>2
  <2>2. rows' = rows /\ Others(r) /\ call'[r].at \in {"create", "find"}
    BY <1>1, <2>1, StartEffect
  <2>3. Tearing' => Tearing
    BY <2>2 DEF Tearing, Others
  <2> QED BY <2>2, <2>3, CarefulStep
<1>3. CASE \E r \in Requests : Step(r)
  <2>1. PICK r \in Requests : Step(r)
    BY <1>3
  <2>2. CASE Swap(r) \/ Find(r)
    BY <2>2, CarefulSwap, CarefulFind
  <2>3. CASE Create(r)
    <3>1. /\ Others(r) /\ call'[r].at \in {"mint", "granted", "failed"}
          /\ Len(rows') = Len(rows) + 1
          /\ \A t \in 1..Len(rows) : rows'[t] = rows[t]
          /\ rows'[Len(rows) + 1].state = "live"
      BY <1>1, <2>3, CreateEffect
    <3>2. \A t \in 1..Len(rows') : rows'[t].state # "live" =>
            t \in 1..Len(rows) /\ rows'[t] = rows[t]
      BY <1>1, <3>1
    <3>3. Tearing' => Tearing
      BY <3>1, <3>2 DEF Tearing, Others
    <3> QED BY <3>2, <3>3, CarefulStep
  <2>4. CASE Mint(r) \/ Abandon(r) \/ Clear(r)
    <3>1. /\ Keeps(r) /\ rows' = rows
          /\ call'[r].at \notin {"collect", "dropAccess", "dropRows"}
      BY <1>1, <2>4, MintEffect, AbandonEffect, ClearEffect
    <3>2. Tearing' => Tearing
      BY <3>1 DEF Tearing, Keeps, Others
    <3> QED BY <3>1, <3>2, CarefulStep
  <2>5. CASE Collect(r) \/ DropAccess(r)
    <3>1. rows' = rows /\ call[r].at \in {"collect", "dropAccess"}
      BY <1>1, <2>5, CollectEffect, DropAccessEffect DEF At
    <3>2. Tearing
      BY <3>1 DEF Tearing
    <3> QED BY <3>1, <3>2, CarefulStep
  <2>6. CASE DropRows(r)
    <3>1. /\ At(r, "dropRows") /\ Len(rows') = Len(rows)
          /\ \A t \in 1..Len(rows) : rows'[t].state = "gone"
      BY <1>1, <2>6, DropRowsEffect
    <3>2. Tearing
      BY <3>1 DEF Tearing, At
    <3> QED BY <3>1, <3>2, CarefulStep
  <2> QED BY <2>1, <2>2, <2>3, <2>4, <2>5, <2>6 DEF Step
<1>4. CASE \E r \in Requests : Fail(r)
  <2>1. PICK r \in Requests : Keeps(r) /\ rows' = rows /\ call'[r].at = "failed"
    BY <1>1, <1>4, FailEffect
  <2>2. Tearing' => Tearing
    BY <2>1 DEF Tearing, Keeps, Others
  <2> QED BY <2>1, <2>2, CarefulStep
<1>5. CASE \E t \in DOMAIN rows : Expire(t)
  <2>1. PICK t \in DOMAIN rows : Expire(t)
    BY <1>5
  <2>2. /\ call' = call /\ Len(rows') = Len(rows)
        /\ \A u \in 1..Len(rows) : rows'[u].state = rows[u].state
    BY <1>1, <2>1, ExpireEffect
  <2>3. Tearing' => Tearing
    BY <2>2 DEF Tearing
  <2> QED BY <2>2, <2>3, CarefulStep
<1>6. CASE UNCHANGED vars
  BY <1>6, CarefulStep DEF vars, Tearing
<1> QED BY <1>2, <1>3, <1>4, <1>5, <1>6 DEF Next, Idle

LEMMA CarefulHolds ==
  ASSUME IInv, CarefulInv, FinitelyMany
  PROVE  KeptByCarefulClient
<1> SUFFICES ASSUME \A t \in DOMAIN rows : Cardinality(Presented(t)) <= 1,
                    NEW t \in DOMAIN rows, rows[t].state # "live"
             PROVE  Presented(t) # {}
  BY DEF KeptByCarefulClient
<1>1. DOMAIN rows = 1..Len(rows) /\ rows[t].state \in {"live", "revoked", "gone"}
  BY RowsDomain DEF IInv, TypeOK, Row
<1>2. ~TwicePresented
  <2> SUFFICES ASSUME NEW p \in Requests, NEW q \in Requests, p # q,
                      Presents(p), Presents(q), Tok(p) = Tok(q)
               PROVE  FALSE
    BY DEF TwicePresented
  <2>1. Tok(p) \in DOMAIN rows
    BY <1>1 DEF IInv, InRange
  <2>2. Presented(Tok(p)) \subseteq Busy
    BY DEF Presented, Busy, IInv, OnPath, Path, At
  <2>3. IsFiniteSet(Presented(Tok(p)))
    BY <2>2, FS_Subset DEF FinitelyMany
  <2>4. {p, q} \subseteq Presented(Tok(p))
    BY DEF Presented, Presents
  <2>5. Cardinality({p, q}) <= Cardinality(Presented(Tok(p)))
    BY <2>3, <2>4, FS_Subset
  <2>6. IsFiniteSet({q}) /\ Cardinality({q}) = 1
    BY FS_Singleton
  <2>7. Cardinality({q} \cup {p}) = 2
    <3>1. \A S, x : IsFiniteSet(S) /\ x \notin S => Cardinality(S \cup {x}) = Cardinality(S) + 1
      BY FS_AddElement
    <3>2. p \notin {q}
      OBVIOUS
    <3>3. Cardinality({q} \cup {p}) = Cardinality({q}) + 1
      BY <2>6, <3>1, <3>2, Zenon
    <3> QED BY <2>6, <3>3
  <2>8. {q} \cup {p} = {p, q}
    OBVIOUS
  <2>9. Cardinality(Presented(Tok(p))) \in Nat
    BY <2>3, FS_CardinalityType
  <2> QED BY <2>1, <2>5, <2>7, <2>8, <2>9
<1>3. rows[t].state = "revoked"
  BY <1>1, <1>2 DEF CarefulInv, Tearing
<1>4. PICK q \in Requests : Won(q) /\ Tok(q) = t
  BY <1>1, <1>3 DEF CarefulInv, UsedUp
<1>5. q \in Presented(t)
  BY <1>4 DEF IInv, OnPath, Path, Won, Presented
<1> QED BY <1>5

\* A client that presents each of its tokens once is never turned away: none of
\* them is used up or deleted by anything but a request that presents it.
THEOREM CarefulClientsKeep == Spec => []KeptByCarefulClient
<1>1. Init => CarefulInv /\ FinitelyMany
  BY CarefulInit, BusyInit
<1>2. IInv /\ CarefulInv /\ FinitelyMany /\ [Next]_vars
        => CarefulInv' /\ FinitelyMany'
  BY CarefulNext, BusyNext
<1>3. IInv /\ CarefulInv /\ FinitelyMany => KeptByCarefulClient
  BY CarefulHolds
<1> QED BY <1>1, <1>2, <1>3, Inductive, PTL DEF Spec

-----------------------------------------------------------------------------
(* The access tokens of a family that was torn down *)

\* An access token belongs to a request that is over, and hangs on the refresh
\* token that this request created.
Minted ==
  \A a \in access : a.ref = call[a.by].child /\ call[a.by].at \in {"granted", "failed"}

\* What a request remembers was granted when it came.
Remembered ==
  \A r \in Requests : \A p \in call[r].before :
    At(p, "granted") /\ call[p].child <= call[r].floor

\* A request has a family only from the moment on when it collected it.
Collected ==
  \A r \in Requests :
    call[r].at \notin {"dropAccess", "dropRows", "torn", "failed"} => call[r].family = {}

\* With foreign keys, or one request at a time and families that fit into one
\* answer: the refresh token of an access token is there.
Linked ==
  deploy.foreignKeys \/ Whole => \A a \in access : a.ref # 0 => a.ref \in Present

\* One request at a time sees nothing change between its two deleteMany calls.
Alone == OneByOne => \A p, q \in Requests : InFlight(p) /\ InFlight(q) => p = q
Undisturbed ==
  Whole => \A r \in Requests :
    /\ At(r, "mint") /\ call[r].child # 0 => call[r].child \in Present
    /\ At(r, "dropAccess") => call[r].family = Present
    /\ At(r, "dropRows") => \A a \in access : a.ref = 0

AccessInv == Minted /\ Remembered /\ Collected /\ Linked /\ Alone /\ Undisturbed

LEMMA AccessInit == Init => AccessInv
<1> SUFFICES ASSUME Init PROVE AccessInv OBVIOUS
<1>1. access = {} /\ \A r \in Requests : call[r] = NoCall
  BY DEF Init
<1> QED BY <1>1 DEF AccessInv, Minted, Remembered, Collected, Linked, Alone, Undisturbed, NoCall,
                    At, InFlight, Steps

\* Access tokens are added by Mint only.
LEMMA AccessFrom ==
  ASSUME IInv, [Next]_vars
  PROVE  \/ access' \subseteq access
         \/ \E r \in Requests :
              /\ At(r, "mint") /\ Keeps(r) /\ rows' = rows
              /\ call'[r].at \in {"granted", "failed"}
              /\ access' = access \cup {[by |-> r, ref |-> call[r].child]}
              /\ deploy.foreignKeys /\ call[r].child # 0 => rows[call[r].child].state # "gone"
<1>1. CASE \E r \in Requests : Mint(r)
  BY <1>1, MintEffect DEF IInv
<1>2. CASE ~\E r \in Requests : Mint(r)
  BY <1>2 DEF Next, Step, Start, Find, Swap, Create, Abandon, Clear, Collect, DropAccess,
              DropRows, Fail, Expire, Idle, vars
<1> QED BY <1>1, <1>2

LEMMA MintedNext == IInv /\ Minted /\ [Next]_vars => Minted'
<1> SUFFICES ASSUME IInv, Minted, [Next]_vars, NEW a \in access'
             PROVE  a.ref = call'[a.by].child /\ call'[a.by].at \in {"granted", "failed"}
  BY DEF Minted
<1>1. CASE a \in access
  <2>1. a.by \in Requests /\ a.ref = call[a.by].child /\ call[a.by].at \in {"granted", "failed"}
    BY <1>1 DEF Minted, IInv, TypeOK, AccessToken
  <2>2. call'[a.by] = call[a.by]
    BY <2>1, Settled DEF Ended
  <2> QED BY <2>1, <2>2
<1>2. CASE a \notin access
  <2>1. PICK r \in Requests : /\ Keeps(r) /\ call'[r].at \in {"granted", "failed"}
                              /\ a = [by |-> r, ref |-> call[r].child]
    BY <1>2, AccessFrom
  <2> QED BY <2>1 DEF Keeps
<1> QED BY <1>1, <1>2

LEMMA RememberedNext == IInv /\ Remembered /\ [Next]_vars => Remembered'
<1> SUFFICES ASSUME IInv, Remembered, [Next]_vars, NEW r \in Requests, NEW p \in call'[r].before
             PROVE  At(p, "granted")' /\ call'[p].child <= call'[r].floor
  BY DEF Remembered
<1>1. CASE p \in call[r].before /\ call'[r].floor = call[r].floor
  <2>1. p \in Requests
    BY <1>1 DEF IInv, TypeOK, Call
  <2>2. At(p, "granted") /\ call[p].child <= call[r].floor
    BY <1>1 DEF Remembered
  <2>3. call'[p] = call[p]
    BY <2>1, <2>2, Settled DEF At, Ended
  <2> QED BY <1>1, <2>2, <2>3 DEF At
<1>2. CASE ~(p \in call[r].before /\ call'[r].floor = call[r].floor)
  <2>1. PICK q \in Requests : Moved(q)
    BY <1>2, NextMoves
  <2>2. q = r /\ \E op \in deploy.ops[r] : Start(r, op)
    BY <1>2, <2>1 DEF Moved, Others, Same
  <2>3. p \in Requests /\ At(p, "granted") /\ call'[r].floor = Len(rows) /\ At(r, "idle")
    BY <2>2, StartEffect DEF IInv
  <2>4. call'[p] = call[p] /\ call[p].child <= Len(rows)
    BY <2>3, Settled, RowsDomain DEF At, Ended, IInv, InRange, TypeOK
  <2> QED BY <2>3, <2>4 DEF At
<1> QED BY <1>1, <1>2

\* One request at a time: another starts when the first is over.
LEMMA StartAlone ==
  ASSUME FinitelyMany, OneByOne, NEW r \in Requests, NEW op, Start(r, op)
  PROVE  \A q \in Requests : ~InFlight(q)
<1> DEFINE S == {q \in Requests : InFlight(q)}
<1>1. S \subseteq Busy
  BY DEF Busy, InFlight, Steps, At
<1>2. IsFiniteSet(S)
  BY <1>1, FS_Subset DEF FinitelyMany
<1>3. Cardinality(S) \in Nat /\ Cardinality(S) < 1
  BY <1>2, FS_CardinalityType DEF Start, OneByOne
<1>4. Cardinality(S) = 0
  BY <1>3
<1>5. S = {}
  BY <1>2, <1>4, FS_EmptySet
<1> QED BY <1>5

LEMMA AloneNext == IInv /\ FinitelyMany /\ Alone /\ [Next]_vars => Alone'
<1> SUFFICES ASSUME IInv, FinitelyMany, Alone, [Next]_vars, OneByOne,
                    NEW p \in Requests, NEW q \in Requests, InFlight(p)', InFlight(q)'
             PROVE  p = q
  BY NextMoves DEF Alone, OneByOne
<1>1. CASE call' = call
  BY <1>1 DEF Alone, InFlight
<1>2. CASE \E r \in Requests : Moved(r)
  <2>1. PICK r \in Requests : Moved(r)
    BY <1>2
  <2>2. CASE \E op \in deploy.ops[r] : Start(r, op)
    <3>1. \A x \in Requests : ~InFlight(x)
      BY <2>2, StartAlone
    <3> QED BY <2>1, <3>1 DEF Moved, Others, InFlight
  <2>3. CASE InFlight(r)
    BY <2>1, <2>3 DEF Moved, Others, Alone, InFlight
  <2> QED BY <2>1, <2>2, <2>3 DEF Moved
<1> QED BY <1>1, <1>2, NextMoves

\* The family of a request that is not collecting stays as it is.
LEMMA FamilyKept ==
  ASSUME IInv, [Next]_vars, NEW r \in Requests, call[r].at \notin {"idle", "collect"}
  PROVE  call'[r].family = call[r].family
<1>1. call \in [Requests -> Call] /\ call[r] \in Call
  BY DEF IInv, TypeOK
<1>2. CASE \E q \in Requests : (\E op \in deploy.ops[q] : Start(q, op)) \/ Collect(q)
  BY <1>1, <1>2 DEF Start, Collect, Become, At
<1>3. CASE \E q \in Requests : Find(q) \/ Clear(q) \/ DropAccess(q) \/ DropRows(q) \/ Fail(q)
  <2>1. PICK q \in Requests, pc \in Steps \cup Ended : Goto(q, pc)
    BY <1>3 DEF Find, Clear, DropAccess, DropRows, Fail, Steps, Ended
  <2> QED BY <1>1, <2>1 DEF Goto, Become, Call
<1>4. CASE \E q \in Requests : Mint(q)
  <2>1. PICK q \in Requests, pc \in Ended : Goto(q, pc)
    BY <1>4 DEF Mint, Answer, Ended
  <2> QED BY <1>1, <2>1 DEF Goto, Become, Call
<1>5. CASE \E q \in Requests : Swap(q)
  <2>1. PICK q \in Requests, pc \in Steps \cup Ended, cas \in {"won", "lost"} :
          Become(q, [call[q] EXCEPT !.at = pc, !.cas = cas])
    BY <1>5 DEF Swap, Steps, Ended
  <2> QED BY <1>1, <2>1 DEF Become, Call
<1>6. CASE \E q \in Requests : Create(q)
  <2>1. PICK q \in Requests, pc \in Steps \cup Ended :
          Become(q, [call[q] EXCEPT !.child = Len(rows) + 1, !.at = pc])
    BY <1>6 DEF Create, Answer, Steps, Ended
  <2> QED BY <1>1, <2>1 DEF Become, Call
<1>7. CASE \E q \in Requests : Abandon(q)
  <2>1. PICK q \in Requests : Become(q, [call[q] EXCEPT !.ok = FALSE])
    BY <1>7 DEF Abandon
  <2> QED BY <1>1, <2>1 DEF Become, Call
<1>8. CASE call' = call
  BY <1>8
<1> QED BY <1>2, <1>3, <1>4, <1>5, <1>6, <1>7, <1>8 DEF Next, Step, Expire, Idle, vars

\* A request under way is moved by its own steps.
LEMMA OwnStep ==
  ASSUME IInv, [Next]_vars, NEW r \in Requests, InFlight(r), call'[r] # call[r]
  PROVE  Step(r) \/ Fail(r)
<1>1. ASSUME NEW q \in Requests, NEW op \in deploy.ops[q], Start(q, op) PROVE FALSE
  BY <1>1, StartEffect DEF Others, InFlight, Steps, At, IInv
<1>2. ASSUME NEW q \in Requests, Step(q) \/ Fail(q) PROVE q = r
  <2>1. Others(q)
    BY <1>2 DEF Step, Find, Swap, Create, Mint, Abandon, Clear, Collect, DropAccess, DropRows,
                Fail, Others, Become, Goto, IInv, TypeOK
  <2> QED BY <2>1 DEF Others
<1> QED BY <1>1, <1>2 DEF Next, Expire, Idle, vars

\* A request comes to have a family by collecting it.
LEMMA CollectedNext == IInv /\ Collected /\ [Next]_vars => Collected'
<1> SUFFICES ASSUME IInv, Collected, [Next]_vars, NEW r \in Requests,
                    call'[r].at \notin {"dropAccess", "dropRows", "torn", "failed"}
             PROVE  call'[r].family = {}
  BY DEF Collected
<1>1. CASE call'[r] = call[r]
  BY <1>1 DEF Collected
<1>2. CASE call'[r] # call[r]
  <2>1. Moved(r)
    BY <1>2, NextMoves DEF Moved, Others
  <2>2. CASE At(r, "idle")
    <3>1. \E op \in deploy.ops[r] : Start(r, op)
      BY <2>1, <2>2 DEF Moved, InFlight, Steps, At
    <3>2. PICK op \in deploy.ops[r], t \in {0} \cup Known,
               narrow \in BOOLEAN, jwt \in BOOLEAN :
            Become(r, [NoCall EXCEPT
              !.op = op, !.at = IF op = "code" THEN "create" ELSE "find",
              !.tok = t, !.narrow = narrow, !.jwt = jwt,
              !.floor = Len(rows), !.before = {q \in Requests : At(q, "granted")}])
      BY <3>1 DEF Start
    <3> QED BY <3>2 DEF Become, IInv, TypeOK, NoCall
  <2>3. CASE At(r, "collect")
    <3>1. InFlight(r)
      BY <2>3 DEF InFlight, At, Steps
    <3>2. Step(r) \/ Fail(r)
      BY <1>2, <3>1, OwnStep
    <3>3. Collect(r) \/ Fail(r)
      BY <2>3, <3>2 DEF Step, Find, Swap, Create, Mint, Abandon, Clear, DropAccess, DropRows, At
    <3> QED BY <3>3, CollectEffect, FailEffect DEF IInv
  <2>4. CASE call[r].at \notin {"idle", "collect"}
    <3>1. call'[r].family = call[r].family
      BY <2>4, FamilyKept
    <3>2. call[r].at \notin {"torn", "failed"}
      BY <1>2, Settled DEF Ended
    <3>3. ~At(r, "dropAccess") /\ ~At(r, "dropRows")
      <4>1. ASSUME At(r, "dropAccess") \/ At(r, "dropRows")
            PROVE  DropAccess(r) \/ DropRows(r) \/ Fail(r)
        <5>1. Step(r) \/ Fail(r)
          BY <1>2, <4>1, OwnStep DEF InFlight, At, Steps
        <5> QED BY <4>1, <5>1 DEF Step, Find, Swap, Create, Mint, Abandon, Clear, Collect, At
      <4> QED BY <4>1, DropAccessEffect, DropRowsEffect, FailEffect DEF IInv
    <3> QED BY <3>1, <3>2, <3>3 DEF Collected, At
  <2> QED BY <2>2, <2>3, <2>4 DEF At
<1> QED BY <1>1, <1>2

\* Every answer so far held the whole family if it does after the next step.
LEMMA WholeBefore ==
  ASSUME IInv, Collected, [Next]_vars, Whole'
  PROVE  Whole
<1>1. deploy' = deploy /\ OneByOne
  BY NextMoves DEF Whole, OneByOne
<1>2. ASSUME NEW q \in Requests, FullPage(q) PROVE FALSE
  <2>1. CASE call[q].at \in {"idle", "collect"}
    <3>1. call[q].family = {}
      BY <2>1 DEF Collected
    <3>2. Cardinality(call[q].family) = 0
      BY <3>1, FS_EmptySet
    <3>3. deploy.limit \in Nat \ {0}
      BY ConstantsAssumption DEF IInv, TypeOK, Deployment
    <3> QED BY <1>2, <3>2, <3>3 DEF FullPage
  <2>2. CASE call[q].at \notin {"idle", "collect"}
    <3>1. call'[q].family = call[q].family
      BY <2>2, FamilyKept
    <3> QED BY <1>1, <1>2, <3>1 DEF FullPage, Whole
  <2> QED BY <2>1, <2>2
<1> QED BY <1>1, <1>2 DEF Whole

\* Only DropRows takes tokens away.
LEMMA PresentStays ==
  ASSUME IInv, [Next]_vars, ~\E r \in Requests : DropRows(r)
  PROVE  /\ Present \subseteq Present'
         /\ (~\E r \in Requests : Create(r)) => Present' = Present
<1>1. TypeOK /\ rows \in Seq(Row) /\ Len(rows) \in Nat /\ DOMAIN rows = 1..Len(rows)
  BY RowsDomain DEF IInv, TypeOK
<1>2. CASE \E r \in Requests : Create(r)
  <2>1. PICK r \in Requests : /\ rows' \in Seq(Row) /\ Len(rows') = Len(rows) + 1
                              /\ \A t \in 1..Len(rows) : rows'[t] = rows[t]
    BY <1>1, <1>2, CreateEffect DEF TypeOK
  <2>2. DOMAIN rows' = 1..Len(rows) + 1
    BY <2>1, LenProperties
  <2> QED BY <1>1, <1>2, <2>1, <2>2 DEF Present
<1>3. CASE \E r \in Requests : Swap(r) /\ rows' # rows
  <2>1. PICK r \in Requests : Swap(r) /\ rows' # rows
    BY <1>3
  <2>2. Tok(r) \in 1..Len(rows)
    BY <2>1 DEF IInv, OnPath, Path, InRange, Presents, Swap, At
  <2>3. rows[Tok(r)].state = "live" /\ rows' = [rows EXCEPT ![Tok(r)].state = "revoked"]
    BY <1>1, <2>1, <2>2, SwapEffect
  <2>4. /\ rows' \in Seq(Row) /\ Len(rows') = Len(rows) /\ rows'[Tok(r)].state = "revoked"
        /\ \A u \in 1..Len(rows) : u # Tok(r) => rows'[u] = rows[u]
    BY <1>1, <2>2, <2>3, Marked
  <2>5. DOMAIN rows' = 1..Len(rows)
    BY <2>4, LenProperties
  <2> QED BY <1>1, <2>2, <2>3, <2>4, <2>5 DEF Present
<1>4. CASE \E t \in DOMAIN rows : Expire(t)
  <2>1. /\ rows' \in Seq(Row) /\ Len(rows') = Len(rows)
        /\ \A u \in 1..Len(rows) : rows'[u].state = rows[u].state
    BY <1>1, <1>4, ExpireEffect DEF TypeOK
  <2>2. DOMAIN rows' = 1..Len(rows)
    BY <2>1, LenProperties
  <2> QED BY <1>1, <2>1, <2>2 DEF Present
<1>5. CASE rows' = rows
  BY <1>5 DEF Present
<1> QED
  BY <1>2, <1>3, <1>4, <1>5 DEF Next, Step, Start, Find, Mint, Abandon, Clear, Collect,
     DropAccess, Fail, Idle, vars

LEMMA LinkedNext == IInv /\ Collected /\ Linked /\ Undisturbed /\ [Next]_vars => Linked'
<1> SUFFICES ASSUME IInv, Linked, Undisturbed, [Next]_vars, deploy.foreignKeys \/ Whole,
                    NEW a \in access', a.ref # 0
             PROVE  a.ref \in Present'
  BY NextMoves, WholeBefore DEF Linked
<1>1. CASE \E r \in Requests : DropRows(r)
  <2>1. PICK r \in Requests : DropRows(r)
    BY <1>1
  <2>2. /\ At(r, "dropRows") /\ access' \subseteq access
        /\ deploy.foreignKeys => \A x \in access' : x.ref = 0
    BY <2>1, DropRowsEffect DEF IInv
  <2> QED BY <2>2 DEF Undisturbed
<1>2. CASE ~\E r \in Requests : DropRows(r)
  <2>1. Present \subseteq Present'
    BY <1>2, PresentStays
  <2>2. CASE a \in access
    BY <2>1, <2>2 DEF Linked
  <2>3. CASE a \notin access
    <3>1. PICK r \in Requests :
            /\ At(r, "mint") /\ a = [by |-> r, ref |-> call[r].child]
            /\ deploy.foreignKeys /\ call[r].child # 0 => rows[call[r].child].state # "gone"
      BY <2>3, AccessFrom
    <3>2. call[r].child \in 1..Len(rows) /\ DOMAIN rows = 1..Len(rows)
      BY <3>1, RowsDomain DEF IInv, InRange, TypeOK
    <3>3. call[r].child \in Present
      BY <3>1, <3>2 DEF Present, Undisturbed
    <3> QED BY <2>1, <3>1, <3>3
  <2> QED BY <2>2, <2>3
<1> QED BY <1>1, <1>2

\* The request that a step of one request at a time may have moved on.
UndisturbedAt(q) ==
  /\ At(q, "mint") /\ call[q].child # 0 => call[q].child \in Present
  /\ At(q, "dropAccess") => call[q].family = Present
  /\ At(q, "dropRows") => \A a \in access : a.ref = 0

LEMMA UndisturbedStep ==
  ASSUME IInv, Linked, Whole, Whole', NEW r \in Requests, UndisturbedAt(r), Step(r)
  PROVE  UndisturbedAt(r)'
<1>1. TypeOK /\ Path(call[r]) /\ \A a \in access : a.ref # 0 => a.ref \in Present
  BY DEF IInv, OnPath, Linked
<1>2. CASE Find(r)
  <2>1. Keeps(r) /\ At(r, "find") /\ call'[r].at \notin {"dropAccess", "dropRows"}
    BY <1>1, <1>2, FindEffect
  <2>2. call'[r].child = 0
    BY <1>1, <2>1 DEF Path, At, Keeps
  <2> QED BY <2>1, <2>2 DEF UndisturbedAt, At
<1>3. CASE Swap(r)
  <2>1. Tok(r) \in 1..Len(rows)
    BY <1>3 DEF IInv, OnPath, Path, InRange, Presents, Swap, At
  <2>2. call'[r].at \in {"clear", "create", "collect", "refused"}
    BY <1>1, <1>3, <2>1, SwapEffect
  <2> QED BY <2>2 DEF UndisturbedAt, At
<1>4. CASE Create(r)
  <2>1. /\ call'[r].at \in {"mint", "granted", "failed"} /\ call'[r].child = Len(rows) + 1
        /\ rows' \in Seq(Row) /\ Len(rows') = Len(rows) + 1
        /\ rows'[Len(rows) + 1].state = "live"
    BY <1>1, <1>4, CreateEffect DEF TypeOK
  <2>2. Len(rows) \in Nat /\ DOMAIN rows' = 1..Len(rows) + 1
    BY <1>1, <2>1, LenProperties DEF TypeOK
  <2>3. Len(rows) + 1 \in Present'
    BY <2>1, <2>2 DEF Present
  <2> QED BY <2>1, <2>3 DEF UndisturbedAt, At
<1>5. CASE Abandon(r)
  <2>1. /\ rows' = rows /\ Keeps(r) /\ call[r].at \in {"mint", "create"}
        /\ call'[r].at = call[r].at
    BY <1>1, <1>5, AbandonEffect
  <2> QED BY <2>1 DEF UndisturbedAt, At, Keeps, Present
<1>6. CASE Mint(r) \/ Clear(r) \/ DropRows(r)
  <2>1. call'[r].at \in {"granted", "failed", "revoked", "torn"}
    BY <1>1, <1>6, MintEffect, ClearEffect, DropRowsEffect
  <2> QED BY <2>1 DEF UndisturbedAt, At
<1>7. CASE Collect(r)
  <2>1. /\ rows' = rows /\ access' = access /\ call'[r].at \in {"dropRows", "dropAccess"}
        /\ FullPage(r)' \/ call'[r].family = Present
        /\ call'[r].at = "dropRows" => call'[r].family = {}
    BY <1>1, <1>7, CollectEffect
  <2>2. call'[r].family = Present
    BY <2>1 DEF Whole
  <2> QED BY <1>1, <2>1, <2>2 DEF UndisturbedAt, At, Present
<1>8. CASE DropAccess(r)
  <2>1. /\ access' = {a \in access : a.ref \notin call[r].family}
        /\ At(r, "dropAccess") /\ call'[r].at = "dropRows"
    BY <1>1, <1>8, DropAccessEffect
  <2>2. call[r].family = Present
    BY <2>1 DEF UndisturbedAt
  <2> QED BY <1>1, <2>1, <2>2 DEF UndisturbedAt, At
<1> QED BY <1>2, <1>3, <1>4, <1>5, <1>6, <1>7, <1>8 DEF Step

LEMMA UndisturbedNext ==
  /\ IInv /\ FinitelyMany /\ Collected /\ Linked /\ Alone /\ Undisturbed /\ [Next]_vars
  => Undisturbed'
<1> SUFFICES ASSUME IInv, FinitelyMany, Linked, Alone, Undisturbed, [Next]_vars,
                    Whole, Whole', OneByOne, NEW q \in Requests, InFlight(q)'
             PROVE  UndisturbedAt(q)'
  <2>1. IInv /\ Collected /\ [Next]_vars /\ Whole' => Whole /\ OneByOne
    BY WholeBefore DEF Whole
  <2> QED BY <2>1 DEF Undisturbed, UndisturbedAt, InFlight, Steps, At
<1>1. UndisturbedAt(q)
  BY DEF Undisturbed, UndisturbedAt
<1>2. CASE \E r \in Requests : \E op \in deploy.ops[r] : Start(r, op)
  <2>1. PICK r \in Requests : \E op \in deploy.ops[r] : Start(r, op)
    BY <1>2
  <2>2. ~InFlight(q)
    BY <2>1, StartAlone
  <2>3. Others(r) /\ call'[r].at \in {"create", "find"}
    BY <2>1, StartEffect DEF IInv
  <2>4. q = r
    BY <2>2, <2>3 DEF Others, InFlight
  <2> QED BY <2>3, <2>4 DEF UndisturbedAt, At
<1>3. CASE \E r \in Requests : Step(r)
  <2>1. PICK r \in Requests : Step(r)
    BY <1>3
  <2>2. Others(r) /\ InFlight(r)
    BY <2>1 DEF Step, Find, Swap, Create, Mint, Abandon, Clear, Collect, DropAccess, DropRows,
                At, InFlight, Steps, Others, Become, Goto, IInv, TypeOK
  <2>3. q = r
    BY <2>2 DEF Others, InFlight, Alone
  <2> QED BY <1>1, <2>1, <2>3, UndisturbedStep
<1>4. CASE \E r \in Requests : Fail(r)
  <2>1. PICK r \in Requests : Keeps(r) /\ InFlight(r) /\ call'[r].at = "failed"
    BY <1>4, FailEffect DEF IInv
  <2>2. q = r
    BY <2>1 DEF Keeps, Others, InFlight, Alone
  <2> QED BY <2>1, <2>2 DEF InFlight, Steps
<1>5. CASE (\E t \in DOMAIN rows : Expire(t)) \/ UNCHANGED vars
  <2>1. call' = call /\ access' = access
    BY <1>5 DEF Expire, vars
  <2>2. (~\E r \in Requests : DropRows(r)) /\ (~\E r \in Requests : Create(r))
    <3>1. ASSUME NEW r \in Requests, DropRows(r) \/ Create(r) PROVE FALSE
      <4>1. call'[r].at # call[r].at
        BY <3>1, DropRowsEffect, CreateEffect DEF IInv, At
      <4> QED BY <2>1, <4>1
    <3> QED BY <3>1
  <2>3. Present' = Present
    BY <2>2, PresentStays
  <2> QED BY <1>1, <2>1, <2>3 DEF UndisturbedAt, At
<1> QED BY <1>2, <1>3, <1>4, <1>5 DEF Next, Idle

LEMMA AccessTornHolds == IInv /\ AccessInv => AccessTornDown
<1> SUFFICES ASSUME IInv, AccessInv, deploy.foreignKeys \/ Whole,
                    NEW r \in Requests, At(r, "torn"), NEW a \in access, a.ref # 0,
                    a.by \in call[r].before
             PROVE  FALSE
  BY DEF AccessTornDown, FamilyAccessGone
<1>1. a.ref \in Present
  BY DEF AccessInv, Linked
<1>2. a.ref = call[a.by].child /\ call[a.by].child <= call[r].floor
  BY DEF AccessInv, Minted, Remembered
<1>3. a.ref \in 1..call[r].floor
  BY <1>1, <1>2, RowsDomain DEF Present, IInv, TypeOK, InRange
<1>4. rows[a.ref].state = "gone"
  BY <1>3 DEF IInv, Torn
<1> QED BY <1>1, <1>4 DEF Present

\* A replay and a revocation that were answered have ended everything that was
\* issued before them: the refresh tokens always, the access tokens where there
\* are foreign keys, or no overlap and families that fit into one answer.
THEOREM TornDownHolds == Spec => []TornDown
<1>1. Init => AccessInv /\ FinitelyMany
  BY AccessInit, BusyInit
<1>2. IInv /\ FinitelyMany /\ AccessInv /\ [Next]_vars => AccessInv' /\ FinitelyMany'
  BY BusyNext, MintedNext, RememberedNext, CollectedNext, LinkedNext, AloneNext, UndisturbedNext DEF AccessInv
<1>3. IInv /\ AccessInv => TornDown
  BY AccessTornHolds, RevocationHolds DEF TornDown, IInv, Torn, ReplayTearsDown
<1> QED BY <1>1, <1>2, <1>3, Inductive, PTL DEF Spec

-----------------------------------------------------------------------------
(* Refresh tokens are single-use values *)

Live == {t \in DOMAIN rows : rows[t].state = "live"}
Redeemed == {<<r, Tok(r)>> : r \in {q \in Requests : call[q].cas = "won"}}

LEMMA RedeemedSame ==
  ASSUME \A q \in Requests : Won(q)' = Won(q) /\ (Won(q) => call'[q].tok = call[q].tok)
  PROVE  Redeemed' = Redeemed
BY DEF Redeemed, Won, Tok

\* A step that uses up no token and creates none discards some, or stutters.
LEMMA Discards ==
  ASSUME rows \in Seq(Row), rows' \in Seq(Row), RowsKeep, Redeemed' = Redeemed
  PROVE  Promise!Next
<1>1. DOMAIN rows = 1..Len(rows) /\ DOMAIN rows' = 1..Len(rows')
  BY LenProperties
<1>2. Live' \subseteq Live
  BY <1>1 DEF Live, RowsKeep
<1>3. Len(rows') = Len(rows)
  BY DEF RowsKeep
<1> QED BY <1>2, <1>3 DEF Live, Redeemed, Promise!Next, Promise!Discard

LEMMA RefinesInit == Init => Promise!Init
<1> SUFFICES ASSUME Init PROVE Promise!Init OBVIOUS
<1>1. Len(rows) = 0 /\ DOMAIN rows = {}
  BY EmptySeq DEF Init
<1>2. Redeemed = {}
  BY DEF Init, Redeemed, NoCall
<1> QED BY <1>1, <1>2 DEF Redeemed, Promise!Init

LEMMA RefinesSwap ==
  ASSUME IInv, NEW r \in Requests, Swap(r)
  PROVE  Promise!Next
<1>1. /\ Tok(r) \in 1..Len(rows) /\ ~Won(r) /\ rows \in Seq(Row)
  BY DEF IInv, OnPath, Path, InRange, Presents, Swap, At, Won, TypeOK
<1>2. /\ Others(r) /\ Same(r) /\ rows' \in Seq(Row)
      /\ \/ /\ rows[Tok(r)].state = "live"
            /\ rows' = [rows EXCEPT ![Tok(r)].state = "revoked"]
            /\ call'[r].cas = "won"
         \/ rows' = rows /\ call'[r].cas = "lost"
  BY <1>1, SwapEffect DEF IInv, TypeOK
<1>3. CASE rows' = rows /\ call'[r].cas = "lost"
  <2>1. Redeemed' = Redeemed
    BY <1>1, <1>2, <1>3, RedeemedSame DEF Others, Won
  <2> QED BY <1>1, <1>3, <2>1, Discards DEF RowsKeep
<1>4. CASE /\ rows[Tok(r)].state = "live" /\ call'[r].cas = "won"
           /\ rows' = [rows EXCEPT ![Tok(r)].state = "revoked"]
  <2>1. /\ Len(rows') = Len(rows) /\ rows'[Tok(r)].state = "revoked"
        /\ \A u \in 1..Len(rows) : u # Tok(r) => rows'[u] = rows[u]
    BY <1>1, <1>4, Marked
  <2>2. DOMAIN rows = 1..Len(rows) /\ DOMAIN rows' = 1..Len(rows)
    BY <1>1, <1>2, <2>1, LenProperties
  <2>3. Tok(r) \in Live /\ Live' = Live \ {Tok(r)}
    BY <1>1, <1>4, <2>1, <2>2 DEF Live
  <2>4. Redeemed' = Redeemed \cup {<<r, Tok(r)>>}
    <3>1. ASSUME NEW q \in Requests
          PROVE  /\ call'[q].tok = call[q].tok
                 /\ (call'[q].cas = "won") <=> (call[q].cas = "won" \/ q = r)
      BY <1>2, <1>4 DEF Others, Same
    <3> QED BY <3>1 DEF Redeemed, Tok
  <2>5. PICK g \in {t \in DOMAIN rows : rows[t].state = "live"} : g = Tok(r)
    BY <2>3 DEF Live
  <2>6. Promise!Redeem(r, g)
    BY <2>1, <2>3, <2>4, <2>5 DEF Live, Redeemed, Promise!Redeem
  <2> QED BY <2>6 DEF Promise!Next
<1> QED BY <1>2, <1>3, <1>4

LEMMA RefinesCreate ==
  ASSUME IInv, NEW r \in Requests, Create(r)
  PROVE  Promise!Next
<1>1. /\ rows' \in Seq(Row) /\ Others(r) /\ Same(r) /\ call'[r].cas = call[r].cas
      /\ Len(rows') = Len(rows) + 1
      /\ \A t \in 1..Len(rows) : rows'[t] = rows[t]
      /\ rows'[Len(rows) + 1].state = "live"
  BY CreateEffect DEF IInv, TypeOK
<1>2. rows \in Seq(Row) /\ Len(rows) \in Nat
  BY RowsDomain DEF IInv, TypeOK
<1>3. DOMAIN rows = 1..Len(rows) /\ DOMAIN rows' = 1..(Len(rows) + 1)
  BY <1>1, <1>2, LenProperties
<1>4. Live' \subseteq Live \cup {Len(rows) + 1}
  BY <1>1, <1>2, <1>3 DEF Live
<1>5. Redeemed' = Redeemed
  BY <1>1, RedeemedSame DEF Others, Same, Won
<1> QED BY <1>1, <1>4, <1>5 DEF Live, Redeemed, Promise!Next, Promise!Issue

LEMMA RefinesStep ==
  ASSUME IInv, NEW r \in Requests, Step(r)
  PROVE  Promise!Next
<1>1. TypeOK /\ rows \in Seq(Row)
  BY DEF IInv, TypeOK
<1>2. CASE Swap(r)
  BY <1>2, RefinesSwap
<1>3. CASE Create(r)
  BY <1>3, RefinesCreate
<1>4. CASE Find(r) \/ Mint(r) \/ Abandon(r) \/ Clear(r) \/ Collect(r) \/ DropAccess(r)
  <2>1. Keeps(r) /\ rows' = rows
    BY <1>1, <1>4, FindEffect, MintEffect, AbandonEffect, ClearEffect, CollectEffect,
       DropAccessEffect
  <2>2. Redeemed' = Redeemed
    BY <2>1, RedeemedSame DEF Keeps, Others, Same, Won
  <2> QED BY <1>1, <2>1, <2>2, Discards DEF RowsKeep
<1>5. CASE DropRows(r)
  <2>1. /\ Keeps(r) /\ rows' \in Seq(Row) /\ Len(rows') = Len(rows)
        /\ \A t \in 1..Len(rows) : rows'[t].state = "gone" /\ rows'[t].parent = rows[t].parent
    BY <1>1, <1>5, DropRowsEffect DEF TypeOK
  <2>2. Redeemed' = Redeemed
    BY <2>1, RedeemedSame DEF Keeps, Others, Same, Won
  <2> QED BY <1>1, <2>1, <2>2, Discards DEF RowsKeep
<1> QED BY <1>2, <1>3, <1>4, <1>5 DEF Step

LEMMA RefinesNext == IInv /\ [Next]_vars => [Promise!Next]_Promise!vars
<1> SUFFICES ASSUME IInv, [Next]_vars PROVE [Promise!Next]_Promise!vars OBVIOUS
<1>1. TypeOK /\ rows \in Seq(Row)
  BY DEF IInv, TypeOK
<1>2. CASE \E r \in Requests : \E op \in deploy.ops[r] : Start(r, op)
  <2>1. PICK r \in Requests : \E op \in deploy.ops[r] : Start(r, op)
    BY <1>2
  <2>2. rows' = rows /\ Others(r) /\ At(r, "idle") /\ call'[r].cas = "none"
    BY <1>1, <2>1, StartEffect
  <2>3. call[r].cas = "none"
    BY <2>2 DEF IInv, OnPath, Path, At
  <2>4. Redeemed' = Redeemed
    BY <2>2, <2>3, RedeemedSame DEF Others, Won
  <2> QED BY <1>1, <2>2, <2>4, Discards DEF RowsKeep
<1>3. CASE \E r \in Requests : Step(r)
  BY <1>3, RefinesStep
<1>4. CASE \E r \in Requests : Fail(r)
  <2>1. PICK r \in Requests : Keeps(r) /\ rows' = rows
    BY <1>1, <1>4, FailEffect
  <2>2. Redeemed' = Redeemed
    BY <2>1, RedeemedSame DEF Keeps, Others, Same, Won
  <2> QED BY <1>1, <2>1, <2>2, Discards DEF RowsKeep
<1>5. CASE \E t \in DOMAIN rows : Expire(t)
  <2>1. PICK t \in DOMAIN rows : Expire(t)
    BY <1>5
  <2>2. /\ rows' \in Seq(Row) /\ call' = call /\ Len(rows') = Len(rows)
        /\ \A u \in 1..Len(rows) : rows'[u].state = rows[u].state /\ rows'[u].parent = rows[u].parent
    BY <1>1, <2>1, ExpireEffect DEF TypeOK
  <2>3. Redeemed' = Redeemed
    BY <2>2, RedeemedSame DEF Won
  <2> QED BY <1>1, <2>2, <2>3, Discards DEF RowsKeep
<1>6. CASE UNCHANGED vars
  <2>1. call' = call /\ rows' = rows
    BY <1>6 DEF vars
  <2>2. Redeemed' = Redeemed
    BY <2>1, RedeemedSame DEF Won
  <2> QED BY <1>1, <2>1, <2>2, Discards DEF RowsKeep
<1> QED BY <1>2, <1>3, <1>4, <1>5, <1>6 DEF Next, Idle

\* Refresh tokens are single-use values: whatever races with what, at most one
\* request uses one up, and it never becomes usable again.
THEOREM Implements == Spec => ImplementsSingleUse
<1>1. Init => Promise!Init
  BY RefinesInit
<1>2. IInv /\ [Next]_vars => [Promise!Next]_Promise!vars
  BY RefinesNext
<1> QED BY <1>1, <1>2, Inductive, PTL DEF Spec, ImplementsSingleUse, Promise!Spec
=============================================================================
