---------------------------- MODULE SignInProofs ----------------------------
(***************************************************************************)
(* Proofs about the second factor and the way into an account, two of the  *)
(* components of Factors. Of TwoFactor: that the budgets hold, that a      *)
(* factor is used once, and that a lock stays. Of AccountAccess: that an   *)
(* account that somebody has proved is theirs alone, and that a reset ends *)
(* what an old password opened.                                            *)
(***************************************************************************)
EXTENDS FactorsProofs

-----------------------------------------------------------------------------
(* The two-factor plugin. An attempt takes the counter of its challenge, or   *)
(* the OTP, away before it compares, and only the request that took it can    *)
(* put it back, with one failure more; so what is stored, or held, covers     *)
(* every comparison. A row counts the failures in a row of its id, and the    *)
(* codes of a row are of a number that no other row has.                      *)

FactorTyped ==
  /\ TF!TypeOK
  /\ guessed \in [Challenges -> Nat] /\ tried \in [TF!Keys -> [TF!Ids -> Nat]]
  /\ redeemed \in [TF!AllCodes -> Nat] /\ tSessions \in [Challenges -> Nat]
  /\ streak \in [TF!Ids -> Nat]
\* The places that only a sign-in reaches, and what is known there.
FactorPath(r) == LET c == tCall[r] IN
  /\ c.op = "none" <=> c.at = "idle"
  /\ c.at \in {"cancel", "restore", "count", "lockdown", "reset", "burn", "session"} =>
       c.key \in Challenges
  /\ c.at = "restore" => c.op # "otp"
  /\ c.at = "rearm" => c.op = "otp" \/ c.key \in Challenges
  /\ c.at = "cas" => c.guess \in c.row.codes
FactorBase == FactorTyped /\ \A r \in Requests : FactorPath(r)

\* The challenge is consumed before its session is made, by one request.
FactorPassed ==
  /\ \A k \in Challenges : tSessions[k] <= 1 /\ (k \in challenge => tSessions[k] = 0)
  /\ \A r \in Requests : tCall[r].at = "session" =>
       tCall[r].key \notin challenge /\ tSessions[tCall[r].key] = 0
  /\ \A q, r \in Requests :
       tCall[q].at = "session" /\ tCall[r].at = "session" /\ tCall[q].key = tCall[r].key => q = r

\* The counter of a challenge, stored or held, covers the codes that were compared.
FactorHolds(r) == tCall[r].at = "restore" \/ (tCall[r].at = "rearm" /\ tCall[r].op # "otp")
FactorCounts ==
  /\ \A k \in Challenges :
       guessed[k] <= Allowed /\ (budget[k] # TF!None => guessed[k] <= budget[k])
  /\ \A r \in Requests : FactorHolds(r) =>
       /\ budget[tCall[r].key] = TF!None /\ tCall[r].n < Allowed
       /\ guessed[tCall[r].key] <= tCall[r].n + 1
       /\ tCall[r].at = "restore" => guessed[tCall[r].key] <= tCall[r].n
  /\ \A q, r \in Requests :
       FactorHolds(q) /\ FactorHolds(r) /\ tCall[q].key = tCall[r].key => q = r

\* So does an OTP, of the codes that were compared with it.
FactorHoldsOtp(r) == tCall[r].at = "rearm" /\ tCall[r].op = "otp"
FactorTries ==
  /\ \A k \in TF!Keys :
       /\ otp[k].code <= tMade /\ (otp[k].code = 0 => otp[k] = TF!NoOtp)
       /\ otp[k].code # 0 => tried[k][otp[k].code] <= otp[k].n
       /\ \A i \in TF!Ids : tried[k][i] <= Allowed /\ (i > tMade => tried[k][i] = 0)
  /\ \A r \in Requests : FactorHoldsOtp(r) =>
       /\ tCall[r].code \in 1..tMade /\ tCall[r].n < Allowed
       /\ tried[tCall[r].key][tCall[r].code] <= tCall[r].n + 1
       /\ otp[tCall[r].key].code # tCall[r].code
  /\ \A q, r \in Requests :
       /\ FactorHoldsOtp(q) /\ FactorHoldsOtp(r)
       /\ tCall[q].key = tCall[r].key /\ tCall[q].code = tCall[r].code
       => q = r

\* A row is known by its number, counts the failures in a row, and is locked for a time.
FactorRows ==
  /\ \A x \in tRows : /\ x.id \in 1..tMade /\ x.count = streak[x.id]
                      /\ x.lockedUntil <= tNow + LockFor
  /\ \A x, y \in tRows : x.id = y.id => x = y
  /\ \A i \in TF!Ids : i > tMade => streak[i] = 0
  /\ \A r \in Requests : tCall[r].from # "idle" => tCall[r].at = "failed"
  /\ TF!LockEngages

\* The codes of a row are its own, and were not accepted before.
FactorCodes ==
  /\ \A x \in tRows : \A b \in x.codes : b <= 2 * tMade + 1 /\ redeemed[b] = 0
  /\ \A x, y \in tRows : \A b \in x.codes : b \in y.codes => x = y
  /\ \A b \in TF!AllCodes : redeemed[b] <= 1 /\ (b > 2 * tMade + 1 => redeemed[b] = 0)

\* While nobody disables it, what enrols a factor comes after the account is enabled.
FactorCareful == \A r \in Requests : tCall[r].op # "disable"
FactorEnrolled ==
  /\ ~tDeploy.verified => \A x \in tRows : x.verified => enabled
  /\ \A r \in Requests :
       /\ ~tDeploy.verified /\ tCall[r].row.verified => enabled
       /\ tCall[r].user => enabled
       /\ tCall[r].at \notin {"turnOff", "drop"}
       /\ tCall[r].at = "mark" => enabled
       /\ tCall[r].op = "enable" /\ tDeploy.skip /\ tCall[r].at \in {"find", "wipe", "create"} =>
            enabled
       /\ tCall[r].at = "find" => tCall[r].op = "enable"
       /\ tCall[r].at \in {"wipe", "create"} => tCall[r].op = "enable"
FactorEnrols == FactorCareful => FactorEnrolled

FactorInv == FactorBase /\ FactorPassed /\ FactorCounts /\ FactorTries /\ FactorRows
               /\ FactorCodes /\ FactorEnrols

LEMMA FactorDeployTyped ==
  ASSUME tDeploy \in Enrolments
  PROVE  /\ tDeploy.ops \in [Requests -> SUBSET TF!AllOps] /\ tDeploy.keys \subseteq TF!Keys
         /\ tDeploy.enabled \in BOOLEAN /\ tDeploy.verified \in BOOLEAN
         /\ tDeploy.sent \in BOOLEAN /\ tDeploy.skip \in BOOLEAN
         /\ tDeploy.maxFailed \in Nat \ {0} /\ tDeploy.maxTime \in Nat
         /\ Account \notin Challenges /\ Allowed \in Nat /\ LockFor \in Nat
         /\ MaxMade \in Nat /\ MaxMade >= 2
  BY FactorsAssumption DEF TF!ConstantsOK, TF!Deployment

-----------------------------------------------------------------------------
(* What a step does, without the records it is written with. *)

FactorTo(r, pc, u, x, n, k) ==
  /\ tCall'[r].at = pc /\ tCall'[r].user = u /\ tCall'[r].row = x
  /\ tCall'[r].n = n /\ tCall'[r].code = k /\ tCall'[r].from = tCall[r].from
FactorGoes(r, pc) ==
  FactorTo(r, pc, tCall[r].user, tCall[r].row, tCall[r].n, tCall[r].code)
FactorOthers(r) ==
  /\ \A q \in Requests : q # r => tCall'[q] = tCall[q]
  /\ tCall'[r].op = tCall[r].op /\ tCall'[r].key = tCall[r].key
  /\ tCall'[r].guess = tCall[r].guess
  \* It is typed as far as what changed is.
  /\ LET c == tCall'[r] IN
       /\ c.at \in TF!Steps \cup TF!Ended /\ c.user \in BOOLEAN /\ c.row \in TF!Row
       /\ c.n \in Nat /\ c.code \in Nat
       => tCall' \in [Requests -> TF!Call]

\* What stays as it is: everything but the request, but the rows, or but the store.
FactorStore == UNCHANGED <<challenge, budget, otp, guessed, tried>>
FactorFixed == UNCHANGED <<tDeploy, tNow>>
FactorKept == UNCHANGED <<tRows, enabled, redeemed, streak>>
FactorRead == FactorStore /\ FactorFixed /\ FactorKept /\ tMade' = tMade /\ tSessions' = tSessions
FactorStored == FactorFixed /\ FactorKept /\ tMade' = tMade /\ tSessions' = tSessions
FactorEdited == FactorStore /\ FactorFixed /\ tSessions' = tSessions

FactorRow(i, codes, count, until, v) ==
  [id |-> i, codes |-> codes, count |-> count, lockedUntil |-> until, verified |-> v]
FactorMine(r, x) == x.id = tCall[r].row.id
FactorCleared(x) == FactorRow(x.id, x.codes, 0, TF!None, x.verified)

FactorOpens(r) ==
  /\ tCall[r].at = "open" /\ FactorRead
  /\ \E pc \in {"rejected", "make", "begin", "load"} :
       FactorTo(r, pc, enabled, tCall[r].row, tCall[r].n, tCall[r].code)
FactorLoads(r) ==
  /\ tCall[r].at = "load" /\ FactorRead
  /\ \/ FactorGoes(r, "rejected")
     \/ \E x \in tRows, pc \in {"rewrite", "begin", "rejected", "unlock"} :
          FactorTo(r, pc, tCall[r].user, x, tCall[r].n, tCall[r].code)
FactorUnlocks(r) ==
  /\ tCall[r].at = "unlock" /\ FactorGoes(r, "begin")
  /\ FactorEdited /\ UNCHANGED <<enabled, tMade, redeemed>>
  /\ \E xs \in SUBSET tRows :
       /\ \A x \in xs : FactorMine(r, x) /\ ~TF!Locked(x)
       /\ tRows' = {IF x \in xs THEN FactorCleared(x) ELSE x : x \in tRows}
       /\ streak' = [i \in TF!Ids |-> IF \E x \in xs : x.id = i THEN 0 ELSE streak[i]]
FactorAccepts(r, pc) ==
  /\ pc \in {"cas", "reset", "ok", "mark", "turnOn"}
  /\ pc = "reset" => tCall[r].key \in Challenges
  /\ pc = "cas" => tCall[r].guess \in tCall[r].row.codes
  /\ pc = "mark" => tCall[r].user
FactorChecks(r) ==
  /\ tCall[r].at = "begin" /\ FactorRead
  /\ \E pc : (pc = "rejected" \/ FactorAccepts(r, pc)) /\ FactorGoes(r, pc)
FactorBegins(r) ==
  /\ tCall[r].at = "begin" /\ tCall[r].op # "otp" /\ tCall[r].key \in Challenges
  /\ FactorStored /\ UNCHANGED <<challenge, otp, tried>>
  /\ budget' = [budget EXCEPT ![tCall[r].key] = TF!None]
  /\ \/ guessed' = guessed /\ \E pc \in {"rejected", "cancel"} : FactorGoes(r, pc)
     \/ /\ budget[tCall[r].key] # TF!None /\ budget[tCall[r].key] < Allowed
        /\ \E pc :
             /\ FactorTo(r, pc, tCall[r].user, tCall[r].row, budget[tCall[r].key], tCall[r].code)
             /\ \/ pc = "restore" /\ guessed' = guessed
                \/ /\ pc = "rearm" \/ FactorAccepts(r, pc)
                   /\ guessed' = [guessed EXCEPT ![tCall[r].key] = @ + 1]
FactorCancels(r) ==
  /\ tCall[r].at = "cancel" /\ FactorGoes(r, "rejected")
  /\ FactorStored /\ UNCHANGED <<budget, otp, guessed, tried>>
  /\ challenge' \in {challenge \ {tCall[r].key}, challenge}
FactorTakes(r) ==
  /\ tCall[r].at = "begin" /\ tCall[r].op = "otp"
  /\ FactorStored /\ UNCHANGED <<challenge, budget, guessed>>
  /\ otp' = [otp EXCEPT ![tCall[r].key] = TF!NoOtp]
  /\ \/ FactorGoes(r, "rejected") /\ tried' = tried
     \/ /\ otp[tCall[r].key] # TF!NoOtp /\ otp[tCall[r].key].n < Allowed
        /\ tried' = [tried EXCEPT ![tCall[r].key][otp[tCall[r].key].code] = @ + 1]
        /\ \E pc :
             /\ FactorTo(r, pc, tCall[r].user, tCall[r].row,
                         otp[tCall[r].key].n, otp[tCall[r].key].code)
             /\ pc = "rearm" \/ (pc \in {"reset", "ok", "turnOn"} /\ FactorAccepts(r, pc))
FactorRestores(r) ==
  /\ tCall[r].at = "restore" /\ FactorGoes(r, "rejected")
  /\ FactorStored /\ UNCHANGED <<challenge, otp, guessed, tried>>
  /\ budget' \in {[budget EXCEPT ![tCall[r].key] = tCall[r].n], budget}
FactorRearms(r) ==
  /\ tCall[r].at = "rearm" /\ FactorStored /\ UNCHANGED <<challenge, guessed, tried>>
  /\ \/ /\ tCall[r].op = "otp" /\ budget' = budget
        /\ otp' = [otp EXCEPT ![tCall[r].key] = [code |-> tCall[r].code, n |-> tCall[r].n + 1]]
     \/ /\ tCall[r].op # "otp" /\ otp' = otp
        /\ budget' \in {[budget EXCEPT ![tCall[r].key] = tCall[r].n + 1], budget}
  /\ \/ tCall[r].key \in Challenges /\ FactorGoes(r, "count")
     \/ FactorGoes(r, "rejected")
FactorFails(r) ==
  /\ tCall[r].at = "count" /\ FactorEdited /\ UNCHANGED <<enabled, tMade, redeemed>>
  /\ tRows' = {IF FactorMine(r, x)
                 THEN FactorRow(x.id, x.codes, x.count + 1, x.lockedUntil, x.verified) ELSE x
                 : x \in tRows}
  /\ streak' = [i \in TF!Ids |-> IF \E x \in tRows : FactorMine(r, x) /\ x.id = i
                                   THEN streak[i] + 1 ELSE streak[i]]
  /\ \/ FactorGoes(r, "lockdown")
     \/ /\ \A x \in tRows : FactorMine(r, x) => x.count + 1 < tDeploy.maxFailed
        /\ FactorGoes(r, "rejected")
FactorLocks(r) ==
  /\ tCall[r].at = "lockdown" /\ FactorGoes(r, "rejected")
  /\ FactorEdited /\ UNCHANGED <<enabled, tMade, redeemed, streak>>
  /\ tRows' = {IF FactorMine(r, x)
                 THEN FactorRow(x.id, x.codes, x.count, tNow + LockFor, x.verified) ELSE x
                 : x \in tRows}
FactorCrosses(r) ==
  /\ tCall[r].at = "cas" /\ FactorEdited /\ UNCHANGED <<enabled, tMade, streak>>
  /\ \/ FactorGoes(r, "conflict") /\ UNCHANGED <<tRows, redeemed>>
     \/ /\ \E x \in tRows : FactorMine(r, x) /\ x.codes = tCall[r].row.codes
        /\ tRows' = {IF FactorMine(r, x) /\ x.codes = tCall[r].row.codes
                       THEN FactorRow(x.id, x.codes \ {tCall[r].guess}, x.count,
                                      x.lockedUntil, x.verified) ELSE x
                       : x \in tRows}
        /\ redeemed' = [redeemed EXCEPT ![tCall[r].guess] = @ + 1]
        /\ \/ tCall[r].key \in Challenges /\ FactorGoes(r, "reset")
           \/ FactorGoes(r, "ok")
FactorResets(r) ==
  /\ tCall[r].at = "reset" /\ FactorEdited /\ UNCHANGED <<enabled, tMade, redeemed>>
  /\ tRows' = {IF FactorMine(r, x) THEN FactorCleared(x) ELSE x : x \in tRows}
  /\ streak' = [i \in TF!Ids |-> IF \E x \in tRows : FactorMine(r, x) /\ x.id = i
                                   THEN 0 ELSE streak[i]]
  /\ \E pc \in {"rejected", "burn", "ok"} : FactorGoes(r, pc)
FactorBurns(r) ==
  /\ tCall[r].at = "burn" /\ FactorStored /\ UNCHANGED <<budget, otp, guessed, tried>>
  /\ challenge' = challenge \ {tCall[r].key}
  /\ \/ tCall[r].key \in challenge /\ FactorGoes(r, "session")
     \/ FactorGoes(r, "rejected")
FactorSignsIn(r) ==
  /\ tCall[r].at = "session" /\ FactorGoes(r, "ok")
  /\ FactorStore /\ FactorFixed /\ FactorKept /\ tMade' = tMade
  /\ tSessions' = [tSessions EXCEPT ![tCall[r].key] = @ + 1]
FactorTurnsOn(r) ==
  /\ tCall[r].at = "turnOn" /\ FactorEdited /\ UNCHANGED <<tRows, tMade, redeemed, streak>>
  /\ enabled' = TRUE
  /\ \/ tCall[r].op = "enable" /\ FactorGoes(r, "find")
     \/ \E pc \in {"mark", "ok"} : FactorGoes(r, pc)
FactorMarks(r) ==
  /\ tCall[r].at = "mark" /\ FactorGoes(r, "ok")
  /\ FactorEdited /\ UNCHANGED <<enabled, tMade, redeemed, streak>>
  /\ tRows' = {IF FactorMine(r, x)
                 THEN FactorRow(x.id, x.codes, x.count, x.lockedUntil, TRUE) ELSE x : x \in tRows}
FactorMakes(r) ==
  /\ tCall[r].at = "make" /\ FactorGoes(r, "ok") /\ tMade < MaxMade /\ tMade' = tMade + 1
  /\ FactorFixed /\ FactorKept /\ UNCHANGED <<challenge, budget, guessed, tried, tSessions>>
  /\ otp' = [otp EXCEPT ![tCall[r].key] = [code |-> tMade + 1, n |-> 0]]
FactorRewrites(r) ==
  /\ tCall[r].at = "rewrite" /\ FactorGoes(r, "ok") /\ tMade < MaxMade /\ tMade' = tMade + 1
  /\ FactorEdited /\ UNCHANGED <<enabled, redeemed, streak>>
  /\ tRows' = {IF FactorMine(r, x)
                 THEN FactorRow(x.id, TF!CodesOf(tMade + 1), x.count, x.lockedUntil, x.verified)
                 ELSE x : x \in tRows}
FactorFinds(r) ==
  /\ tCall[r].at = "find" /\ FactorRead
  /\ \E x \in tRows \cup {TF!NoRow} :
       FactorTo(r, "wipe", tCall[r].user, x, tCall[r].n, tCall[r].code)
FactorWipes(r) ==
  /\ tRows' = {} /\ FactorEdited /\ UNCHANGED <<enabled, tMade, redeemed, streak>>
  /\ \/ tCall[r].at = "wipe" /\ FactorGoes(r, "create")
     \/ tCall[r].at = "drop" /\ FactorGoes(r, "ok")
FactorCreates(r) ==
  /\ tCall[r].at = "create" /\ FactorGoes(r, "ok") /\ tMade < MaxMade /\ tMade' = tMade + 1
  /\ FactorEdited /\ UNCHANGED <<enabled, redeemed, streak>>
  /\ tRows' = tRows \cup {FactorRow(tMade + 1, TF!CodesOf(tMade + 1), 0, TF!None,
                                    tCall[r].row.verified \/ tDeploy.skip)}
FactorTurnsOff(r) ==
  /\ tCall[r].at = "turnOff" /\ FactorGoes(r, "drop")
  /\ FactorEdited /\ UNCHANGED <<tRows, tMade, redeemed, streak>>
  /\ enabled' = FALSE
FactorProves(r) ==
  \/ FactorOpens(r) \/ FactorLoads(r) \/ FactorUnlocks(r) \/ FactorChecks(r)
  \/ FactorBegins(r) \/ FactorCancels(r) \/ FactorTakes(r) \/ FactorRestores(r)
FactorSettles(r) ==
  \/ FactorRearms(r) \/ FactorFails(r) \/ FactorLocks(r) \/ FactorCrosses(r) \/ FactorResets(r)
  \/ FactorBurns(r) \/ FactorSignsIn(r) \/ FactorTurnsOn(r) \/ FactorMarks(r)
FactorAdministers(r) ==
  \/ FactorMakes(r) \/ FactorRewrites(r) \/ FactorFinds(r) \/ FactorWipes(r)
  \/ FactorCreates(r) \/ FactorTurnsOff(r)
FactorStep(r) == FactorProves(r) \/ FactorSettles(r) \/ FactorAdministers(r)

LEMMA FactorFields ==
  ASSUME FactorTyped, NEW r \in Requests, NEW pc, NEW u, NEW x, NEW n, NEW k
  PROVE  /\ TF!Goto(r, pc) => FactorOthers(r) /\ FactorGoes(r, pc)
         /\ TF!Become(r, [tCall[r] EXCEPT !.at = pc, !.user = u]) =>
              FactorOthers(r) /\ FactorTo(r, pc, u, tCall[r].row, tCall[r].n, tCall[r].code)
         /\ TF!Become(r, [tCall[r] EXCEPT !.at = pc, !.row = x]) =>
              FactorOthers(r) /\ FactorTo(r, pc, tCall[r].user, x, tCall[r].n, tCall[r].code)
         /\ TF!Become(r, [tCall[r] EXCEPT !.at = pc, !.n = n]) =>
              FactorOthers(r) /\ FactorTo(r, pc, tCall[r].user, tCall[r].row, n, tCall[r].code)
         /\ TF!Become(r, [tCall[r] EXCEPT !.at = pc, !.n = n, !.code = k]) =>
              FactorOthers(r) /\ FactorTo(r, pc, tCall[r].user, tCall[r].row, n, k)
<1>0. tCall \in [Requests -> TF!Call] /\ tCall[r] \in TF!Call
  BY DEF FactorTyped, TF!TypeOK
<1> DEFINE D(u1, x1, n1, k1) ==
             [op |-> tCall[r].op, at |-> pc, from |-> tCall[r].from, key |-> tCall[r].key,
              guess |-> tCall[r].guess, row |-> x1, user |-> u1, n |-> n1, code |-> k1]
           g == [tCall[r] EXCEPT !.at = pc]
<1>1. ASSUME NEW u1, NEW x1, NEW n1, NEW k1, TF!Become(r, D(u1, x1, n1, k1))
      PROVE  FactorOthers(r) /\ FactorTo(r, pc, u1, x1, n1, k1)
  <2> DEFINE c == D(u1, x1, n1, k1)
  <2>1. /\ c.at = pc /\ c.user = u1 /\ c.row = x1 /\ c.n = n1 /\ c.code = k1
        /\ c.from = tCall[r].from /\ c.op = tCall[r].op /\ c.key = tCall[r].key
        /\ c.guess = tCall[r].guess
    OBVIOUS
  <2>2. ASSUME pc \in TF!Steps \cup TF!Ended, u1 \in BOOLEAN, x1 \in TF!Row, n1 \in Nat, k1 \in Nat
        PROVE  c \in TF!Call
    <3>1. /\ tCall[r].op \in TF!AllOps \cup {"none"} /\ tCall[r].key \in TF!Keys
          /\ tCall[r].from \in {"idle"} \cup TF!Steps /\ tCall[r].guess \in TF!Guesses
      BY <1>0 DEF TF!Call
    <3>2. pc \in {"idle"} \cup TF!Steps \cup TF!Ended
      BY <2>2
    <3> QED BY <2>2, <3>1, <3>2 DEF TF!Call
  <2> HIDE DEF c
  <2>4. /\ tCall'[r] = c /\ \A q \in Requests : q # r => tCall'[q] = tCall[q]
        /\ c \in TF!Call => tCall' \in [Requests -> TF!Call]
    BY <1>0, <1>1 DEF TF!Become, c
  <2> QED BY <2>1, <2>2, <2>4 DEF FactorOthers, FactorTo
<1>2. g = D(tCall[r].user, tCall[r].row, tCall[r].n, tCall[r].code)
  BY <1>0 DEF TF!Call
<1>3. [tCall[r] EXCEPT !.at = pc, !.user = u] = D(u, tCall[r].row, tCall[r].n, tCall[r].code)
  <2>1. [tCall[r] EXCEPT !.at = pc, !.user = u] = [g EXCEPT !.user = u]
    BY <1>0 DEF TF!Call
  <2> HIDE DEF g
  <2> QED BY <1>2, <2>1
<1>4. [tCall[r] EXCEPT !.at = pc, !.row = x] = D(tCall[r].user, x, tCall[r].n, tCall[r].code)
  <2>1. [tCall[r] EXCEPT !.at = pc, !.row = x] = [g EXCEPT !.row = x]
    BY <1>0 DEF TF!Call
  <2> HIDE DEF g
  <2> QED BY <1>2, <2>1
<1>5. [tCall[r] EXCEPT !.at = pc, !.n = n] = D(tCall[r].user, tCall[r].row, n, tCall[r].code)
  <2>1. [tCall[r] EXCEPT !.at = pc, !.n = n] = [g EXCEPT !.n = n]
    BY <1>0 DEF TF!Call
  <2> HIDE DEF g
  <2> QED BY <1>2, <2>1
<1>6. [tCall[r] EXCEPT !.at = pc, !.n = n, !.code = k] =
        D(tCall[r].user, tCall[r].row, n, k)
  <2> DEFINE h == [tCall[r] EXCEPT !.at = pc, !.n = n]
  <2>1. [tCall[r] EXCEPT !.at = pc, !.n = n, !.code = k] = [h EXCEPT !.code = k]
    BY <1>0 DEF TF!Call
  <2> HIDE DEF h
  <2>2. h = D(tCall[r].user, tCall[r].row, n, tCall[r].code)
    BY <1>5 DEF h
  <2> QED BY <2>1, <2>2
<1> HIDE DEF D
<1>7. TF!Goto(r, pc) => FactorOthers(r) /\ FactorGoes(r, pc)
  BY <1>1, <1>2 DEF TF!Goto, FactorGoes
<1>8. TF!Become(r, [tCall[r] EXCEPT !.at = pc, !.user = u]) =>
        FactorOthers(r) /\ FactorTo(r, pc, u, tCall[r].row, tCall[r].n, tCall[r].code)
  BY <1>1, <1>3
<1>9. TF!Become(r, [tCall[r] EXCEPT !.at = pc, !.row = x]) =>
        FactorOthers(r) /\ FactorTo(r, pc, tCall[r].user, x, tCall[r].n, tCall[r].code)
  BY <1>1, <1>4
<1>10. TF!Become(r, [tCall[r] EXCEPT !.at = pc, !.n = n]) =>
         FactorOthers(r) /\ FactorTo(r, pc, tCall[r].user, tCall[r].row, n, tCall[r].code)
  BY <1>1, <1>5
<1>11. TF!Become(r, [tCall[r] EXCEPT !.at = pc, !.n = n, !.code = k]) =>
         FactorOthers(r) /\ FactorTo(r, pc, tCall[r].user, tCall[r].row, n, k)
  BY <1>1, <1>6
<1> QED BY <1>7, <1>8, <1>9, <1>10, <1>11

\* The rows that are written are those there were, with what was changed.
LEMMA FactorRowIs ==
  ASSUME NEW x \in TF!Row
  PROVE  /\ [x EXCEPT !.count = 0, !.lockedUntil = TF!None] = FactorCleared(x)
         /\ [x EXCEPT !.count = @ + 1] =
              FactorRow(x.id, x.codes, x.count + 1, x.lockedUntil, x.verified)
         /\ \A t : [x EXCEPT !.lockedUntil = t] =
                     FactorRow(x.id, x.codes, x.count, t, x.verified)
         /\ \A b : [x EXCEPT !.codes = @ \ {b}] =
                     FactorRow(x.id, x.codes \ {b}, x.count, x.lockedUntil, x.verified)
         /\ \A S : [x EXCEPT !.codes = S] =
                     FactorRow(x.id, S, x.count, x.lockedUntil, x.verified)
         /\ [x EXCEPT !.verified = TRUE] =
              FactorRow(x.id, x.codes, x.count, x.lockedUntil, TRUE)
<1>1. ASSUME NEW n, NEW t
      PROVE  [x EXCEPT !.count = n, !.lockedUntil = t] = FactorRow(x.id, x.codes, n, t, x.verified)
  <2> DEFINE y == [x EXCEPT !.count = n]
  <2>1. y = FactorRow(x.id, x.codes, n, x.lockedUntil, x.verified)
    BY DEF TF!Row, FactorRow
  <2>2. [x EXCEPT !.count = n, !.lockedUntil = t] = [y EXCEPT !.lockedUntil = t]
    BY DEF TF!Row
  <2> HIDE DEF y
  <2> QED BY <2>1, <2>2 DEF FactorRow
<1>2. [x EXCEPT !.count = @ + 1] =
        FactorRow(x.id, x.codes, x.count + 1, x.lockedUntil, x.verified)
  BY DEF TF!Row, FactorRow
<1>3. ASSUME NEW t
      PROVE  [x EXCEPT !.lockedUntil = t] = FactorRow(x.id, x.codes, x.count, t, x.verified)
  BY DEF TF!Row, FactorRow
<1>4. ASSUME NEW b
      PROVE  [x EXCEPT !.codes = @ \ {b}] =
               FactorRow(x.id, x.codes \ {b}, x.count, x.lockedUntil, x.verified)
  BY DEF TF!Row, FactorRow
<1>5. ASSUME NEW S
      PROVE  [x EXCEPT !.codes = S] = FactorRow(x.id, S, x.count, x.lockedUntil, x.verified)
  BY DEF TF!Row, FactorRow
<1>6. ASSUME NEW v
      PROVE  [x EXCEPT !.verified = v] = FactorRow(x.id, x.codes, x.count, x.lockedUntil, v)
  BY DEF TF!Row, FactorRow
<1>7. [x EXCEPT !.count = 0, !.lockedUntil = TF!None] = FactorCleared(x)
  BY <1>1 DEF FactorCleared
<1>8. [x EXCEPT !.verified = TRUE] = FactorRow(x.id, x.codes, x.count, x.lockedUntil, TRUE)
  BY <1>6
<1> QED BY <1>2, <1>3, <1>4, <1>5, <1>7, <1>8

\* What is accepted goes on by its kind.
LEMMA FactorAccepting ==
  ASSUME FactorTyped, NEW r \in Requests,
         TF!Op(r) = "backup" => tCall[r].guess \in tCall[r].row.codes
  PROVE  /\ FactorAccepts(r, TF!Accepted(r))
         /\ TF!Op(r) = "otp" => TF!Accepted(r) \in {"reset", "ok", "turnOn"}
<1>1. tCall[r].key \in TF!Keys /\ tCall[r].user \in BOOLEAN
  BY DEF FactorTyped, TF!TypeOK, TF!Call
<1> QED BY <1>1 DEF FactorAccepts, TF!Accepted, TF!Op, TF!IsSignIn, TF!Key, TF!Keys

LEMMA FactorProving ==
  ASSUME FactorTyped, NEW r \in Requests, TF!Prove(r)
  PROVE  FactorOthers(r) /\ FactorProves(r)
<1>t. /\ tCall[r].key \in TF!Keys /\ budget \in [Challenges -> Nat \cup {TF!None}]
      /\ tRows \subseteq TF!Row /\ Allowed \in Nat /\ otp \in [TF!Keys -> [code : Nat, n : Nat]]
      /\ tDeploy \in Enrolments
  BY FactorsAssumption DEF FactorTyped, TF!TypeOK, TF!Call, TF!ConstantsOK
<1>f. \A pc, u, x, n, k :
        /\ TF!Goto(r, pc) => FactorOthers(r) /\ FactorGoes(r, pc)
        /\ TF!Become(r, [tCall[r] EXCEPT !.at = pc, !.user = u]) =>
             FactorOthers(r) /\ FactorTo(r, pc, u, tCall[r].row, tCall[r].n, tCall[r].code)
        /\ TF!Become(r, [tCall[r] EXCEPT !.at = pc, !.row = x]) =>
             FactorOthers(r) /\ FactorTo(r, pc, tCall[r].user, x, tCall[r].n, tCall[r].code)
        /\ TF!Become(r, [tCall[r] EXCEPT !.at = pc, !.n = n]) =>
             FactorOthers(r) /\ FactorTo(r, pc, tCall[r].user, tCall[r].row, n, tCall[r].code)
        /\ TF!Become(r, [tCall[r] EXCEPT !.at = pc, !.n = n, !.code = k]) =>
             FactorOthers(r) /\ FactorTo(r, pc, tCall[r].user, tCall[r].row, n, k)
  BY FactorFields
<1>1. ASSUME TF!Open(r) PROVE FactorOthers(r) /\ FactorOpens(r)
  <2> DEFINE pc == IF TF!IsSignIn(r) /\ TF!Key(r) \notin challenge THEN "rejected"
                   ELSE IF TF!Op(r) = "send" THEN "make"
                   ELSE IF TF!Op(r) = "otp" /\ ~TF!IsSignIn(r) THEN "begin" ELSE "load"
  <2>1. pc \in {"rejected", "make", "begin", "load"}
    OBVIOUS
  <2>2. TF!Become(r, [tCall[r] EXCEPT !.at = pc, !.user = enabled])
    BY <1>1 DEF TF!Open
  <2>3. tCall[r].at = "open" /\ FactorRead
    BY <1>1 DEF TF!Open, TF!At, TF!store, FactorRead, FactorStore, FactorFixed, FactorKept
  <2> HIDE DEF pc
  <2> QED BY <1>f, <2>1, <2>2, <2>3 DEF FactorOpens
<1>2. ASSUME TF!Load(r) PROVE FactorOthers(r) /\ FactorLoads(r)
  <2>3. tCall[r].at = "load" /\ FactorRead
    BY <1>2 DEF TF!Load, TF!At, TF!store, FactorRead, FactorStore, FactorFixed, FactorKept
  <2>1. CASE TF!Goto(r, "rejected")
    BY <1>f, <2>1, <2>3 DEF FactorLoads
  <2>2. CASE ~TF!Goto(r, "rejected")
    <3>1. PICK x \in tRows : TF!Become(r, [tCall[r] EXCEPT
            !.at  = IF TF!Op(r) = "generate" THEN "rewrite"
                    ELSE IF ~TF!IsSignIn(r) THEN "begin"
                    ELSE IF TF!Op(r) = "totp" /\ ~x.verified THEN "rejected" ELSE TF!Admit(x),
            !.row = x])
      BY <1>2, <2>2 DEF TF!Load
    <3> DEFINE pc == IF TF!Op(r) = "generate" THEN "rewrite"
                     ELSE IF ~TF!IsSignIn(r) THEN "begin"
                     ELSE IF TF!Op(r) = "totp" /\ ~x.verified THEN "rejected" ELSE TF!Admit(x)
    <3>2. pc \in {"rewrite", "begin", "rejected", "unlock"}
      BY DEF TF!Admit
    <3>3. TF!Become(r, [tCall[r] EXCEPT !.at = pc, !.row = x])
      BY <3>1
    <3> HIDE DEF pc
    <3> QED BY <1>f, <2>3, <3>2, <3>3 DEF FactorLoads
  <2> QED BY <2>1, <2>2
<1>3. ASSUME TF!Unlock(r) PROVE FactorOthers(r) /\ FactorUnlocks(r)
  <2> DEFINE xs == {x \in TF!Mine(r) : x.lockedUntil # TF!None /\ ~TF!Locked(x)}
  <2>1. /\ tCall[r].at = "unlock" /\ TF!Goto(r, "begin") /\ TF!Clear(xs)
        /\ FactorEdited /\ UNCHANGED <<enabled, tMade, redeemed>>
    BY <1>3 DEF TF!Unlock, TF!At, TF!store, FactorEdited, FactorStore, FactorFixed
  <2>2. xs \in SUBSET tRows /\ \A x \in xs : FactorMine(r, x) /\ ~TF!Locked(x)
    BY DEF TF!Mine, FactorMine
  <2> HIDE DEF xs
  <2>3. \A x \in tRows : [x EXCEPT !.count = 0, !.lockedUntil = TF!None] = FactorCleared(x)
    BY <1>t, FactorRowIs
  <2>4. /\ tRows' = {IF x \in xs THEN FactorCleared(x) ELSE x : x \in tRows}
        /\ streak' = [i \in TF!Ids |-> IF \E x \in xs : x.id = i THEN 0 ELSE streak[i]]
    BY <2>1, <2>2, <2>3 DEF TF!Clear
  <2> QED BY <1>f, <2>1, <2>2, <2>4 DEF FactorUnlocks
<1>4. ASSUME TF!Check(r) PROVE FactorOthers(r) /\ FactorChecks(r)
  <2> DEFINE right == IF TF!Op(r) = "totp" THEN tCall[r].guess = tCall[r].row.id
                      ELSE tCall[r].guess \in tCall[r].row.codes
             pc == IF right THEN TF!Accepted(r) ELSE "rejected"
  <2>1. TF!Goto(r, pc) /\ tCall[r].at = "begin" /\ FactorRead
    BY <1>4 DEF TF!Check, TF!At, TF!store, FactorRead, FactorStore, FactorFixed, FactorKept
  <2>2. pc = "rejected" \/ FactorAccepts(r, pc)
    BY FactorAccepting
  <2> HIDE DEF pc
  <2> QED BY <1>f, <2>1, <2>2 DEF FactorChecks
<1>5. ASSUME TF!Begin(r) PROVE FactorOthers(r) /\ FactorBegins(r)
  <2> DEFINE right == IF TF!Op(r) = "totp" THEN tCall[r].guess = tCall[r].row.id
                      ELSE tCall[r].guess \in tCall[r].row.codes
             pc == IF right THEN TF!Accepted(r) ELSE "rearm"
             m == budget[tCall[r].key]
  <2>1. /\ tCall[r].at = "begin" /\ tCall[r].op # "otp" /\ tCall[r].key \in Challenges
        /\ FactorStored /\ UNCHANGED <<challenge, otp, tried>>
        /\ budget' = [budget EXCEPT ![tCall[r].key] = TF!None]
    BY <1>5, <1>t DEF TF!Begin, TF!At, TF!Op, TF!Key, TF!IsSignIn, TF!Keys, TF!store,
                      FactorStored, FactorFixed, FactorKept
  <2>2. \/ TF!Goto(r, "rejected") /\ guessed' = guessed
        \/ TF!Goto(r, "cancel") /\ guessed' = guessed
        \/ /\ m # TF!None /\ m < Allowed
           /\ \/ /\ TF!Become(r, [tCall[r] EXCEPT !.at = "restore", !.n = m])
                 /\ guessed' = guessed
              \/ /\ TF!Become(r, [tCall[r] EXCEPT !.at = pc, !.n = m])
                 /\ guessed' = [guessed EXCEPT ![tCall[r].key] = @ + 1]
    BY <1>5 DEF TF!Begin, TF!Key
  <2>3. pc = "rearm" \/ FactorAccepts(r, pc)
    BY FactorAccepting
  <2> HIDE DEF pc
  <2>4. CASE TF!Goto(r, "rejected") /\ guessed' = guessed
    BY <1>f, <2>1, <2>4 DEF FactorBegins
  <2>5. CASE TF!Goto(r, "cancel") /\ guessed' = guessed
    BY <1>f, <2>1, <2>5 DEF FactorBegins
  <2>6. CASE /\ m # TF!None /\ m < Allowed
             /\ TF!Become(r, [tCall[r] EXCEPT !.at = "restore", !.n = m]) /\ guessed' = guessed
    <3>1. /\ FactorOthers(r)
          /\ FactorTo(r, "restore", tCall[r].user, tCall[r].row, m, tCall[r].code)
      BY <1>f, <2>6
    <3> QED BY <2>1, <2>6, <3>1 DEF FactorBegins
  <2>7. CASE /\ m # TF!None /\ m < Allowed
             /\ TF!Become(r, [tCall[r] EXCEPT !.at = pc, !.n = m])
             /\ guessed' = [guessed EXCEPT ![tCall[r].key] = @ + 1]
    <3>1. FactorOthers(r) /\ FactorTo(r, pc, tCall[r].user, tCall[r].row, m, tCall[r].code)
      BY <1>f, <2>7
    <3> QED BY <2>1, <2>3, <2>7, <3>1 DEF FactorBegins
  <2> QED BY <2>2, <2>4, <2>5, <2>6, <2>7
<1>6. ASSUME TF!Cancel(r) PROVE FactorOthers(r) /\ FactorCancels(r)
  BY <1>6, <1>f DEF TF!Cancel, TF!At, TF!Key, FactorCancels, FactorStored, FactorFixed, FactorKept
<1>7. ASSUME TF!Take(r) PROVE FactorOthers(r) /\ FactorTakes(r)
  <2> DEFINE o == otp[tCall[r].key]
             pc == IF tCall[r].guess = o.code THEN TF!Accepted(r) ELSE "rearm"
  <2>1. /\ tCall[r].at = "begin" /\ tCall[r].op = "otp"
        /\ FactorStored /\ UNCHANGED <<challenge, budget, guessed>>
        /\ otp' = [otp EXCEPT ![tCall[r].key] = TF!NoOtp]
    BY <1>7 DEF TF!Take, TF!At, TF!Op, TF!Key, FactorStored, FactorFixed, FactorKept
  <2>2. \/ TF!Goto(r, "rejected") /\ tried' = tried
        \/ /\ o # TF!NoOtp /\ ~(o.n >= Allowed)
           /\ TF!Become(r, [tCall[r] EXCEPT !.at = pc, !.n = o.n, !.code = o.code])
           /\ tried' = [tried EXCEPT ![tCall[r].key][o.code] = @ + 1]
    BY <1>7 DEF TF!Take, TF!Key
  <2>3. pc = "rearm" \/ (pc \in {"reset", "ok", "turnOn"} /\ FactorAccepts(r, pc))
    BY <2>1, FactorAccepting DEF TF!Op
  <2>4. o.n \in Nat
    BY <1>t
  <2> HIDE DEF pc
  <2>5. CASE TF!Goto(r, "rejected") /\ tried' = tried
    BY <1>f, <2>1, <2>5 DEF FactorTakes
  <2>6. CASE /\ o # TF!NoOtp /\ ~(o.n >= Allowed)
             /\ TF!Become(r, [tCall[r] EXCEPT !.at = pc, !.n = o.n, !.code = o.code])
             /\ tried' = [tried EXCEPT ![tCall[r].key][o.code] = @ + 1]
    <3>1. FactorOthers(r) /\ FactorTo(r, pc, tCall[r].user, tCall[r].row, o.n, o.code)
      BY <1>f, <2>6
    <3>2. o.n < Allowed
      BY <1>t, <2>4, <2>6
    <3> QED BY <2>1, <2>3, <2>6, <3>1, <3>2 DEF FactorTakes
  <2> QED BY <2>2, <2>5, <2>6
<1>8. ASSUME TF!Restore(r) PROVE FactorOthers(r) /\ FactorRestores(r)
  BY <1>8, <1>f DEF TF!Restore, TF!At, TF!Key, FactorRestores, FactorStored, FactorFixed, FactorKept
<1> QED BY <1>1, <1>2, <1>3, <1>4, <1>5, <1>6, <1>7, <1>8 DEF TF!Prove, FactorProves

\* The edits of rows, element by element.
LEMMA FactorEditing ==
  ASSUME FactorTyped, NEW r \in Requests
  PROVE  /\ TF!Mine(r) \subseteq tRows /\ \A x \in tRows : x \in TF!Mine(r) <=> FactorMine(r, x)
         /\ (tRows \ TF!Mine(r)) \cup {[x EXCEPT !.count = @ + 1] : x \in TF!Mine(r)} =
              {IF FactorMine(r, x)
                 THEN FactorRow(x.id, x.codes, x.count + 1, x.lockedUntil, x.verified) ELSE x
                 : x \in tRows}
         /\ (tRows \ TF!Mine(r)) \cup {[x EXCEPT !.verified = TRUE] : x \in TF!Mine(r)} =
              {IF FactorMine(r, x)
                 THEN FactorRow(x.id, x.codes, x.count, x.lockedUntil, TRUE) ELSE x : x \in tRows}
<1>t. tRows \subseteq TF!Row
  BY DEF FactorTyped, TF!TypeOK
<1>1. TF!Mine(r) \subseteq tRows /\ \A x \in tRows : x \in TF!Mine(r) <=> FactorMine(r, x)
  BY DEF TF!Mine, FactorMine
<1>2. \A x \in tRows :
        /\ [x EXCEPT !.count = @ + 1] =
             FactorRow(x.id, x.codes, x.count + 1, x.lockedUntil, x.verified)
        /\ [x EXCEPT !.verified = TRUE] =
             FactorRow(x.id, x.codes, x.count, x.lockedUntil, TRUE)
  BY <1>t, FactorRowIs
<1>3. (tRows \ TF!Mine(r)) \cup {[x EXCEPT !.count = @ + 1] : x \in TF!Mine(r)} =
        {IF FactorMine(r, x)
           THEN FactorRow(x.id, x.codes, x.count + 1, x.lockedUntil, x.verified) ELSE x
           : x \in tRows}
  BY <1>1, <1>2
<1>4. (tRows \ TF!Mine(r)) \cup {[x EXCEPT !.verified = TRUE] : x \in TF!Mine(r)} =
        {IF FactorMine(r, x)
           THEN FactorRow(x.id, x.codes, x.count, x.lockedUntil, TRUE) ELSE x : x \in tRows}
  BY <1>1, <1>2
<1> QED BY <1>1, <1>3, <1>4

LEMMA FactorSettling ==
  ASSUME FactorTyped, NEW r \in Requests, TF!Settle(r)
  PROVE  FactorOthers(r) /\ FactorSettles(r)
<1>t. /\ tCall[r].key \in TF!Keys /\ tRows \subseteq TF!Row /\ tDeploy.maxFailed \in Nat
      /\ \A x \in tRows : x.count \in Nat
  BY FactorDeployTyped DEF FactorTyped, TF!TypeOK, TF!Call, TF!Row
<1>f. \A pc : TF!Goto(r, pc) => FactorOthers(r) /\ FactorGoes(r, pc)
  BY FactorFields
<1>s. (TF!IsSignIn(r) => tCall[r].key \in Challenges)
  BY <1>t DEF TF!IsSignIn, TF!Key, TF!Keys
<1>1. ASSUME TF!Rearm(r) PROVE FactorOthers(r) /\ FactorRearms(r)
  <2>1. /\ tCall[r].at = "rearm" /\ FactorStored /\ UNCHANGED <<challenge, guessed, tried>>
        /\ \/ /\ tCall[r].op = "otp" /\ budget' = budget
              /\ otp' = [otp EXCEPT ![tCall[r].key] = [code |-> tCall[r].code, n |-> tCall[r].n + 1]]
           \/ /\ tCall[r].op # "otp" /\ otp' = otp
              /\ budget' \in {[budget EXCEPT ![tCall[r].key] = tCall[r].n + 1], budget}
    BY <1>1 DEF TF!Rearm, TF!At, TF!Op, TF!Key, FactorStored, FactorFixed, FactorKept
  <2>2. \/ tCall[r].key \in Challenges /\ TF!Goto(r, "count")
        \/ TF!Goto(r, "rejected")
    BY <1>1, <1>s DEF TF!Rearm
  <2> QED BY <1>f, <2>1, <2>2 DEF FactorRearms
<1>2. ASSUME TF!Count(r) PROVE FactorOthers(r) /\ FactorFails(r)
  <2>1. tCall[r].at = "count" /\ FactorEdited /\ UNCHANGED <<enabled, tMade, redeemed>>
    BY <1>2 DEF TF!Count, TF!At, TF!store, FactorEdited, FactorStore, FactorFixed
  <2>2. tRows' = {IF FactorMine(r, x)
                    THEN FactorRow(x.id, x.codes, x.count + 1, x.lockedUntil, x.verified) ELSE x
                    : x \in tRows}
    BY <1>2, FactorEditing DEF TF!Count
  <2>3. streak' = [i \in TF!Ids |-> IF \E x \in tRows : FactorMine(r, x) /\ x.id = i
                                      THEN streak[i] + 1 ELSE streak[i]]
    <3>1. \A i : (\E x \in TF!Mine(r) : x.id = i) <=> \E x \in tRows : FactorMine(r, x) /\ x.id = i
      BY FactorEditing
    <3> QED BY <1>2, <3>1 DEF TF!Count
  <2>4. CASE \E x \in TF!Mine(r) : x.count + 1 >= tDeploy.maxFailed
    <3>1. TF!Goto(r, "lockdown")
      BY <1>2, <2>4 DEF TF!Count
    <3> QED BY <1>f, <2>1, <2>2, <2>3, <3>1 DEF FactorFails
  <2>5. CASE ~\E x \in TF!Mine(r) : x.count + 1 >= tDeploy.maxFailed
    <3>1. TF!Goto(r, "rejected")
      BY <1>2, <2>5 DEF TF!Count
    <3>2. \A x \in tRows : FactorMine(r, x) => x.count + 1 < tDeploy.maxFailed
      <4> TAKE x \in tRows
      <4>1. FactorMine(r, x) => x \in TF!Mine(r)
        BY FactorEditing
      <4>2. x.count \in Nat
        BY <1>t
      <4> QED BY <1>t, <2>5, <4>1, <4>2
    <3> QED BY <1>f, <2>1, <2>2, <2>3, <3>1, <3>2 DEF FactorFails
  <2> QED BY <2>4, <2>5
<1>3. ASSUME TF!Lockdown(r) PROVE FactorOthers(r) /\ FactorLocks(r)
  <2> DEFINE t == tNow + LockFor
  <2>1. /\ tCall[r].at = "lockdown" /\ TF!Goto(r, "rejected") /\ FactorEdited
        /\ UNCHANGED <<enabled, tMade, redeemed, streak>>
        /\ tRows' = (tRows \ TF!Mine(r)) \cup {[x EXCEPT !.lockedUntil = t] : x \in TF!Mine(r)}
    BY <1>3 DEF TF!Lockdown, TF!At, TF!store, FactorEdited, FactorStore, FactorFixed
  <2> HIDE DEF t
  <2>a. /\ \A x \in tRows : [x EXCEPT !.lockedUntil = t] = FactorRow(x.id, x.codes, x.count, t, x.verified)
        /\ TF!Mine(r) \subseteq tRows /\ \A x \in tRows : x \in TF!Mine(r) <=> FactorMine(r, x)
    BY <1>t, FactorRowIs, FactorEditing
  <2>2. (tRows \ TF!Mine(r)) \cup {[x EXCEPT !.lockedUntil = t] : x \in TF!Mine(r)} =
          {IF FactorMine(r, x) THEN FactorRow(x.id, x.codes, x.count, t, x.verified) ELSE x
             : x \in tRows}
    BY <2>a
  <2>3. tRows' = {IF FactorMine(r, x) THEN FactorRow(x.id, x.codes, x.count, t, x.verified) ELSE x
                    : x \in tRows}
    BY <2>1, <2>2
  <2> QED BY <1>f, <2>1, <2>3 DEF FactorLocks, t
<1>4. ASSUME TF!Cas(r) PROVE FactorOthers(r) /\ FactorCrosses(r)
  <2> DEFINE same == {x \in TF!Mine(r) : x.codes = tCall[r].row.codes}
  <2>1. tCall[r].at = "cas" /\ FactorEdited /\ UNCHANGED <<enabled, tMade, streak>>
    BY <1>4 DEF TF!Cas, TF!At, TF!store, FactorEdited, FactorStore, FactorFixed
  <2>2. CASE same = {}
    BY <1>4, <1>f, <2>1, <2>2 DEF TF!Cas, FactorCrosses
  <2>3. CASE same # {}
    <3>1. /\ tRows' = (tRows \ same) \cup {[x EXCEPT !.codes = @ \ {tCall[r].guess}] : x \in same}
          /\ redeemed' = [redeemed EXCEPT ![tCall[r].guess] = @ + 1]
          /\ TF!Goto(r, IF TF!IsSignIn(r) THEN "reset" ELSE "ok")
      BY <1>4, <2>3 DEF TF!Cas
    <3>2. /\ same \subseteq tRows
          /\ \A x \in tRows : x \in same <=> FactorMine(r, x) /\ x.codes = tCall[r].row.codes
      BY FactorEditing
    <3>3. \E x \in tRows : FactorMine(r, x) /\ x.codes = tCall[r].row.codes
      BY <2>3, <3>2
    <3>4. \A x \in tRows : [x EXCEPT !.codes = @ \ {tCall[r].guess}] =
            FactorRow(x.id, x.codes \ {tCall[r].guess}, x.count, x.lockedUntil, x.verified)
      BY <1>t, FactorRowIs
    <3> HIDE DEF same
    <3>5. tRows' = {IF FactorMine(r, x) /\ x.codes = tCall[r].row.codes
                      THEN FactorRow(x.id, x.codes \ {tCall[r].guess}, x.count,
                                     x.lockedUntil, x.verified) ELSE x
                      : x \in tRows}
      BY <3>1, <3>2, <3>4
    <3>6. \/ tCall[r].key \in Challenges /\ FactorGoes(r, "reset")
          \/ FactorGoes(r, "ok")
      BY <1>f, <1>s, <3>1
    <3> QED BY <1>f, <2>1, <3>1, <3>3, <3>5, <3>6 DEF FactorCrosses
  <2> QED BY <2>2, <2>3
<1>5. ASSUME TF!Reset(r) PROVE FactorOthers(r) /\ FactorResets(r)
  <2>1. /\ tCall[r].at = "reset" /\ TF!Clear(TF!Mine(r))
        /\ FactorEdited /\ UNCHANGED <<enabled, tMade, redeemed>>
    BY <1>5 DEF TF!Reset, TF!At, TF!store, FactorEdited, FactorStore, FactorFixed
  <2>2. \E pc \in {"rejected", "burn", "ok"} : TF!Goto(r, pc)
    BY <1>5 DEF TF!Reset
  <2>3. \A x \in tRows : [x EXCEPT !.count = 0, !.lockedUntil = TF!None] = FactorCleared(x)
    BY <1>t, FactorRowIs
  <2>4. tRows' = {IF FactorMine(r, x) THEN FactorCleared(x) ELSE x : x \in tRows}
    <3>1. TF!Mine(r) \subseteq tRows /\ \A x \in tRows : x \in TF!Mine(r) <=> FactorMine(r, x)
      BY FactorEditing
    <3>2. tRows' = (tRows \ TF!Mine(r))
                     \cup {[x EXCEPT !.count = 0, !.lockedUntil = TF!None] : x \in TF!Mine(r)}
      BY <2>1 DEF TF!Clear
    <3> QED BY <2>3, <3>1, <3>2
  <2>5. \A i : (\E x \in TF!Mine(r) : x.id = i) <=> \E x \in tRows : FactorMine(r, x) /\ x.id = i
    BY FactorEditing
  <2>6. streak' = [i \in TF!Ids |-> IF \E x \in tRows : FactorMine(r, x) /\ x.id = i
                                      THEN 0 ELSE streak[i]]
    BY <2>1, <2>5 DEF TF!Clear
  <2> QED BY <1>f, <2>1, <2>2, <2>4, <2>6 DEF FactorResets
<1>6. ASSUME TF!Burn(r) PROVE FactorOthers(r) /\ FactorBurns(r)
  BY <1>6, <1>f DEF TF!Burn, TF!At, TF!Key, FactorBurns, FactorStored, FactorFixed, FactorKept
<1>7. ASSUME TF!Session(r) PROVE FactorOthers(r) /\ FactorSignsIn(r)
  BY <1>7, <1>f DEF TF!Session, TF!At, TF!Key, TF!store, FactorSignsIn, FactorStore, FactorFixed,
                    FactorKept
<1>8. ASSUME TF!TurnOn(r) PROVE FactorOthers(r) /\ FactorTurnsOn(r)
  <2>1. /\ tCall[r].at = "turnOn" /\ FactorEdited /\ UNCHANGED <<tRows, tMade, redeemed, streak>>
        /\ enabled' = TRUE
    BY <1>8 DEF TF!TurnOn, TF!At, TF!store, FactorEdited, FactorStore, FactorFixed
  <2>2. \/ tCall[r].op = "enable" /\ TF!Goto(r, "find")
        \/ \E pc \in {"mark", "ok"} : TF!Goto(r, pc)
    BY <1>8 DEF TF!TurnOn, TF!Op
  <2> QED BY <1>f, <2>1, <2>2 DEF FactorTurnsOn
<1>9. ASSUME TF!Mark(r) PROVE FactorOthers(r) /\ FactorMarks(r)
  BY <1>9, <1>f, FactorEditing
     DEF TF!Mark, TF!At, TF!store, FactorMarks, FactorEdited, FactorStore, FactorFixed
<1> QED BY <1>1, <1>2, <1>3, <1>4, <1>5, <1>6, <1>7, <1>8, <1>9 DEF TF!Settle, FactorSettles

LEMMA FactorAdministering ==
  ASSUME FactorTyped, NEW r \in Requests, TF!Administer(r)
  PROVE  FactorOthers(r) /\ FactorAdministers(r)
<1>t. tRows \subseteq TF!Row
  BY DEF FactorTyped, TF!TypeOK
<1>f. \A pc, x :
        /\ TF!Goto(r, pc) => FactorOthers(r) /\ FactorGoes(r, pc)
        /\ TF!Become(r, [tCall[r] EXCEPT !.at = pc, !.row = x]) =>
             FactorOthers(r) /\ FactorTo(r, pc, tCall[r].user, x, tCall[r].n, tCall[r].code)
  BY FactorFields
<1>1. ASSUME TF!Make(r) PROVE FactorOthers(r) /\ FactorMakes(r)
  BY <1>1, <1>f DEF TF!Make, TF!At, TF!Key, FactorMakes, FactorFixed, FactorKept
<1>2. ASSUME TF!Rewrite(r) PROVE FactorOthers(r) /\ FactorRewrites(r)
  <2> DEFINE k == TF!CodesOf(tMade + 1)
  <2>1. /\ tCall[r].at = "rewrite" /\ TF!Goto(r, "ok") /\ FactorEdited
        /\ tMade < MaxMade /\ tMade' = tMade + 1 /\ UNCHANGED <<enabled, redeemed, streak>>
        /\ tRows' = (tRows \ TF!Mine(r)) \cup {[x EXCEPT !.codes = k] : x \in TF!Mine(r)}
    BY <1>2 DEF TF!Rewrite, TF!At, TF!store, FactorEdited, FactorStore, FactorFixed
  <2> HIDE DEF k
  <2>a. /\ \A x \in tRows : [x EXCEPT !.codes = k] = FactorRow(x.id, k, x.count, x.lockedUntil, x.verified)
        /\ TF!Mine(r) \subseteq tRows /\ \A x \in tRows : x \in TF!Mine(r) <=> FactorMine(r, x)
    BY <1>t, FactorRowIs, FactorEditing
  <2>2. (tRows \ TF!Mine(r)) \cup {[x EXCEPT !.codes = k] : x \in TF!Mine(r)} =
          {IF FactorMine(r, x) THEN FactorRow(x.id, k, x.count, x.lockedUntil, x.verified) ELSE x
             : x \in tRows}
    BY <2>a
  <2>3. tRows' = {IF FactorMine(r, x) THEN FactorRow(x.id, k, x.count, x.lockedUntil, x.verified)
                    ELSE x : x \in tRows}
    BY <2>1, <2>2
  <2> QED BY <1>f, <2>1, <2>3 DEF FactorRewrites, k
<1>3. ASSUME TF!Find(r) PROVE FactorOthers(r) /\ FactorFinds(r)
  <2>1. tCall[r].at = "find" /\ FactorRead
    BY <1>3 DEF TF!Find, TF!At, TF!store, FactorRead, FactorStore, FactorFixed, FactorKept
  <2>2. PICK x \in tRows \cup {TF!NoRow} :
          TF!Become(r, [tCall[r] EXCEPT !.at = "wipe", !.row = x])
    BY <1>3 DEF TF!Find
  <2> QED BY <1>f, <2>1, <2>2 DEF FactorFinds
<1>4. ASSUME TF!Wipe(r) PROVE FactorOthers(r) /\ FactorWipes(r)
  <2>1. tRows' = {} /\ FactorEdited /\ UNCHANGED <<enabled, tMade, redeemed, streak>>
    BY <1>4 DEF TF!Wipe, TF!store, FactorEdited, FactorStore, FactorFixed
  <2>2. CASE tCall[r].at = "wipe"
    <3>1. TF!Goto(r, "create")
      BY <1>4, <2>2 DEF TF!Wipe, TF!At
    <3> QED BY <1>f, <2>1, <2>2, <3>1 DEF FactorWipes
  <2>3. CASE tCall[r].at = "drop"
    <3>1. TF!Goto(r, "ok")
      BY <1>4, <2>3 DEF TF!Wipe, TF!At
    <3> QED BY <1>f, <2>1, <2>3, <3>1 DEF FactorWipes
  <2> QED BY <1>4, <2>2, <2>3 DEF TF!Wipe, TF!At
<1>5. ASSUME TF!Create(r) PROVE FactorOthers(r) /\ FactorCreates(r)
  <2>1. TF!NewRow(tMade + 1, tCall[r].row.verified \/ tDeploy.skip) =
          FactorRow(tMade + 1, TF!CodesOf(tMade + 1), 0, TF!None,
                    tCall[r].row.verified \/ tDeploy.skip)
    BY DEF TF!NewRow, FactorRow
  <2> QED BY <1>5, <1>f, <2>1
             DEF TF!Create, TF!At, TF!store, FactorCreates, FactorEdited, FactorStore, FactorFixed
<1>6. ASSUME TF!TurnOff(r) PROVE FactorOthers(r) /\ FactorTurnsOff(r)
  BY <1>6, <1>f DEF TF!TurnOff, TF!At, TF!store, FactorTurnsOff, FactorEdited, FactorStore,
                    FactorFixed
<1> QED BY <1>1, <1>2, <1>3, <1>4, <1>5, <1>6 DEF TF!Administer, FactorAdministers

\* A request that comes, and one that fails.
FactorStarts(r, op) ==
  /\ tCall[r].at = "idle" /\ op \in tDeploy.ops[r] /\ FactorRead
  /\ \A q \in Requests : q # r => tCall'[q] = tCall[q]
  /\ tCall' \in [Requests -> TF!Call]
  /\ tCall'[r].op = op /\ tCall'[r].key \in TF!Keys /\ tCall'[r].user = enabled
  /\ tCall'[r].row = TF!NoRow /\ tCall'[r].n = 0 /\ tCall'[r].code = 0
  /\ tCall'[r].from = "idle"
  /\ tCall'[r].at \in {"load", "rejected", "turnOn", "find", "turnOff", "open"}
  /\ tCall'[r].at = "find" => op = "enable" /\ ~tDeploy.skip
  /\ tCall'[r].at = "turnOff" => op = "disable"
FactorEnds(r) ==
  /\ tCall[r].at \in TF!Steps /\ FactorRead
  /\ \A q \in Requests : q # r => tCall'[q] = tCall[q]
  /\ tCall' \in [Requests -> TF!Call]
  /\ tCall'[r].at = "failed" /\ tCall'[r].from = tCall[r].at
  /\ tCall'[r].op = tCall[r].op /\ tCall'[r].key = tCall[r].key
  /\ tCall'[r].guess = tCall[r].guess /\ tCall'[r].user = tCall[r].user
  /\ tCall'[r].row = tCall[r].row /\ tCall'[r].n = tCall[r].n /\ tCall'[r].code = tCall[r].code
FactorExpires(k) ==
  /\ FactorStored /\ UNCHANGED <<tCall, guessed, tried>>
  /\ \/ otp' = [otp EXCEPT ![k] = TF!NoOtp] /\ UNCHANGED <<challenge, budget>>
     \/ /\ k \in Challenges /\ challenge' = challenge \ {k} /\ otp' = otp
        /\ budget' = [budget EXCEPT ![k] = TF!None]
FactorTicks ==
  /\ FactorStore /\ FactorKept /\ UNCHANGED <<tDeploy, tMade, tSessions, tCall>>
  /\ tNow' = tNow + 1

LEMMA FactorStarting ==
  ASSUME FactorTyped, NEW r \in Requests, NEW op \in tDeploy.ops[r], TF!Start(r, op)
  PROVE  FactorStarts(r, op)
<1>0. /\ tCall \in [Requests -> TF!Call] /\ tMade \in 0..MaxMade /\ enabled \in BOOLEAN
      /\ op \in TF!AllOps /\ tDeploy.keys \subseteq TF!Keys /\ MaxMade \in Nat
  BY FactorDeployTyped DEF FactorTyped, TF!TypeOK
<1>1. PICK k \in IF op \in TF!Manage THEN {Account} ELSE tDeploy.keys :
        \E g \in TF!GuessesFor(op) :
          TF!Become(r, [TF!NoCall EXCEPT !.op = op, !.at = TF!FirstStep(op), !.key = k,
                                         !.guess = g, !.user = enabled])
  BY DEF TF!Start
<1>2. PICK g \in TF!GuessesFor(op) :
          TF!Become(r, [TF!NoCall EXCEPT !.op = op, !.at = TF!FirstStep(op), !.key = k,
                                         !.guess = g, !.user = enabled])
  BY <1>1
<1> DEFINE c == [op |-> op, at |-> TF!FirstStep(op), from |-> "idle", key |-> k, guess |-> g,
                 row |-> TF!NoRow, user |-> enabled, n |-> 0, code |-> 0]
<1>3. TF!Become(r, c)
  <2> DEFINE y == TF!NoCall
             D(o, pc, key, guess, u) ==
               [op |-> o, at |-> pc, from |-> y.from, key |-> key, guess |-> guess,
                row |-> y.row, user |-> u, n |-> y.n, code |-> y.code]
             c1 == [y EXCEPT !.op = op]
             c2 == [c1 EXCEPT !.at = TF!FirstStep(op)]
             c3 == [c2 EXCEPT !.key = k]
             c4 == [c3 EXCEPT !.guess = g]
  <2>0. /\ y = [op |-> y.op, at |-> y.at, from |-> y.from, key |-> y.key, guess |-> y.guess,
                row |-> y.row, user |-> y.user, n |-> y.n, code |-> y.code]
        /\ y.from = "idle" /\ y.row = TF!NoRow /\ y.n = 0 /\ y.code = 0
    BY DEF TF!NoCall
  <2>1. [TF!NoCall EXCEPT !.op = op, !.at = TF!FirstStep(op), !.key = k, !.guess = g,
                          !.user = enabled] = [c4 EXCEPT !.user = enabled]
    BY DEF TF!NoCall
  <2> HIDE DEF y
  <2>2. c1 = D(op, y.at, y.key, y.guess, y.user)
    BY <2>0
  <2> HIDE DEF c1
  <2>3. c2 = D(op, TF!FirstStep(op), y.key, y.guess, y.user)
    BY <2>2
  <2> HIDE DEF c2
  <2>4. c3 = D(op, TF!FirstStep(op), k, y.guess, y.user)
    BY <2>3
  <2> HIDE DEF c3
  <2>5. c4 = D(op, TF!FirstStep(op), k, g, y.user)
    BY <2>4
  <2> HIDE DEF c4
  <2>6. [c4 EXCEPT !.user = enabled] = D(op, TF!FirstStep(op), k, g, enabled)
    BY <2>5
  <2>7. D(op, TF!FirstStep(op), k, g, enabled) = c
    BY <2>0
  <2> QED BY <1>2, <2>1, <2>6, <2>7
<1>4. k \in TF!Keys
  BY <1>0 DEF TF!Keys
<1>5. g \in TF!Guesses
  <2>1. CASE op = "backup"
    <3>1. CASE g = 0
      BY <3>1 DEF TF!Guesses
    <3>2. CASE g # 0
      <4>1. PICK s \in 1..tMade : g \in TF!CodesOf(s)
        BY <2>1, <3>2 DEF TF!GuessesFor
      <4>2. s \in TF!Ids
        BY <1>0 DEF TF!Ids
      <4> QED BY <4>1, <4>2 DEF TF!Guesses, TF!AllCodes
    <3> QED BY <3>1, <3>2
  <2>2. CASE op # "backup"
    <3>1. g \in 0..tMade
      BY <1>0, <2>2 DEF TF!GuessesFor
    <3>2. g = 0 \/ g \in TF!Ids
      BY <1>0, <3>1 DEF TF!Ids
    <3> QED BY <3>2 DEF TF!Guesses
  <2> QED BY <2>1, <2>2
<1>6. /\ TF!FirstStep(op) \in {"load", "rejected", "turnOn", "find", "turnOff", "open"}
      /\ TF!FirstStep(op) = "find" => op = "enable" /\ ~tDeploy.skip
      /\ TF!FirstStep(op) = "turnOff" => op = "disable"
  BY DEF TF!FirstStep
<1>7. TF!NoRow \in TF!Row
  BY DEF TF!NoRow, TF!Row
<1>8. c \in TF!Call
  <2>1. TF!FirstStep(op) \in {"idle"} \cup TF!Steps \cup TF!Ended
    BY <1>6 DEF TF!Steps, TF!Ended
  <2>2. op \in TF!AllOps \cup {"none"} /\ "idle" \in {"idle"} \cup TF!Steps
    BY <1>0
  <2> QED BY <1>0, <1>4, <1>5, <1>7, <2>1, <2>2 DEF TF!Call
<1>9. /\ c.op = op /\ c.at = TF!FirstStep(op) /\ c.from = "idle" /\ c.key = k
      /\ c.row = TF!NoRow /\ c.user = enabled /\ c.n = 0 /\ c.code = 0
  OBVIOUS
<1> HIDE DEF c
<1>10. /\ tCall'[r] = c /\ \A q \in Requests : q # r => tCall'[q] = tCall[q]
       /\ tCall' \in [Requests -> TF!Call]
  BY <1>0, <1>3, <1>8 DEF TF!Become
<1>11. tCall[r].at = "idle" /\ FactorRead
  BY DEF TF!Start, TF!At, TF!store, FactorRead, FactorStore, FactorFixed, FactorKept
<1> QED BY <1>4, <1>6, <1>9, <1>10, <1>11 DEF FactorStarts

LEMMA FactorFailing ==
  ASSUME FactorTyped, NEW r \in Requests, TF!Fail(r)
  PROVE  FactorEnds(r)
<1>0. tCall \in [Requests -> TF!Call] /\ tCall[r] \in TF!Call
  BY DEF FactorTyped, TF!TypeOK
<1>1. /\ tCall[r].at \in TF!Steps /\ FactorRead
      /\ TF!Become(r, [tCall[r] EXCEPT !.at = "failed", !.from = tCall[r].at])
  BY DEF TF!Fail, TF!InFlight, TF!store, FactorRead, FactorStore, FactorFixed, FactorKept
<1> DEFINE c == [op |-> tCall[r].op, at |-> "failed", from |-> tCall[r].at, key |-> tCall[r].key,
                 guess |-> tCall[r].guess, row |-> tCall[r].row, user |-> tCall[r].user,
                 n |-> tCall[r].n, code |-> tCall[r].code]
           g == [tCall[r] EXCEPT !.at = "failed"]
<1>2. [tCall[r] EXCEPT !.at = "failed", !.from = tCall[r].at] = c
  <2>1. [tCall[r] EXCEPT !.at = "failed", !.from = tCall[r].at] = [g EXCEPT !.from = tCall[r].at]
    BY <1>0 DEF TF!Call
  <2>2. g = [op |-> tCall[r].op, at |-> "failed", from |-> tCall[r].from, key |-> tCall[r].key,
             guess |-> tCall[r].guess, row |-> tCall[r].row, user |-> tCall[r].user,
             n |-> tCall[r].n, code |-> tCall[r].code]
    BY <1>0 DEF TF!Call
  <2> HIDE DEF g
  <2> QED BY <2>1, <2>2
<1>3. c \in TF!Call
  <2>1. "failed" \in {"idle"} \cup TF!Steps \cup TF!Ended
    BY DEF TF!Ended
  <2>2. /\ tCall[r].op \in TF!AllOps \cup {"none"} /\ tCall[r].key \in TF!Keys
        /\ tCall[r].guess \in TF!Guesses /\ tCall[r].row \in TF!Row /\ tCall[r].user \in BOOLEAN
        /\ tCall[r].n \in Nat /\ tCall[r].code \in Nat
    BY <1>0 DEF TF!Call
  <2>3. tCall[r].at \in {"idle"} \cup TF!Steps
    BY <1>1
  <2> QED BY <2>1, <2>2, <2>3 DEF TF!Call
<1>4. /\ c.op = tCall[r].op /\ c.at = "failed" /\ c.from = tCall[r].at /\ c.key = tCall[r].key
      /\ c.guess = tCall[r].guess /\ c.row = tCall[r].row /\ c.user = tCall[r].user
      /\ c.n = tCall[r].n /\ c.code = tCall[r].code
  OBVIOUS
<1> HIDE DEF c
<1>5. /\ tCall'[r] = c /\ \A q \in Requests : q # r => tCall'[q] = tCall[q]
      /\ tCall' \in [Requests -> TF!Call]
  BY <1>0, <1>1, <1>2, <1>3 DEF TF!Become
<1> QED BY <1>1, <1>4, <1>5 DEF FactorEnds

LEMMA FactorNext ==
  ASSUME FactorTyped, [TF!Next]_TF!vars
  PROVE  \/ \E r \in Requests : FactorOthers(r) /\ FactorStep(r)
         \/ \E r \in Requests : \E op \in tDeploy.ops[r] : FactorStarts(r, op)
         \/ \E r \in Requests : FactorEnds(r)
         \/ \E k \in TF!Keys : FactorExpires(k)
         \/ FactorTicks
         \/ UNCHANGED TF!vars
<1>1. ASSUME NEW r \in Requests, TF!Prove(r) \/ TF!Settle(r) \/ TF!Administer(r)
      PROVE  FactorOthers(r) /\ FactorStep(r)
  BY <1>1, FactorProving, FactorSettling, FactorAdministering DEF FactorStep
<1>2. ASSUME NEW r \in Requests, NEW op \in tDeploy.ops[r], TF!Start(r, op)
      PROVE  FactorStarts(r, op)
  BY <1>2, FactorStarting
<1>3. ASSUME NEW r \in Requests, TF!Fail(r) PROVE FactorEnds(r)
  BY <1>3, FactorFailing
<1>4. ASSUME NEW k \in tDeploy.keys, TF!Expire(k) PROVE k \in TF!Keys /\ FactorExpires(k)
  <2>1. k \in TF!Keys
    BY FactorDeployTyped DEF FactorTyped, TF!TypeOK
  <2> QED BY <1>4, <2>1 DEF TF!Expire, FactorExpires, FactorStored, FactorFixed, FactorKept
<1>5. ASSUME TF!Tick PROVE FactorTicks
  BY <1>5 DEF TF!Tick, TF!store, FactorTicks, FactorStore, FactorKept
<1> QED BY <1>1, <1>2, <1>3, <1>4, <1>5 DEF TF!Next, TF!Idle

LEMMA FactorTypes ==
  ASSUME FactorTyped
  PROVE  /\ tDeploy \in Enrolments /\ tRows \subseteq TF!Row /\ enabled \in BOOLEAN
         /\ challenge \subseteq Challenges /\ budget \in [Challenges -> Nat \cup {-1}]
         /\ otp \in [TF!Keys -> [code : Nat, n : Nat]] /\ tMade \in 0..MaxMade
         /\ tCall \in [Requests -> TF!Call] /\ tNow \in Nat
         /\ guessed \in [Challenges -> Nat] /\ tried \in [TF!Keys -> [TF!Ids -> Nat]]
         /\ redeemed \in [TF!AllCodes -> Nat] /\ tSessions \in [Challenges -> Nat]
         /\ streak \in [TF!Ids -> Nat]
         /\ MaxMade \in Nat /\ Allowed \in Nat /\ LockFor \in Nat /\ Challenges \subseteq TF!Keys
         /\ \A r \in Requests :
              LET c == tCall[r] IN
                /\ c.op \in TF!AllOps \cup {"none"} /\ c.key \in TF!Keys /\ c.guess \in TF!Guesses
                /\ c.at \in {"idle"} \cup TF!Steps \cup TF!Ended /\ c.from \in {"idle"} \cup TF!Steps
                /\ c.user \in BOOLEAN /\ c.row \in TF!Row /\ c.n \in Nat /\ c.code \in Nat
<1>1. /\ MaxMade \in Nat /\ Allowed \in Nat /\ LockFor \in Nat
  BY FactorsAssumption DEF TF!ConstantsOK
<1>2. Challenges \subseteq TF!Keys
  BY DEF TF!Keys
<1>3. \A c \in TF!Call :
        /\ c.op \in TF!AllOps \cup {"none"} /\ c.key \in TF!Keys /\ c.guess \in TF!Guesses
        /\ c.at \in {"idle"} \cup TF!Steps \cup TF!Ended /\ c.from \in {"idle"} \cup TF!Steps
        /\ c.user \in BOOLEAN /\ c.row \in TF!Row /\ c.n \in Nat /\ c.code \in Nat
  BY DEF TF!Call
<1> QED BY <1>1, <1>2, <1>3 DEF FactorTyped, TF!TypeOK, TF!None

LEMMA FactorRowTyped ==
  ASSUME NEW i \in Nat, NEW S \in SUBSET TF!AllCodes, NEW n \in Nat, NEW t \in Nat \cup {-1},
         NEW v \in BOOLEAN
  PROVE  FactorRow(i, S, n, t, v) \in TF!Row
  BY DEF FactorRow, TF!Row, TF!None

\* Where a step leads, and with what.
LEMMA FactorCallTyped ==
  ASSUME FactorTyped, NEW r \in Requests, FactorOthers(r), FactorStep(r)
  PROVE  tCall' \in [Requests -> TF!Call]
<1>t. /\ tCall[r].user \in BOOLEAN /\ tCall[r].row \in TF!Row /\ tCall[r].n \in Nat
      /\ tCall[r].code \in Nat /\ enabled \in BOOLEAN /\ tRows \subseteq TF!Row
      /\ otp \in [TF!Keys -> [code : Nat, n : Nat]] /\ tCall[r].key \in TF!Keys
      /\ budget \in [Challenges -> Nat \cup {-1}]
  BY FactorTypes
<1>n. TF!NoRow \in TF!Row
  BY DEF TF!NoRow, TF!Row
<1> DEFINE Typed == \E pc \in TF!Steps \cup TF!Ended, u \in BOOLEAN, x \in TF!Row, n, k \in Nat :
                      FactorTo(r, pc, u, x, n, k)
<1>g. ASSUME NEW pc \in TF!Steps \cup TF!Ended, FactorGoes(r, pc) PROVE Typed
  BY <1>t, <1>g DEF FactorGoes
<1>1. ASSUME FactorOpens(r) PROVE Typed
  BY <1>t, <1>1 DEF FactorOpens, TF!Steps, TF!Ended
<1>2. ASSUME FactorLoads(r) PROVE Typed
  BY <1>t, <1>g, <1>2 DEF FactorLoads, TF!Steps, TF!Ended
<1>a. ASSUME NEW pc, FactorAccepts(r, pc) PROVE pc \in TF!Steps \cup TF!Ended
  BY <1>a DEF FactorAccepts, TF!Steps, TF!Ended
<1>3. ASSUME FactorChecks(r) PROVE Typed
  <2>1. "rejected" \in TF!Steps \cup TF!Ended
    BY DEF TF!Ended
  <2> QED BY <1>a, <1>g, <1>3, <2>1 DEF FactorChecks
<1>4. ASSUME FactorBegins(r) PROVE Typed
  <2>1. {"rejected", "cancel", "restore", "rearm"} \subseteq TF!Steps \cup TF!Ended
    BY DEF TF!Steps, TF!Ended
  <2>2. CASE \E pc \in {"rejected", "cancel"} : FactorGoes(r, pc)
    BY <1>g, <2>1, <2>2
  <2>3. CASE ~\E pc \in {"rejected", "cancel"} : FactorGoes(r, pc)
    <3>1. /\ budget[tCall[r].key] # TF!None /\ tCall[r].key \in Challenges
          /\ \E pc : /\ pc = "restore" \/ pc = "rearm" \/ FactorAccepts(r, pc)
                     /\ FactorTo(r, pc, tCall[r].user, tCall[r].row, budget[tCall[r].key],
                                 tCall[r].code)
      BY <1>4, <2>3 DEF FactorBegins
    <3>2. budget[tCall[r].key] \in Nat
      BY <1>t, <3>1 DEF TF!None
    <3> QED BY <1>t, <1>a, <2>1, <3>1, <3>2
  <2> QED BY <2>2, <2>3
<1>5. ASSUME FactorTakes(r) PROVE Typed
  <2>1. {"rejected", "rearm"} \subseteq TF!Steps \cup TF!Ended
    BY DEF TF!Steps, TF!Ended
  <2>2. otp[tCall[r].key].n \in Nat /\ otp[tCall[r].key].code \in Nat
    BY <1>t
  <2>3. \/ FactorGoes(r, "rejected")
        \/ \E pc : /\ pc = "rearm" \/ FactorAccepts(r, pc)
                   /\ FactorTo(r, pc, tCall[r].user, tCall[r].row, otp[tCall[r].key].n,
                               otp[tCall[r].key].code)
    BY <1>5 DEF FactorTakes
  <2> QED BY <1>t, <1>a, <1>g, <2>1, <2>2, <2>3
<1>6. ASSUME FactorFinds(r) PROVE Typed
  BY <1>t, <1>n, <1>6 DEF FactorFinds, TF!Steps
<1>7. ASSUME \E pc \in TF!Steps \cup TF!Ended : FactorGoes(r, pc) PROVE Typed
  BY <1>g, <1>7
<1>8. FactorProves(r) => Typed
  <2>1. FactorUnlocks(r) \/ FactorCancels(r) \/ FactorRestores(r) =>
          \E pc \in TF!Steps \cup TF!Ended : FactorGoes(r, pc)
    BY DEF FactorUnlocks, FactorCancels, FactorRestores, TF!Steps, TF!Ended
  <2> HIDE DEF Typed
  <2> QED BY <1>1, <1>2, <1>3, <1>4, <1>5, <1>7, <2>1 DEF FactorProves
<1>9. FactorSettles(r) => \E pc \in TF!Steps \cup TF!Ended : FactorGoes(r, pc)
  BY DEF FactorSettles, FactorRearms, FactorFails, FactorLocks, FactorCrosses, FactorResets,
         FactorBurns, FactorSignsIn, FactorTurnsOn, FactorMarks, TF!Steps, TF!Ended
<1>10. FactorAdministers(r) => Typed
  <2>1. FactorMakes(r) \/ FactorRewrites(r) \/ FactorWipes(r) \/ FactorCreates(r)
          \/ FactorTurnsOff(r) => \E pc \in TF!Steps \cup TF!Ended : FactorGoes(r, pc)
    BY DEF FactorMakes, FactorRewrites, FactorWipes, FactorCreates, FactorTurnsOff,
           TF!Steps, TF!Ended
  <2> HIDE DEF Typed
  <2> QED BY <1>6, <1>7, <2>1 DEF FactorAdministers
<1>11. Typed
  <2> HIDE DEF Typed
  <2> QED BY <1>7, <1>8, <1>9, <1>10 DEF FactorStep
<1> QED BY <1>11 DEF FactorOthers, FactorTo

LEMMA FactorDataTyped ==
  ASSUME FactorBase, FactorTries, NEW r \in Requests, FactorStep(r)
  PROVE  /\ tDeploy' = tDeploy /\ tNow' = tNow
         /\ tRows' \subseteq TF!Row /\ enabled' \in BOOLEAN /\ challenge' \subseteq Challenges
         /\ budget' \in [Challenges -> Nat \cup {-1}]
         /\ otp' \in [TF!Keys -> [code : Nat, n : Nat]] /\ tMade' \in 0..MaxMade
         /\ guessed' \in [Challenges -> Nat] /\ tried' \in [TF!Keys -> [TF!Ids -> Nat]]
         /\ redeemed' \in [TF!AllCodes -> Nat] /\ tSessions' \in [Challenges -> Nat]
         /\ streak' \in [TF!Ids -> Nat]
<1>t. /\ tRows \subseteq TF!Row /\ enabled \in BOOLEAN
      /\ challenge \subseteq Challenges /\ budget \in [Challenges -> Nat \cup {-1}]
      /\ otp \in [TF!Keys -> [code : Nat, n : Nat]] /\ tMade \in 0..MaxMade
      /\ tNow \in Nat /\ guessed \in [Challenges -> Nat] /\ tried \in [TF!Keys -> [TF!Ids -> Nat]]
      /\ redeemed \in [TF!AllCodes -> Nat] /\ tSessions \in [Challenges -> Nat]
      /\ streak \in [TF!Ids -> Nat] /\ MaxMade \in Nat /\ LockFor \in Nat
      /\ tCall[r].key \in TF!Keys /\ tCall[r].n \in Nat /\ tCall[r].code \in Nat
      /\ tCall[r].row \in TF!Row /\ tDeploy.skip \in BOOLEAN
  BY FactorTypes, FactorDeployTyped DEF FactorBase
<1>d. tDeploy' = tDeploy /\ tNow' = tNow
  BY DEF FactorStep, FactorProves, FactorSettles, FactorAdministers, FactorOpens, FactorLoads,
         FactorUnlocks, FactorChecks, FactorBegins, FactorCancels, FactorTakes, FactorRestores,
         FactorRearms, FactorFails, FactorLocks, FactorCrosses, FactorResets, FactorBurns,
         FactorSignsIn, FactorTurnsOn, FactorMarks, FactorMakes, FactorRewrites, FactorFinds,
         FactorWipes, FactorCreates, FactorTurnsOff, FactorRead, FactorStored, FactorEdited,
         FactorFixed
<1>x. \A x \in tRows : /\ x.id \in Nat /\ x.codes \in SUBSET TF!AllCodes /\ x.count \in Nat
                       /\ x.lockedUntil \in Nat \cup {-1} /\ x.verified \in BOOLEAN
  BY <1>t DEF TF!Row, TF!None
<1>c. \A x \in tRows : FactorCleared(x) \in TF!Row
  <2>1. 0 \in Nat /\ TF!None \in Nat \cup {-1}
    BY DEF TF!None
  <2> QED BY <1>x, <2>1, FactorRowTyped DEF FactorCleared
<1>s. tMade < MaxMade => TF!CodesOf(tMade + 1) \in SUBSET TF!AllCodes
  BY <1>t DEF TF!AllCodes, TF!Ids
<1>1. tRows' \subseteq TF!Row
  <2>1. ASSUME FactorUnlocks(r) PROVE tRows' \subseteq TF!Row
    BY <1>t, <1>c, <2>1 DEF FactorUnlocks
  <2>2. ASSUME FactorFails(r) PROVE tRows' \subseteq TF!Row
    <3>1. \A x \in tRows :
            FactorRow(x.id, x.codes, x.count + 1, x.lockedUntil, x.verified) \in TF!Row
      BY <1>x, FactorRowTyped
    <3> QED BY <1>t, <2>2, <3>1 DEF FactorFails
  <2>3. ASSUME FactorLocks(r) PROVE tRows' \subseteq TF!Row
    <3>1. \A x \in tRows :
            FactorRow(x.id, x.codes, x.count, tNow + LockFor, x.verified) \in TF!Row
      BY <1>x, <1>t, FactorRowTyped
    <3> QED BY <1>t, <2>3, <3>1 DEF FactorLocks
  <2>4. ASSUME FactorCrosses(r) PROVE tRows' \subseteq TF!Row
    <3>1. \A x \in tRows :
            FactorRow(x.id, x.codes \ {tCall[r].guess}, x.count, x.lockedUntil, x.verified)
              \in TF!Row
      <4> TAKE x \in tRows
      <4>1. x.codes \ {tCall[r].guess} \in SUBSET TF!AllCodes
        BY <1>x
      <4> QED BY <1>x, <4>1, FactorRowTyped
    <3>2. CASE tRows' = tRows
      BY <1>t, <3>2
    <3>3. CASE tRows' # tRows
      <4>1. tRows' = {IF FactorMine(r, x) /\ x.codes = tCall[r].row.codes
                        THEN FactorRow(x.id, x.codes \ {tCall[r].guess}, x.count,
                                       x.lockedUntil, x.verified) ELSE x
                        : x \in tRows}
        BY <2>4, <3>3 DEF FactorCrosses
      <4> QED BY <1>t, <3>1, <4>1
    <3> QED BY <3>2, <3>3
  <2>5. ASSUME FactorResets(r) PROVE tRows' \subseteq TF!Row
    BY <1>t, <1>c, <2>5 DEF FactorResets
  <2>6. ASSUME FactorMarks(r) PROVE tRows' \subseteq TF!Row
    <3>1. \A x \in tRows : FactorRow(x.id, x.codes, x.count, x.lockedUntil, TRUE) \in TF!Row
      BY <1>x, FactorRowTyped
    <3> QED BY <1>t, <2>6, <3>1 DEF FactorMarks
  <2>7. ASSUME FactorRewrites(r) PROVE tRows' \subseteq TF!Row
    <3>1. \A x \in tRows :
            FactorRow(x.id, TF!CodesOf(tMade + 1), x.count, x.lockedUntil, x.verified) \in TF!Row
      BY <1>x, <1>s, <2>7, FactorRowTyped DEF FactorRewrites
    <3> QED BY <1>t, <2>7, <3>1 DEF FactorRewrites
  <2>8. ASSUME FactorCreates(r) PROVE tRows' \subseteq TF!Row
    <3>1. (tCall[r].row.verified \/ tDeploy.skip) \in BOOLEAN
      OBVIOUS
    <3>2. tMade + 1 \in Nat /\ 0 \in Nat /\ TF!None \in Nat \cup {-1}
      BY <1>t DEF TF!None
    <3> DEFINE v == tCall[r].row.verified \/ tDeploy.skip
    <3>3. tMade < MaxMade /\ tRows' = tRows \cup {FactorRow(tMade + 1, TF!CodesOf(tMade + 1), 0, TF!None, v)}
      BY <2>8 DEF FactorCreates
    <3>4. v \in BOOLEAN
      BY <3>1
    <3> HIDE DEF v
    <3>5. FactorRow(tMade + 1, TF!CodesOf(tMade + 1), 0, TF!None, v) \in TF!Row
      BY <1>s, <3>2, <3>3, <3>4, FactorRowTyped
    <3> QED BY <1>t, <3>3, <3>5
  <2>9. ASSUME tRows' = tRows \/ tRows' = {} PROVE tRows' \subseteq TF!Row
    BY <1>t, <2>9
  <2>10. CASE FactorProves(r)
    <3>1. FactorOpens(r) \/ FactorLoads(r) \/ FactorChecks(r) \/ FactorBegins(r)
            \/ FactorCancels(r) \/ FactorTakes(r) \/ FactorRestores(r) => tRows' = tRows
      BY DEF FactorOpens, FactorLoads, FactorChecks, FactorBegins, FactorCancels, FactorTakes,
             FactorRestores, FactorRead, FactorStored, FactorKept
    <3> QED BY <2>1, <2>9, <2>10, <3>1 DEF FactorProves
  <2>11. CASE FactorSettles(r)
    <3>1. FactorRearms(r) \/ FactorBurns(r) \/ FactorSignsIn(r) \/ FactorTurnsOn(r) => tRows' = tRows
      BY DEF FactorRearms, FactorBurns, FactorSignsIn, FactorTurnsOn, FactorStored, FactorKept
    <3> QED BY <2>2, <2>3, <2>4, <2>5, <2>6, <2>9, <2>11, <3>1 DEF FactorSettles
  <2>12. CASE FactorAdministers(r)
    <3>1. FactorMakes(r) \/ FactorFinds(r) \/ FactorTurnsOff(r) => tRows' = tRows
      BY DEF FactorMakes, FactorFinds, FactorTurnsOff, FactorRead, FactorKept
    <3>2. FactorWipes(r) => tRows' = {}
      BY DEF FactorWipes
    <3> QED BY <2>7, <2>8, <2>9, <2>12, <3>1, <3>2 DEF FactorAdministers
  <2> QED BY <2>10, <2>11, <2>12 DEF FactorStep
<1>2. enabled' \in BOOLEAN /\ challenge' \subseteq Challenges
  <2>1. enabled' = enabled \/ enabled' = TRUE \/ enabled' = FALSE
    BY DEF FactorStep, FactorProves, FactorSettles, FactorAdministers, FactorOpens, FactorLoads,
         FactorUnlocks, FactorChecks, FactorBegins, FactorCancels, FactorTakes, FactorRestores,
         FactorRearms, FactorFails, FactorLocks, FactorCrosses, FactorResets, FactorBurns,
         FactorSignsIn, FactorTurnsOn, FactorMarks, FactorMakes, FactorRewrites, FactorFinds,
         FactorWipes, FactorCreates, FactorTurnsOff, FactorRead, FactorStored, FactorEdited,
         FactorKept
  <2>2. challenge' \subseteq challenge
    BY DEF FactorStep, FactorProves, FactorSettles, FactorAdministers, FactorOpens, FactorLoads,
         FactorUnlocks, FactorChecks, FactorBegins, FactorCancels, FactorTakes, FactorRestores,
         FactorRearms, FactorFails, FactorLocks, FactorCrosses, FactorResets, FactorBurns,
         FactorSignsIn, FactorTurnsOn, FactorMarks, FactorMakes, FactorRewrites, FactorFinds,
         FactorWipes, FactorCreates, FactorTurnsOff, FactorRead, FactorStored, FactorEdited,
         FactorStore
  <2>3. enabled' \in BOOLEAN
    BY <1>t, <2>1
  <2> QED BY <1>t, <2>2, <2>3
<1>3. budget' \in [Challenges -> Nat \cup {-1}]
  <2>1. FactorBegins(r) => budget' \in [Challenges -> Nat \cup {-1}]
    BY <1>t DEF FactorBegins, TF!None
  <2>2. FactorRestores(r) => budget' \in [Challenges -> Nat \cup {-1}]
    BY <1>t DEF FactorRestores
  <2>3. FactorRearms(r) => budget' \in [Challenges -> Nat \cup {-1}]
    BY <1>t DEF FactorRearms
  <2>4. FactorBegins(r) \/ FactorRestores(r) \/ FactorRearms(r) \/ budget' = budget
    BY DEF FactorStep, FactorProves, FactorSettles, FactorAdministers, FactorOpens, FactorLoads,
         FactorUnlocks, FactorChecks, FactorCancels, FactorTakes, FactorFails, FactorLocks,
         FactorCrosses, FactorResets, FactorBurns, FactorSignsIn, FactorTurnsOn, FactorMarks,
         FactorMakes, FactorRewrites, FactorFinds, FactorWipes, FactorCreates, FactorTurnsOff,
         FactorRead, FactorStored, FactorEdited, FactorStore
  <2> QED BY <1>t, <2>1, <2>2, <2>3, <2>4
<1>4. otp' \in [TF!Keys -> [code : Nat, n : Nat]]
  <2>0. TF!NoOtp \in [code : Nat, n : Nat]
    BY DEF TF!NoOtp
  <2>1. FactorTakes(r) => otp' \in [TF!Keys -> [code : Nat, n : Nat]]
    BY <1>t, <2>0 DEF FactorTakes
  <2>2. FactorRearms(r) => otp' \in [TF!Keys -> [code : Nat, n : Nat]]
    <3>1. [code |-> tCall[r].code, n |-> tCall[r].n + 1] \in [code : Nat, n : Nat]
      BY <1>t
    <3> QED BY <1>t, <3>1 DEF FactorRearms
  <2>3. FactorMakes(r) => otp' \in [TF!Keys -> [code : Nat, n : Nat]]
    <3>1. [code |-> tMade + 1, n |-> 0] \in [code : Nat, n : Nat]
      BY <1>t
    <3> QED BY <1>t, <3>1 DEF FactorMakes
  <2>4. FactorTakes(r) \/ FactorRearms(r) \/ FactorMakes(r) \/ otp' = otp
    BY DEF FactorStep, FactorProves, FactorSettles, FactorAdministers, FactorOpens, FactorLoads,
         FactorUnlocks, FactorChecks, FactorBegins, FactorCancels, FactorRestores, FactorFails,
         FactorLocks, FactorCrosses, FactorResets, FactorBurns, FactorSignsIn, FactorTurnsOn,
         FactorMarks, FactorRewrites, FactorFinds, FactorWipes, FactorCreates, FactorTurnsOff,
         FactorRead, FactorStored, FactorEdited, FactorStore
  <2> QED BY <1>t, <2>1, <2>2, <2>3, <2>4
<1>5. tMade' \in 0..MaxMade
  <2>1. tMade' = tMade \/ (tMade < MaxMade /\ tMade' = tMade + 1)
    BY DEF FactorStep, FactorProves, FactorSettles, FactorAdministers, FactorOpens, FactorLoads,
         FactorUnlocks, FactorChecks, FactorBegins, FactorCancels, FactorTakes, FactorRestores,
         FactorRearms, FactorFails, FactorLocks, FactorCrosses, FactorResets, FactorBurns,
         FactorSignsIn, FactorTurnsOn, FactorMarks, FactorMakes, FactorRewrites, FactorFinds,
         FactorWipes, FactorCreates, FactorTurnsOff, FactorRead, FactorStored
  <2> QED BY <1>t, <2>1
<1>6. guessed' \in [Challenges -> Nat]
  <2>1. guessed' = guessed \/ \E k : guessed' = [guessed EXCEPT ![k] = @ + 1]
    BY DEF FactorStep, FactorProves, FactorSettles, FactorAdministers, FactorOpens, FactorLoads,
         FactorUnlocks, FactorChecks, FactorBegins, FactorCancels, FactorTakes, FactorRestores,
         FactorRearms, FactorFails, FactorLocks, FactorCrosses, FactorResets, FactorBurns,
         FactorSignsIn, FactorTurnsOn, FactorMarks, FactorMakes, FactorRewrites, FactorFinds,
         FactorWipes, FactorCreates, FactorTurnsOff, FactorRead, FactorEdited, FactorStore
  <2> QED BY <1>t, <2>1
<1>7. tried' \in [TF!Keys -> [TF!Ids -> Nat]]
  <2>1. \/ tried' = tried
        \/ \E i : tried' = [tried EXCEPT ![tCall[r].key][i] = @ + 1]
    BY DEF FactorStep, FactorProves, FactorSettles, FactorAdministers, FactorOpens, FactorLoads,
         FactorUnlocks, FactorChecks, FactorBegins, FactorCancels, FactorTakes, FactorRestores,
         FactorRearms, FactorFails, FactorLocks, FactorCrosses, FactorResets, FactorBurns,
         FactorSignsIn, FactorTurnsOn, FactorMarks, FactorMakes, FactorRewrites, FactorFinds,
         FactorWipes, FactorCreates, FactorTurnsOff, FactorRead, FactorEdited, FactorStore
  <2>2. ASSUME NEW i, tried' = [tried EXCEPT ![tCall[r].key][i] = @ + 1]
        PROVE  tried' \in [TF!Keys -> [TF!Ids -> Nat]]
    <3>1. [tried[tCall[r].key] EXCEPT ![i] = @ + 1] \in [TF!Ids -> Nat]
      <4> DEFINE f == tried[tCall[r].key]
      <4>1. f \in [TF!Ids -> Nat]
        BY <1>t
      <4> HIDE DEF f
      <4>2. [f EXCEPT ![i] = @ + 1] \in [TF!Ids -> Nat]
        <5>1. CASE i \in TF!Ids
          BY <4>1, <5>1
        <5>2. CASE i \notin TF!Ids
          <6>1. \A j \in TF!Ids : [f EXCEPT ![i] = @ + 1][j] = f[j]
            BY <4>1, <5>2
          <6> QED BY <4>1, <6>1
        <5> QED BY <5>1, <5>2
      <4> QED BY <4>2 DEF f
    <3>2. tried' = [tried EXCEPT ![tCall[r].key] = [tried[tCall[r].key] EXCEPT ![i] = @ + 1]]
      BY <1>t, <2>2
    <3> QED BY <1>t, <3>1, <3>2
  <2> QED BY <1>t, <2>1, <2>2
<1>8. redeemed' \in [TF!AllCodes -> Nat]
  <2>1. redeemed' = redeemed \/ \E k : redeemed' = [redeemed EXCEPT ![k] = @ + 1]
    BY DEF FactorStep, FactorProves, FactorSettles, FactorAdministers, FactorOpens, FactorLoads,
         FactorUnlocks, FactorChecks, FactorBegins, FactorCancels, FactorTakes, FactorRestores,
         FactorRearms, FactorFails, FactorLocks, FactorCrosses, FactorResets, FactorBurns,
         FactorSignsIn, FactorTurnsOn, FactorMarks, FactorMakes, FactorRewrites, FactorFinds,
         FactorWipes, FactorCreates, FactorTurnsOff, FactorRead, FactorStored, FactorKept
  <2> QED BY <1>t, <2>1
<1>9. tSessions' \in [Challenges -> Nat]
  <2>1. tSessions' = tSessions \/ \E k : tSessions' = [tSessions EXCEPT ![k] = @ + 1]
    BY DEF FactorStep, FactorProves, FactorSettles, FactorAdministers, FactorOpens, FactorLoads,
         FactorUnlocks, FactorChecks, FactorBegins, FactorCancels, FactorTakes, FactorRestores,
         FactorRearms, FactorFails, FactorLocks, FactorCrosses, FactorResets, FactorBurns,
         FactorSignsIn, FactorTurnsOn, FactorMarks, FactorMakes, FactorRewrites, FactorFinds,
         FactorWipes, FactorCreates, FactorTurnsOff, FactorRead, FactorStored, FactorEdited
  <2> QED BY <1>t, <2>1
<1>10. streak' \in [TF!Ids -> Nat]
  <2>1. FactorUnlocks(r) => streak' \in [TF!Ids -> Nat]
    BY <1>t DEF FactorUnlocks
  <2>2. FactorFails(r) => streak' \in [TF!Ids -> Nat]
    BY <1>t DEF FactorFails
  <2>3. FactorResets(r) => streak' \in [TF!Ids -> Nat]
    BY <1>t DEF FactorResets
  <2>4. FactorUnlocks(r) \/ FactorFails(r) \/ FactorResets(r) \/ streak' = streak
    BY DEF FactorStep, FactorProves, FactorSettles, FactorAdministers, FactorOpens, FactorLoads,
         FactorChecks, FactorBegins, FactorCancels, FactorTakes, FactorRestores, FactorRearms,
         FactorLocks, FactorCrosses, FactorBurns, FactorSignsIn, FactorTurnsOn, FactorMarks,
         FactorMakes, FactorRewrites, FactorFinds, FactorWipes, FactorCreates, FactorTurnsOff,
         FactorRead, FactorStored, FactorKept
  <2> QED BY <1>t, <2>1, <2>2, <2>3, <2>4
<1> QED BY <1>d, <1>1, <1>2, <1>3, <1>4, <1>5, <1>6, <1>7, <1>8, <1>9, <1>10

LEMMA FactorPathKept ==
  ASSUME FactorBase, NEW r \in Requests, FactorOthers(r), FactorStep(r)
  PROVE  FactorPath(r)'
<1>p. FactorPath(r) /\ tCall[r].key \in Challenges \cup {Account}
  BY FactorTypes DEF FactorBase, TF!Keys
<1>o. /\ tCall'[r].op = tCall[r].op /\ tCall'[r].key = tCall[r].key
      /\ tCall'[r].guess = tCall[r].guess
  BY DEF FactorOthers
<1>i. ASSUME tCall[r].at # "idle", tCall'[r].at # "idle",
             tCall'[r].at \notin {"cancel", "restore", "count", "lockdown", "reset", "burn",
                                  "session", "rearm", "cas"}
      PROVE  FactorPath(r)'
  BY <1>p, <1>o, <1>i DEF FactorPath
<1>a. ASSUME tCall[r].at # "idle", NEW pc, FactorAccepts(r, pc), tCall'[r].at = pc,
             tCall'[r].row = tCall[r].row
      PROVE  FactorPath(r)'
  BY <1>p, <1>o, <1>a DEF FactorPath, FactorAccepts
<1>1. CASE FactorProves(r)
  <2>1. CASE FactorOpens(r) \/ FactorLoads(r) \/ FactorUnlocks(r)
    BY <1>i, <2>1 DEF FactorOpens, FactorLoads, FactorUnlocks, FactorTo, FactorGoes
  <2>2. CASE FactorChecks(r)
    <3>1. PICK pc : (pc = "rejected" \/ FactorAccepts(r, pc)) /\ FactorGoes(r, pc)
      BY <2>2 DEF FactorChecks
    <3>2. tCall[r].at # "idle" /\ tCall'[r].at = pc /\ tCall'[r].row = tCall[r].row
      BY <2>2, <3>1 DEF FactorChecks, FactorGoes, FactorTo
    <3> QED BY <1>i, <1>a, <3>1, <3>2
  <2>3. CASE FactorBegins(r)
    <3>1. PICK pc : /\ pc \in {"rejected", "cancel", "restore", "rearm"} \/ FactorAccepts(r, pc)
                    /\ tCall'[r].at = pc /\ tCall'[r].row = tCall[r].row
      BY <2>3 DEF FactorBegins, FactorGoes, FactorTo
    <3>2. tCall[r].at = "begin" /\ tCall[r].op # "otp" /\ tCall[r].key \in Challenges
      BY <2>3 DEF FactorBegins
    <3>3. CASE pc \in {"rejected", "cancel", "restore", "rearm"}
      BY <1>p, <1>o, <3>1, <3>2, <3>3 DEF FactorPath
    <3> QED BY <1>a, <3>1, <3>2, <3>3
  <2>4. CASE FactorTakes(r)
    <3>1. PICK pc : /\ pc \in {"rejected", "rearm"} \/ FactorAccepts(r, pc)
                    /\ tCall'[r].at = pc /\ tCall'[r].row = tCall[r].row
      BY <2>4 DEF FactorTakes, FactorGoes, FactorTo
    <3>2. tCall[r].at = "begin" /\ tCall[r].op = "otp"
      BY <2>4 DEF FactorTakes
    <3>3. CASE pc \in {"rejected", "rearm"}
      BY <1>p, <1>o, <3>1, <3>2, <3>3 DEF FactorPath
    <3> QED BY <1>a, <3>1, <3>2, <3>3
  <2>5. CASE FactorCancels(r) \/ FactorRestores(r)
    BY <1>i, <2>5 DEF FactorCancels, FactorRestores, FactorTo, FactorGoes
  <2> QED BY <1>1, <2>1, <2>2, <2>3, <2>4, <2>5 DEF FactorProves
<1>2. CASE FactorSettles(r)
  <2>1. CASE FactorRearms(r) \/ FactorCrosses(r)
    BY <1>p, <1>o, <2>1 DEF FactorRearms, FactorCrosses, FactorTo, FactorGoes, FactorPath
  <2>2. CASE FactorFails(r) \/ FactorResets(r) \/ FactorBurns(r)
    BY <1>p, <1>o, <2>2 DEF FactorFails, FactorResets, FactorBurns, FactorTo, FactorGoes, FactorPath
  <2>3. CASE FactorLocks(r) \/ FactorSignsIn(r) \/ FactorTurnsOn(r) \/ FactorMarks(r)
    BY <1>i, <2>3 DEF FactorLocks, FactorSignsIn, FactorTurnsOn, FactorMarks, FactorTo, FactorGoes
  <2> QED BY <1>2, <2>1, <2>2, <2>3 DEF FactorSettles
<1>3. CASE FactorAdministers(r)
  BY <1>i, <1>3 DEF FactorAdministers, FactorMakes, FactorRewrites, FactorFinds, FactorWipes,
                    FactorCreates, FactorTurnsOff, FactorTo, FactorGoes
<1> QED BY <1>1, <1>2, <1>3 DEF FactorStep

LEMMA FactorBaseKept ==
  ASSUME FactorBase, FactorTries, [TF!Next]_TF!vars
  PROVE  FactorBase'
<1>t. /\ tDeploy \in Enrolments /\ tRows \subseteq TF!Row /\ enabled \in BOOLEAN
      /\ challenge \subseteq Challenges /\ budget \in [Challenges -> Nat \cup {-1}]
      /\ otp \in [TF!Keys -> [code : Nat, n : Nat]] /\ tMade \in 0..MaxMade
      /\ tCall \in [Requests -> TF!Call] /\ tNow \in Nat
      /\ guessed \in [Challenges -> Nat] /\ tried \in [TF!Keys -> [TF!Ids -> Nat]]
      /\ redeemed \in [TF!AllCodes -> Nat] /\ tSessions \in [Challenges -> Nat]
      /\ streak \in [TF!Ids -> Nat]
  BY FactorTypes DEF FactorBase
<1>b. FactorTyped /\ \A q \in Requests : FactorPath(q)
  BY DEF FactorBase
<1>c. ASSUME FactorRead, tCall' \in [Requests -> TF!Call] PROVE FactorTyped'
  BY <1>t, <1>c DEF FactorTyped, TF!TypeOK, TF!None, FactorRead, FactorStore, FactorFixed,
                    FactorKept
<1>q. ASSUME NEW r \in Requests, \A q \in Requests : q # r => tCall'[q] = tCall[q], FactorPath(r)'
      PROVE  (\A q \in Requests : FactorPath(q))'
  BY <1>b, <1>q DEF FactorPath
<1>1. ASSUME NEW r \in Requests, FactorOthers(r), FactorStep(r) PROVE FactorBase'
  <2>1. tCall' \in [Requests -> TF!Call]
    BY <1>1, <1>b, FactorCallTyped
  <2>2. FactorTyped'
    <3>1. /\ tDeploy' = tDeploy /\ tNow' = tNow
          /\ tRows' \subseteq TF!Row /\ enabled' \in BOOLEAN /\ challenge' \subseteq Challenges
          /\ budget' \in [Challenges -> Nat \cup {-1}]
          /\ otp' \in [TF!Keys -> [code : Nat, n : Nat]] /\ tMade' \in 0..MaxMade
          /\ guessed' \in [Challenges -> Nat] /\ tried' \in [TF!Keys -> [TF!Ids -> Nat]]
          /\ redeemed' \in [TF!AllCodes -> Nat] /\ tSessions' \in [Challenges -> Nat]
          /\ streak' \in [TF!Ids -> Nat]
      BY <1>1, FactorDataTyped
    <3> QED BY <1>t, <2>1, <3>1 DEF FactorTyped, TF!TypeOK, TF!None
  <2>3. FactorPath(r)'
    BY <1>1, FactorPathKept
  <2>4. \A q \in Requests : q # r => tCall'[q] = tCall[q]
    BY <1>1 DEF FactorOthers
  <2> QED BY <1>q, <2>2, <2>3, <2>4 DEF FactorBase
<1>2. ASSUME NEW r \in Requests, NEW op \in tDeploy.ops[r], FactorStarts(r, op)
      PROVE  FactorBase'
  <2>1. op # "none"
    BY <1>t, FactorDeployTyped DEF TF!AllOps, TF!Verify, TF!Manage
  <2>2. FactorPath(r)'
    BY <1>2, <2>1 DEF FactorStarts, FactorPath
  <2>3. \A q \in Requests : q # r => tCall'[q] = tCall[q]
    BY <1>2 DEF FactorStarts
  <2>4. FactorTyped'
    BY <1>2, <1>c DEF FactorStarts
  <2> QED BY <1>q, <2>2, <2>3, <2>4 DEF FactorBase
<1>3. ASSUME NEW r \in Requests, FactorEnds(r) PROVE FactorBase'
  <2>1. FactorPath(r)'
    BY <1>3, <1>b DEF FactorEnds, FactorPath, TF!Steps
  <2>2. \A q \in Requests : q # r => tCall'[q] = tCall[q]
    BY <1>3 DEF FactorEnds
  <2>3. FactorTyped'
    BY <1>3, <1>c DEF FactorEnds
  <2> QED BY <1>q, <2>1, <2>2, <2>3 DEF FactorBase
<1>4. ASSUME NEW k \in TF!Keys, FactorExpires(k) PROVE FactorBase'
  <2>1. (\A q \in Requests : FactorPath(q))'
    BY <1>4, <1>b DEF FactorExpires, FactorPath
  <2>2. budget' \in [Challenges -> Nat \cup {-1}]
    BY <1>4, <1>t DEF FactorExpires, TF!None
  <2>3. otp' \in [TF!Keys -> [code : Nat, n : Nat]]
    <3>1. TF!NoOtp \in [code : Nat, n : Nat]
      BY DEF TF!NoOtp
    <3> QED BY <1>4, <1>t, <3>1 DEF FactorExpires
  <2>4. challenge' \subseteq Challenges
    BY <1>4, <1>t DEF FactorExpires
  <2>5. FactorTyped'
    BY <1>4, <1>t, <2>2, <2>3, <2>4
       DEF FactorExpires, FactorStored, FactorFixed, FactorKept, FactorTyped, TF!TypeOK, TF!None
  <2> QED BY <2>1, <2>5 DEF FactorBase
<1>5. CASE FactorTicks
  BY <1>5, <1>b, <1>t DEF FactorTicks, FactorStore, FactorKept, FactorBase, FactorTyped, FactorPath,
                          TF!TypeOK, TF!None
<1>6. CASE UNCHANGED TF!vars
  BY <1>6, <1>b, <1>t DEF TF!vars, FactorBase, FactorTyped, FactorPath, TF!TypeOK, TF!None
<1> QED BY <1>b, <1>1, <1>2, <1>3, <1>4, <1>5, <1>6, FactorNext

-----------------------------------------------------------------------------
(* Each part of the invariant is kept. *)

FactorAll == FactorBase /\ FactorBase'

LEMMA FactorPassedKept ==
  ASSUME FactorAll, FactorPassed, [TF!Next]_TF!vars
  PROVE  FactorPassed'
<1>t. /\ challenge \subseteq Challenges /\ tSessions \in [Challenges -> Nat]
      /\ \A q \in Requests : tCall[q].at = "session" => tCall[q].key \in Challenges
      /\ \A q \in Requests : tCall[q].at = "burn" => tCall[q].key \in Challenges
  BY FactorTypes DEF FactorAll, FactorBase, FactorPath
<1>q. ASSUME NEW r \in Requests, \A q \in Requests : q # r => tCall'[q] = tCall[q],
             tCall'[r].at # "session", tSessions' = tSessions, challenge' \subseteq challenge
      PROVE  FactorPassed'
  BY <1>q DEF FactorPassed
<1>n. ASSUME tCall' = tCall, tSessions' = tSessions, challenge' \subseteq challenge
      PROVE  FactorPassed'
  BY <1>n DEF FactorPassed
<1>1. ASSUME NEW r \in Requests, FactorOthers(r), FactorStep(r) PROVE FactorPassed'
  <2>0. \A q \in Requests : q # r => tCall'[q] = tCall[q]
    BY <1>1 DEF FactorOthers
  <2>k. tCall'[r].key = tCall[r].key
    BY <1>1 DEF FactorOthers
  <2>1. CASE FactorBurns(r)
    <3>1. tCall[r].at = "burn" /\ challenge' = challenge \ {tCall[r].key} /\ tSessions' = tSessions
      BY <2>1 DEF FactorBurns, FactorStored
    <3>2. CASE tCall'[r].at # "session"
      BY <1>q, <2>0, <3>1, <3>2
    <3>3. CASE tCall'[r].at = "session"
      <4>1. tCall[r].key \in challenge
        BY <2>1, <3>3 DEF FactorBurns, FactorGoes, FactorTo
      <4>2. tSessions[tCall[r].key] = 0
        BY <1>t, <4>1 DEF FactorPassed
      <4>3. \A q \in Requests : q # r /\ tCall[q].at = "session" => tCall[q].key # tCall[r].key
        BY <4>1 DEF FactorPassed
      <4> QED BY <1>t, <2>0, <2>k, <3>1, <3>3, <4>1, <4>2, <4>3 DEF FactorPassed
    <3> QED BY <3>2, <3>3
  <2>2. CASE FactorSignsIn(r)
    <3>1. /\ tCall[r].at = "session" /\ tCall'[r].at = "ok" /\ challenge' = challenge
          /\ tSessions' = [tSessions EXCEPT ![tCall[r].key] = @ + 1]
      BY <2>2 DEF FactorSignsIn, FactorStore, FactorGoes, FactorTo
    <3>2. tCall[r].key \in Challenges /\ tCall[r].key \notin challenge
          /\ tSessions[tCall[r].key] = 0
      BY <1>t, <3>1 DEF FactorPassed
    <3>3. \A k \in Challenges :
            tSessions'[k] = IF k = tCall[r].key THEN 1 ELSE tSessions[k]
      BY <1>t, <3>1, <3>2
    <3>4. \A q \in Requests : q # r /\ tCall[q].at = "session" => tCall[q].key # tCall[r].key
      BY <3>1 DEF FactorPassed
    <3> QED BY <1>t, <2>0, <3>1, <3>2, <3>3, <3>4 DEF FactorPassed
  <2>3. CASE ~FactorBurns(r) /\ ~FactorSignsIn(r)
    <3>1. tSessions' = tSessions /\ challenge' \subseteq challenge
      BY <1>1, <2>3 DEF FactorStep, FactorProves, FactorSettles, FactorAdministers, FactorOpens,
         FactorLoads, FactorUnlocks, FactorChecks, FactorBegins, FactorCancels, FactorTakes,
         FactorRestores, FactorRearms, FactorFails, FactorLocks, FactorCrosses, FactorResets,
         FactorTurnsOn, FactorMarks, FactorMakes, FactorRewrites, FactorFinds,
         FactorWipes, FactorCreates, FactorTurnsOff, FactorRead, FactorStored, FactorEdited,
         FactorStore
    <3>2. tCall'[r].at # "session"
      BY <1>1, <2>3 DEF FactorStep, FactorProves, FactorSettles, FactorAdministers, FactorOpens,
         FactorLoads, FactorUnlocks, FactorChecks, FactorBegins, FactorCancels, FactorTakes,
         FactorRestores, FactorRearms, FactorFails, FactorLocks, FactorCrosses, FactorResets,
         FactorTurnsOn, FactorMarks, FactorMakes, FactorRewrites, FactorFinds,
         FactorWipes, FactorCreates, FactorTurnsOff, FactorGoes, FactorTo, FactorAccepts
    <3> QED BY <1>q, <2>0, <3>1, <3>2
  <2> QED BY <2>1, <2>2, <2>3
<1>2. ASSUME NEW r \in Requests, NEW op \in tDeploy.ops[r], FactorStarts(r, op)
      PROVE  FactorPassed'
  BY <1>2, <1>q DEF FactorStarts, FactorRead, FactorStore
<1>3. ASSUME NEW r \in Requests, FactorEnds(r) PROVE FactorPassed'
  BY <1>3, <1>q DEF FactorEnds, FactorRead, FactorStore
<1>4. ASSUME NEW k \in TF!Keys, FactorExpires(k) PROVE FactorPassed'
  BY <1>4, <1>n DEF FactorExpires, FactorStored
<1>5. CASE FactorTicks
  BY <1>5, <1>n DEF FactorTicks, FactorStore
<1>6. CASE UNCHANGED TF!vars
  BY <1>6, <1>n DEF TF!vars
<1> QED BY <1>1, <1>2, <1>3, <1>4, <1>5, <1>6, FactorNext DEF FactorAll, FactorBase

LEMMA FactorCountsKept ==
  ASSUME FactorAll, FactorCounts, [TF!Next]_TF!vars
  PROVE  FactorCounts'
<1>t. /\ budget \in [Challenges -> Nat \cup {-1}] /\ guessed \in [Challenges -> Nat]
      /\ Allowed \in Nat
      /\ \A q \in Requests : /\ FactorHolds(q) => tCall[q].key \in Challenges
                             /\ tCall[q].n \in Nat
  BY FactorTypes DEF FactorAll, FactorBase, FactorPath, FactorHolds
<1>n. TF!None = -1
  BY DEF TF!None
<1>g. \A k \in Challenges :
        guessed[k] <= Allowed /\ (budget[k] # -1 => guessed[k] <= budget[k])
  BY <1>n DEF FactorCounts
<1>h. \A q \in Requests : FactorHolds(q) =>
        /\ budget[tCall[q].key] = -1 /\ tCall[q].n < Allowed
        /\ guessed[tCall[q].key] <= tCall[q].n + 1
        /\ tCall[q].at = "restore" => guessed[tCall[q].key] <= tCall[q].n
  BY <1>n DEF FactorCounts
<1>u. \A p, q \in Requests :
        FactorHolds(p) /\ FactorHolds(q) /\ tCall[p].key = tCall[q].key => p = q
  BY DEF FactorCounts
\* Who does not hold one afterwards changes nothing, or has put back what it held.
<1>q. ASSUME NEW r \in Requests, \A q \in Requests : q # r => tCall'[q] = tCall[q],
             ~FactorHolds(r)', guessed' = guessed,
             \/ budget' = budget
             \/ \E k \in Challenges : budget' = [budget EXCEPT ![k] = TF!None]
      PROVE  FactorCounts'
  <2>1. \A k \in Challenges : budget'[k] = budget[k] \/ budget'[k] = -1
    BY <1>q, <1>t, <1>n
  <2>2. \A q \in Requests : FactorHolds(q)' => /\ q # r /\ FactorHolds(q) /\ tCall'[q] = tCall[q]
    BY <1>q DEF FactorHolds
  <2> HIDE DEF FactorHolds
  <2> QED BY <1>q, <1>t, <1>n, <1>g, <1>h, <1>u, <2>1, <2>2 DEF FactorCounts
<1>s. ASSUME tCall' = tCall, guessed' = guessed,
             \/ budget' = budget
             \/ \E k \in Challenges : budget' = [budget EXCEPT ![k] = TF!None]
      PROVE  FactorCounts'
  <2>1. \A k \in Challenges : budget'[k] = budget[k] \/ budget'[k] = -1
    BY <1>s, <1>t, <1>n
  <2>2. \A q \in Requests : FactorHolds(q)' <=> FactorHolds(q)
    BY <1>s DEF FactorHolds
  <2> HIDE DEF FactorHolds
  <2> QED BY <1>s, <1>t, <1>n, <1>g, <1>h, <1>u, <2>1, <2>2 DEF FactorCounts
<1>1. ASSUME NEW r \in Requests, FactorOthers(r), FactorStep(r) PROVE FactorCounts'
  <2>0. /\ \A q \in Requests : q # r => tCall'[q] = tCall[q]
        /\ tCall'[r].key = tCall[r].key /\ tCall'[r].op = tCall[r].op
    BY <1>1 DEF FactorOthers
  <2>1. CASE FactorBegins(r)
    <3> DEFINE k == tCall[r].key
    <3>1. /\ k \in Challenges /\ budget' = [budget EXCEPT ![k] = TF!None]
          /\ tCall[r].at = "begin" /\ tCall[r].op # "otp"
      BY <2>1 DEF FactorBegins
    <3>2. CASE guessed' = guessed /\ \E pc \in {"rejected", "cancel"} : FactorGoes(r, pc)
      <4>1. ~FactorHolds(r)'
        BY <3>2 DEF FactorHolds, FactorGoes, FactorTo
      <4> QED BY <1>q, <2>0, <3>1, <3>2, <4>1
    <3>3. CASE ~(guessed' = guessed /\ \E pc \in {"rejected", "cancel"} : FactorGoes(r, pc))
      <4>1. /\ budget[k] # -1 /\ budget[k] < Allowed
            /\ tCall'[r].n = budget[k]
            /\ \/ tCall'[r].at = "restore" /\ guessed' = guessed
               \/ tCall'[r].at # "restore" /\ guessed' = [guessed EXCEPT ![k] = @ + 1]
        BY <2>1, <3>3, <1>n DEF FactorBegins, FactorTo, FactorAccepts
      <4>2. guessed[k] <= budget[k] /\ budget[k] \in Nat
        BY <1>t, <1>g, <3>1, <4>1
      <4>3. \A q \in Requests : FactorHolds(q) => q # r /\ tCall[q].key # k
        BY <1>h, <3>1, <4>1 DEF FactorHolds
      <4>4. \A q \in Requests : q # r => (FactorHolds(q)' <=> FactorHolds(q))
        BY <2>0 DEF FactorHolds
      <4>5. \A j \in Challenges :
              /\ budget'[j] = IF j = k THEN -1 ELSE budget[j]
              /\ j # k => guessed'[j] = guessed[j]
        BY <1>t, <1>n, <3>1, <4>1
      <4>6. /\ guessed'[k] <= budget[k] + 1 /\ guessed'[k] <= Allowed
            /\ tCall'[r].at = "restore" => guessed'[k] <= budget[k]
        BY <1>t, <3>1, <4>1, <4>2
      <4> HIDE DEF k
      <4>7. \A j \in Challenges :
              guessed'[j] <= Allowed /\ (budget'[j] # -1 => guessed'[j] <= budget'[j])
        BY <1>g, <4>5, <4>6
      <4>8. ASSUME NEW q \in Requests, FactorHolds(q)'
            PROVE  /\ budget'[tCall'[q].key] = -1 /\ tCall'[q].n < Allowed
                   /\ guessed'[tCall'[q].key] <= tCall'[q].n + 1
                   /\ tCall'[q].at = "restore" => guessed'[tCall'[q].key] <= tCall'[q].n
        <5>1. CASE q = r
          BY <2>0, <3>1, <4>1, <4>5, <4>6, <5>1 DEF k
        <5>2. CASE q # r
          <6>1. FactorHolds(q) /\ tCall'[q] = tCall[q] /\ tCall[q].key # k
                /\ tCall[q].key \in Challenges
            BY <1>t, <2>0, <4>3, <4>4, <4>8, <5>2
          <6> QED BY <1>h, <4>5, <6>1
        <5> QED BY <5>1, <5>2
      <4>9. ASSUME NEW p \in Requests, NEW q \in Requests, FactorHolds(p)', FactorHolds(q)',
                   tCall'[p].key = tCall'[q].key
            PROVE  p = q
        BY <1>u, <2>0, <4>3, <4>4, <4>9 DEF k
      <4> QED BY <1>n, <4>7, <4>8, <4>9 DEF FactorCounts
    <3> QED BY <3>2, <3>3
  <2>2. CASE FactorRestores(r) \/ (FactorRearms(r) /\ tCall[r].op # "otp")
    <3> DEFINE k == tCall[r].key
    <3>1. /\ FactorHolds(r) /\ ~FactorHolds(r)' /\ guessed' = guessed
          /\ \/ budget' = budget
             \/ \E v \in Nat : budget' = [budget EXCEPT ![k] = v] /\ guessed[k] <= v
      <4>1. CASE FactorRestores(r)
        <5>1. /\ tCall[r].at = "restore" /\ tCall'[r].at = "rejected" /\ guessed' = guessed
              /\ budget' \in {[budget EXCEPT ![k] = tCall[r].n], budget}
          BY <4>1 DEF FactorRestores, FactorGoes, FactorTo
        <5>2. FactorHolds(r) /\ ~FactorHolds(r)'
          BY <5>1 DEF FactorHolds
        <5> QED BY <1>t, <1>h, <5>1, <5>2
      <4>2. CASE FactorRearms(r) /\ tCall[r].op # "otp"
        <5>1. /\ tCall[r].at = "rearm" /\ tCall'[r].at \in {"count", "rejected"}
              /\ guessed' = guessed
              /\ budget' \in {[budget EXCEPT ![k] = tCall[r].n + 1], budget}
          BY <4>2 DEF FactorRearms, FactorGoes, FactorTo
        <5>2. FactorHolds(r) /\ ~FactorHolds(r)'
          BY <4>2, <5>1 DEF FactorHolds
        <5> QED BY <1>t, <1>h, <5>1, <5>2
      <4> QED BY <2>2, <4>1, <4>2
    <3>2. CASE budget' = budget
      BY <1>q, <2>0, <3>1, <3>2
    <3>3. CASE budget' # budget
      <4>1. PICK v \in Nat : budget' = [budget EXCEPT ![k] = v] /\ guessed[k] <= v
        BY <3>1, <3>3
      <4>2. k \in Challenges
        BY <1>t, <3>1
      <4>3. \A q \in Requests : FactorHolds(q)' =>
              q # r /\ FactorHolds(q) /\ tCall'[q] = tCall[q] /\ tCall[q].key # k
        <5>1. \A q \in Requests : q # r => (FactorHolds(q)' <=> FactorHolds(q))
          BY <2>0 DEF FactorHolds
        <5> QED BY <1>u, <2>0, <3>1, <5>1
      <4>4. \A j \in Challenges : budget'[j] = IF j = k THEN v ELSE budget[j]
        BY <1>t, <4>1, <4>2
      <4>5. guessed[k] <= v /\ guessed' = guessed
        BY <3>1, <4>1
      <4> HIDE DEF k, FactorHolds
      <4> QED BY <1>t, <1>n, <1>g, <1>h, <1>u, <4>2, <4>3, <4>4, <4>5 DEF FactorCounts
    <3> QED BY <3>2, <3>3
  <2>3. CASE ~FactorBegins(r) /\ ~FactorRestores(r) /\ ~(FactorRearms(r) /\ tCall[r].op # "otp")
    <3>1. guessed' = guessed /\ budget' = budget
      BY <1>1, <2>3 DEF FactorStep, FactorProves, FactorSettles, FactorAdministers, FactorOpens,
         FactorLoads, FactorUnlocks, FactorChecks, FactorCancels, FactorTakes, FactorRearms,
         FactorFails, FactorLocks, FactorCrosses, FactorResets, FactorBurns, FactorSignsIn,
         FactorTurnsOn, FactorMarks, FactorMakes, FactorRewrites, FactorFinds,
         FactorWipes, FactorCreates, FactorTurnsOff, FactorRead, FactorStored, FactorEdited,
         FactorStore
    <3>2. tCall'[r].at # "restore" /\ (tCall'[r].at = "rearm" => tCall[r].op = "otp")
      BY <1>1, <2>3 DEF FactorStep, FactorProves, FactorSettles, FactorAdministers, FactorOpens,
         FactorLoads, FactorUnlocks, FactorChecks, FactorCancels, FactorTakes, FactorRearms,
         FactorFails, FactorLocks, FactorCrosses, FactorResets, FactorBurns, FactorSignsIn,
         FactorTurnsOn, FactorMarks, FactorMakes, FactorRewrites, FactorFinds,
         FactorWipes, FactorCreates, FactorTurnsOff, FactorGoes, FactorTo, FactorAccepts
    <3>3. ~FactorHolds(r)'
      BY <2>0, <3>2 DEF FactorHolds
    <3> QED BY <1>q, <2>0, <3>1, <3>3
  <2> QED BY <2>1, <2>2, <2>3
<1>2. ASSUME NEW r \in Requests, NEW op \in tDeploy.ops[r], FactorStarts(r, op)
      PROVE  FactorCounts'
  BY <1>2, <1>q DEF FactorStarts, FactorRead, FactorStore, FactorHolds
<1>3. ASSUME NEW r \in Requests, FactorEnds(r) PROVE FactorCounts'
  BY <1>3, <1>q DEF FactorEnds, FactorRead, FactorStore, FactorHolds
<1>4. ASSUME NEW k \in TF!Keys, FactorExpires(k) PROVE FactorCounts'
  BY <1>4, <1>s DEF FactorExpires, FactorStored
<1>5. CASE FactorTicks
  BY <1>5, <1>s DEF FactorTicks, FactorStore
<1>6. CASE UNCHANGED TF!vars
  BY <1>6, <1>s DEF TF!vars
<1> QED BY <1>1, <1>2, <1>3, <1>4, <1>5, <1>6, FactorNext DEF FactorAll, FactorBase

LEMMA FactorTriesKept ==
  ASSUME FactorAll, FactorTries, [TF!Next]_TF!vars
  PROVE  FactorTries'
<1>t. /\ otp \in [TF!Keys -> [code : Nat, n : Nat]] /\ tried \in [TF!Keys -> [TF!Ids -> Nat]]
      /\ Allowed \in Nat /\ tMade \in Nat /\ MaxMade \in Nat /\ tMade <= MaxMade
      /\ \A q \in Requests : /\ tCall[q].key \in TF!Keys /\ tCall[q].n \in Nat
                             /\ tCall[q].code \in Nat
      /\ Challenges \subseteq TF!Keys
  BY FactorTypes DEF FactorAll, FactorBase
<1>i. TF!Ids = 1..MaxMade
  BY DEF TF!Ids
<1>o. TF!NoOtp = [code |-> 0, n |-> 0]
  BY DEF TF!NoOtp
<1>a. \A k \in TF!Keys : /\ otp[k].code <= tMade /\ (otp[k].code = 0 => otp[k] = TF!NoOtp)
                         /\ otp[k].code # 0 => tried[k][otp[k].code] <= otp[k].n
                         /\ otp[k].code \in Nat /\ otp[k].n \in Nat
  BY <1>t DEF FactorTries
<1>b. \A k \in TF!Keys : \A i \in TF!Ids : tried[k][i] <= Allowed /\ (i > tMade => tried[k][i] = 0)
  BY DEF FactorTries
<1>h. \A q \in Requests : FactorHoldsOtp(q) =>
        /\ tCall[q].code \in 1..tMade /\ tCall[q].n < Allowed
        /\ tried[tCall[q].key][tCall[q].code] <= tCall[q].n + 1
        /\ otp[tCall[q].key].code # tCall[q].code
  BY DEF FactorTries
<1>u. \A p, q \in Requests :
        /\ FactorHoldsOtp(p) /\ FactorHoldsOtp(q)
        /\ tCall[p].key = tCall[q].key /\ tCall[p].code = tCall[q].code
        => p = q
  BY DEF FactorTries
\* The requests that hold an OTP held it before, or there is one more.
<1>q. ASSUME NEW r \in Requests, \A q \in Requests : q # r => tCall'[q] = tCall[q],
             ~FactorHoldsOtp(r)', tried' = tried, tMade' = tMade,
             \/ otp' = otp
             \/ \E k \in TF!Keys : otp' = [otp EXCEPT ![k] = TF!NoOtp]
      PROVE  FactorTries'
  <2>1. \A k \in TF!Keys : otp'[k] = otp[k] \/ otp'[k] = TF!NoOtp
    BY <1>q, <1>t
  <2>2. \A q \in Requests : FactorHoldsOtp(q)' => q # r /\ FactorHoldsOtp(q) /\ tCall'[q] = tCall[q]
    BY <1>q DEF FactorHoldsOtp
  <2>3. \A k \in TF!Keys : otp'[k].code = 0 \/ otp'[k] = otp[k]
    BY <2>1, <1>o
  <2>4. \A k \in TF!Keys : /\ otp'[k].code <= tMade /\ (otp'[k].code = 0 => otp'[k] = TF!NoOtp)
                           /\ otp'[k].code # 0 => tried[k][otp'[k].code] <= otp'[k].n
    BY <1>t, <1>a, <1>o, <2>1
  <2> HIDE DEF FactorHoldsOtp
  <2>5. \A q \in Requests : FactorHoldsOtp(q)' =>
          /\ tCall'[q].code \in 1..tMade /\ tCall'[q].n < Allowed
          /\ tried[tCall'[q].key][tCall'[q].code] <= tCall'[q].n + 1
          /\ otp'[tCall'[q].key].code # tCall'[q].code
    BY <1>t, <1>h, <2>2, <2>3
  <2>6. \A p, q \in Requests :
          /\ FactorHoldsOtp(p)' /\ FactorHoldsOtp(q)'
          /\ tCall'[p].key = tCall'[q].key /\ tCall'[p].code = tCall'[q].code
          => p = q
    BY <1>u, <2>2
  <2> QED BY <1>q, <1>b, <2>4, <2>5, <2>6 DEF FactorTries
<1>s. ASSUME tCall' = tCall, tried' = tried, tMade' = tMade,
             \/ otp' = otp
             \/ \E k \in TF!Keys : otp' = [otp EXCEPT ![k] = TF!NoOtp]
      PROVE  FactorTries'
  <2>1. \A k \in TF!Keys : otp'[k] = otp[k] \/ otp'[k] = TF!NoOtp
    BY <1>s, <1>t
  <2>2. \A q \in Requests : FactorHoldsOtp(q)' <=> FactorHoldsOtp(q)
    BY <1>s DEF FactorHoldsOtp
  <2>3. \A k \in TF!Keys : otp'[k].code = 0 \/ otp'[k] = otp[k]
    BY <2>1, <1>o
  <2>4. \A k \in TF!Keys : /\ otp'[k].code <= tMade /\ (otp'[k].code = 0 => otp'[k] = TF!NoOtp)
                           /\ otp'[k].code # 0 => tried[k][otp'[k].code] <= otp'[k].n
    BY <1>t, <1>a, <1>o, <2>1
  <2> HIDE DEF FactorHoldsOtp
  <2>5. \A q \in Requests : FactorHoldsOtp(q)' =>
          /\ tCall'[q].code \in 1..tMade /\ tCall'[q].n < Allowed
          /\ tried[tCall'[q].key][tCall'[q].code] <= tCall'[q].n + 1
          /\ otp'[tCall'[q].key].code # tCall'[q].code
    BY <1>s, <1>t, <1>h, <2>2, <2>3
  <2> QED BY <1>s, <1>b, <1>u, <2>2, <2>4, <2>5 DEF FactorTries
<1>1. ASSUME NEW r \in Requests, FactorOthers(r), FactorStep(r) PROVE FactorTries'
  <2>0. /\ \A q \in Requests : q # r => tCall'[q] = tCall[q]
        /\ tCall'[r].key = tCall[r].key /\ tCall'[r].op = tCall[r].op
    BY <1>1 DEF FactorOthers
  <2> DEFINE k == tCall[r].key
  <2>k. k \in TF!Keys
    BY <1>t
  <2>e. \A q \in Requests : q # r => (FactorHoldsOtp(q)' <=> FactorHoldsOtp(q))
    BY <2>0 DEF FactorHoldsOtp
  <2>1. CASE FactorTakes(r)
    <3>1. /\ otp' = [otp EXCEPT ![k] = TF!NoOtp] /\ tMade' = tMade
          /\ tCall[r].at = "begin" /\ tCall[r].op = "otp"
      BY <2>1 DEF FactorTakes, FactorStored
    <3>2. CASE FactorGoes(r, "rejected") /\ tried' = tried
      <4>1. ~FactorHoldsOtp(r)'
        BY <3>2 DEF FactorHoldsOtp, FactorGoes, FactorTo
      <4> QED BY <1>q, <2>0, <2>k, <3>1, <3>2, <4>1
    <3>3. CASE ~(FactorGoes(r, "rejected") /\ tried' = tried)
      <4> DEFINE i == otp[k].code
      <4>1. /\ otp[k] # TF!NoOtp /\ otp[k].n < Allowed
            /\ tried' = [tried EXCEPT ![k][i] = @ + 1]
            /\ tCall'[r].n = otp[k].n /\ tCall'[r].code = i
        BY <2>1, <3>3 DEF FactorTakes, FactorTo
      <4>2. i \in 1..tMade /\ i \in TF!Ids /\ tried[k][i] <= otp[k].n /\ otp[k].n \in Nat
        BY <1>t, <1>a, <1>i, <2>k, <4>1
      <4>3. \A q \in Requests : q # r /\ FactorHoldsOtp(q)' =>
              FactorHoldsOtp(q) /\ tCall'[q] = tCall[q] /\ ~(tCall[q].key = k /\ tCall[q].code = i)
        BY <1>h, <2>0, <2>e
      <4>4. \A j \in TF!Keys : otp'[j] = IF j = k THEN TF!NoOtp ELSE otp[j]
        BY <1>t, <2>k, <3>1
      <4>5. /\ \A j \in TF!Keys : j # k => tried'[j] = tried[j]
            /\ \A n \in TF!Ids : tried'[k][n] = IF n = i THEN tried[k][n] + 1 ELSE tried[k][n]
        <5> DEFINE f == tried[k]
        <5>1. f \in [TF!Ids -> Nat]
          BY <1>t, <2>k
        <5>2. \A j \in TF!Keys : tried'[j] = IF j = k THEN [f EXCEPT ![i] = @ + 1] ELSE tried[j]
          BY <1>t, <2>k, <4>1
        <5> HIDE DEF f, i
        <5>3. \A n \in TF!Ids : [f EXCEPT ![i] = @ + 1][n] = IF n = i THEN f[n] + 1 ELSE f[n]
          BY <4>2, <5>1
        <5> QED BY <2>k, <5>2, <5>3 DEF f
      <4>6. tried[k][i] \in Nat
        BY <1>t, <2>k, <4>2
      <4> HIDE DEF i
      <4>7. \A j \in TF!Keys :
              /\ otp'[j].code <= tMade /\ (otp'[j].code = 0 => otp'[j] = TF!NoOtp)
              /\ otp'[j].code # 0 => tried'[j][otp'[j].code] <= otp'[j].n
        <5> TAKE j \in TF!Keys
        <5>1. CASE j = k
          BY <1>t, <1>o, <4>4, <5>1
        <5>2. CASE j # k
          BY <1>a, <4>4, <4>5, <5>2
        <5> QED BY <5>1, <5>2
      <4>8. \A j \in TF!Keys : \A n \in TF!Ids :
              tried'[j][n] <= Allowed /\ (n > tMade => tried'[j][n] = 0)
        <5> TAKE j \in TF!Keys
        <5> TAKE n \in TF!Ids
        <5>1. CASE j = k /\ n = i
          BY <1>t, <4>1, <4>2, <4>5, <4>6, <5>1
        <5>2. CASE ~(j = k /\ n = i)
          BY <1>b, <4>5, <5>2
        <5> QED BY <5>1, <5>2
      <4>9. ASSUME NEW q \in Requests, FactorHoldsOtp(q)'
            PROVE  /\ tCall'[q].code \in 1..tMade /\ tCall'[q].n < Allowed
                   /\ tried'[tCall'[q].key][tCall'[q].code] <= tCall'[q].n + 1
                   /\ otp'[tCall'[q].key].code # tCall'[q].code
        <5>1. CASE q = r
          BY <1>t, <1>o, <2>0, <2>k, <4>1, <4>2, <4>4, <4>5, <4>6, <5>1
        <5>2. CASE q # r
          <6>1. /\ FactorHoldsOtp(q) /\ tCall'[q] = tCall[q]
                /\ ~(tCall[q].key = k /\ tCall[q].code = i)
            BY <4>3, <4>9, <5>2
          <6>2. /\ tCall[q].key \in TF!Keys /\ tCall[q].code \in 1..tMade
                /\ tCall[q].code \in TF!Ids
            BY <1>t, <1>h, <1>i, <6>1
          <6>3. tried'[tCall[q].key][tCall[q].code] = tried[tCall[q].key][tCall[q].code]
            BY <4>5, <6>1, <6>2
          <6>4. otp'[tCall[q].key].code # tCall[q].code
            BY <1>h, <1>o, <4>4, <6>1, <6>2
          <6> QED BY <1>h, <6>1, <6>3, <6>4
        <5> QED BY <5>1, <5>2
      <4>10. ASSUME NEW p \in Requests, NEW q \in Requests, FactorHoldsOtp(p)', FactorHoldsOtp(q)',
                    tCall'[p].key = tCall'[q].key, tCall'[p].code = tCall'[q].code
             PROVE  p = q
        BY <1>u, <2>0, <4>1, <4>3, <4>10
      <4> QED BY <3>1, <4>7, <4>8, <4>9, <4>10 DEF FactorTries
    <3> QED BY <3>2, <3>3
  <2>2. CASE FactorRearms(r) /\ tCall[r].op = "otp"
    <3>1. /\ FactorHoldsOtp(r) /\ ~FactorHoldsOtp(r)' /\ tried' = tried /\ tMade' = tMade
          /\ otp' = [otp EXCEPT ![k] = [code |-> tCall[r].code, n |-> tCall[r].n + 1]]
      BY <2>2 DEF FactorRearms, FactorGoes, FactorTo, FactorHoldsOtp, FactorStored
    <3>2. \A q \in Requests : FactorHoldsOtp(q)' =>
            /\ q # r /\ FactorHoldsOtp(q) /\ tCall'[q] = tCall[q]
            /\ ~(tCall[q].key = k /\ tCall[q].code = tCall[r].code)
      BY <1>u, <2>0, <2>e, <3>1
    <3>3. /\ tCall[r].code \in 1..tMade /\ tCall[r].code \in Nat /\ tCall[r].n \in Nat
          /\ tried[k][tCall[r].code] <= tCall[r].n + 1
      BY <1>t, <1>h, <3>1
    <3>4. \A j \in TF!Keys : /\ j # k => otp'[j] = otp[j]
                             /\ otp'[k].code = tCall[r].code /\ otp'[k].n = tCall[r].n + 1
      BY <1>t, <2>k, <3>1
    <3> HIDE DEF k
    <3>5. \A j \in TF!Keys :
            /\ otp'[j].code <= tMade /\ (otp'[j].code = 0 => otp'[j] = TF!NoOtp)
            /\ otp'[j].code # 0 => tried[j][otp'[j].code] <= otp'[j].n
      <4> TAKE j \in TF!Keys
      <4>1. CASE j = k
        BY <1>t, <3>3, <3>4, <4>1
      <4>2. CASE j # k
        BY <1>a, <3>4, <4>2
      <4> QED BY <4>1, <4>2
    <3>6. \A q \in Requests : FactorHoldsOtp(q)' =>
            /\ tCall'[q].code \in 1..tMade /\ tCall'[q].n < Allowed
            /\ tried[tCall'[q].key][tCall'[q].code] <= tCall'[q].n + 1
            /\ otp'[tCall'[q].key].code # tCall'[q].code
      <4> TAKE q \in Requests
      <4>1. ASSUME FactorHoldsOtp(q)' PROVE otp'[tCall[q].key].code # tCall[q].code
        <5>1. /\ FactorHoldsOtp(q) /\ tCall[q].key \in TF!Keys
              /\ ~(tCall[q].key = k /\ tCall[q].code = tCall[r].code)
          BY <1>t, <3>2, <4>1
        <5>2. CASE tCall[q].key = k
          BY <2>k, <3>4, <5>1, <5>2 DEF k
        <5>3. CASE tCall[q].key # k
          BY <1>h, <3>4, <5>1, <5>3
        <5> QED BY <5>2, <5>3
      <4> QED BY <1>h, <3>2, <4>1
    <3>7. \A p, q \in Requests :
            /\ FactorHoldsOtp(p)' /\ FactorHoldsOtp(q)'
            /\ tCall'[p].key = tCall'[q].key /\ tCall'[p].code = tCall'[q].code
            => p = q
      BY <1>u, <3>2
    <3> QED BY <1>b, <3>1, <3>5, <3>6, <3>7 DEF FactorTries
  <2>3. CASE FactorMakes(r) \/ FactorRewrites(r) \/ FactorCreates(r)
    <3>1. /\ ~FactorHoldsOtp(r)' /\ tried' = tried /\ tMade' = tMade + 1 /\ tMade < MaxMade
          /\ \/ otp' = otp
             \/ otp' = [otp EXCEPT ![k] = [code |-> tMade + 1, n |-> 0]]
      BY <2>3 DEF FactorMakes, FactorRewrites, FactorCreates, FactorGoes, FactorTo,
                  FactorHoldsOtp, FactorEdited, FactorStore
    <3>2. \A q \in Requests : FactorHoldsOtp(q)' =>
            q # r /\ FactorHoldsOtp(q) /\ tCall'[q] = tCall[q]
      BY <2>0, <2>e, <3>1
    <3>3. \A j \in TF!Keys : otp'[j] = otp[j] \/ (otp'[j].code = tMade + 1 /\ otp'[j].n = 0)
      BY <1>t, <2>k, <3>1
    <3>4. tMade + 1 \in TF!Ids
      BY <1>t, <1>i, <3>1
    <3>5. \A j \in TF!Keys : tried[j][tMade + 1] = 0
      BY <1>t, <1>b, <3>4
    <3> HIDE DEF k
    <3>6. \A j \in TF!Keys :
            /\ otp'[j].code <= tMade + 1 /\ (otp'[j].code = 0 => otp'[j] = TF!NoOtp)
            /\ otp'[j].code # 0 => tried[j][otp'[j].code] <= otp'[j].n
      <4> TAKE j \in TF!Keys
      <4>1. CASE otp'[j] = otp[j]
        BY <1>t, <1>a, <4>1
      <4>2. CASE otp'[j].code = tMade + 1 /\ otp'[j].n = 0
        BY <1>t, <3>5, <4>2
      <4> QED BY <3>3, <4>1, <4>2
    <3>7. \A j \in TF!Keys : \A n \in TF!Ids :
            tried[j][n] <= Allowed /\ (n > tMade + 1 => tried[j][n] = 0)
      BY <1>t, <1>b, <1>i
    <3>8. \A q \in Requests : FactorHoldsOtp(q)' =>
            /\ tCall'[q].code \in 1..(tMade + 1) /\ tCall'[q].n < Allowed
            /\ tried[tCall'[q].key][tCall'[q].code] <= tCall'[q].n + 1
            /\ otp'[tCall'[q].key].code # tCall'[q].code
      <4> TAKE q \in Requests
      <4>1. ASSUME FactorHoldsOtp(q)'
            PROVE  tCall[q].code \in 1..(tMade + 1) /\ otp'[tCall[q].key].code # tCall[q].code
        <5>1. /\ FactorHoldsOtp(q) /\ tCall[q].key \in TF!Keys /\ tCall[q].code \in 1..tMade
              /\ otp[tCall[q].key].code # tCall[q].code
          BY <1>t, <1>h, <3>2, <4>1
        <5> QED BY <1>t, <3>3, <5>1
      <4> QED BY <1>h, <3>2, <4>1
    <3>9. \A p, q \in Requests :
            /\ FactorHoldsOtp(p)' /\ FactorHoldsOtp(q)'
            /\ tCall'[p].key = tCall'[q].key /\ tCall'[p].code = tCall'[q].code
            => p = q
      BY <1>u, <3>2
    <3> QED BY <3>1, <3>6, <3>7, <3>8, <3>9 DEF FactorTries
  <2>4. CASE /\ ~FactorTakes(r) /\ ~(FactorRearms(r) /\ tCall[r].op = "otp")
             /\ ~FactorMakes(r) /\ ~FactorRewrites(r) /\ ~FactorCreates(r)
    <3>1. tried' = tried /\ otp' = otp /\ tMade' = tMade
      BY <1>1, <2>4 DEF FactorStep, FactorProves, FactorSettles, FactorAdministers, FactorOpens,
         FactorLoads, FactorUnlocks, FactorChecks, FactorBegins, FactorCancels, FactorRestores,
         FactorRearms, FactorFails, FactorLocks, FactorCrosses, FactorResets, FactorBurns,
         FactorSignsIn, FactorTurnsOn, FactorMarks, FactorFinds, FactorWipes, FactorTurnsOff,
         FactorRead, FactorStored, FactorEdited, FactorStore
    <3>2. tCall'[r].at = "rearm" => tCall[r].op # "otp"
      BY <1>1, <2>4 DEF FactorStep, FactorProves, FactorSettles, FactorAdministers, FactorOpens,
         FactorLoads, FactorUnlocks, FactorChecks, FactorBegins, FactorCancels, FactorRestores,
         FactorRearms, FactorFails, FactorLocks, FactorCrosses, FactorResets, FactorBurns,
         FactorSignsIn, FactorTurnsOn, FactorMarks, FactorFinds, FactorWipes, FactorTurnsOff,
         FactorGoes, FactorTo, FactorAccepts
    <3>3. ~FactorHoldsOtp(r)'
      BY <2>0, <3>2 DEF FactorHoldsOtp
    <3> QED BY <1>q, <2>0, <3>1, <3>3
  <2> QED BY <2>1, <2>2, <2>3, <2>4
<1>2. ASSUME NEW r \in Requests, NEW op \in tDeploy.ops[r], FactorStarts(r, op)
      PROVE  FactorTries'
  BY <1>2, <1>q DEF FactorStarts, FactorRead, FactorStore, FactorHoldsOtp
<1>3. ASSUME NEW r \in Requests, FactorEnds(r) PROVE FactorTries'
  BY <1>3, <1>q DEF FactorEnds, FactorRead, FactorStore, FactorHoldsOtp
<1>4. ASSUME NEW k \in TF!Keys, FactorExpires(k) PROVE FactorTries'
  BY <1>4, <1>s DEF FactorExpires, FactorStored
<1>5. CASE FactorTicks
  BY <1>5, <1>s DEF FactorTicks, FactorStore
<1>6. CASE UNCHANGED TF!vars
  BY <1>6, <1>s DEF TF!vars
<1> QED BY <1>1, <1>2, <1>3, <1>4, <1>5, <1>6, FactorNext DEF FactorAll, FactorBase

\* What the lock of a row goes by; a step that is none of five leaves it alone, or there
\* are no rows any more.
FactorSame(x, y) == y.id = x.id /\ y.count = x.count /\ y.lockedUntil = x.lockedUntil
FactorLocking(q, i) ==
  tCall[q].row.id = i /\ (tCall[q].at = "lockdown" \/ tCall[q].from = "lockdown")
FactorCounted(r) == FactorUnlocks(r) \/ FactorFails(r) \/ FactorLocks(r) \/ FactorResets(r)

LEMMA FactorRowsMove ==
  ASSUME NEW r \in Requests, FactorStep(r), ~FactorCounted(r), ~FactorCreates(r)
  PROVE  /\ streak' = streak
         /\ \A y \in tRows' : \E x \in tRows : FactorSame(x, y)
         /\ tRows' = {} \/ \A x \in tRows : \E y \in tRows' : FactorSame(x, y)
         /\ (\A x, y \in tRows : x.id = y.id => x = y) => \A x, y \in tRows' : x.id = y.id => x = y
<1>s. ASSUME tRows' = tRows, streak' = streak
      PROVE  /\ \A y \in tRows' : \E x \in tRows : FactorSame(x, y)
             /\ \A x \in tRows : \E y \in tRows' : FactorSame(x, y)
             /\ (\A x, y \in tRows : x.id = y.id => x = y) =>
                  \A x, y \in tRows' : x.id = y.id => x = y
  BY <1>s DEF FactorSame
<1>1. CASE FactorProves(r)
  <2>1. tRows' = tRows /\ streak' = streak
    BY <1>1 DEF FactorCounted, FactorProves, FactorOpens, FactorLoads, FactorChecks, FactorBegins,
         FactorCancels, FactorTakes, FactorRestores, FactorRead, FactorStored, FactorKept
  <2> QED BY <1>s, <2>1
<1>2. CASE FactorSettles(r)
  <2>1. CASE FactorRearms(r) \/ FactorBurns(r) \/ FactorSignsIn(r) \/ FactorTurnsOn(r)
    <3>1. tRows' = tRows /\ streak' = streak
      BY <2>1 DEF FactorRearms, FactorBurns, FactorSignsIn, FactorTurnsOn, FactorStored, FactorKept
    <3> QED BY <1>s, <3>1
  <2>2. CASE FactorCrosses(r)
    <3>1. CASE tRows' = tRows
      BY <1>s, <2>2, <3>1 DEF FactorCrosses
    <3>2. CASE tRows' # tRows
      <4> DEFINE F(x) == IF FactorMine(r, x) /\ x.codes = tCall[r].row.codes
                           THEN FactorRow(x.id, x.codes \ {tCall[r].guess}, x.count,
                                          x.lockedUntil, x.verified) ELSE x
      <4>1. tRows' = {F(x) : x \in tRows} /\ streak' = streak
        BY <2>2, <3>2 DEF FactorCrosses
      <4>2. \A x \in tRows : FactorSame(x, F(x))
        BY DEF FactorSame, FactorRow
      <4> HIDE DEF F
      <4> QED BY <4>1, <4>2 DEF FactorSame
    <3> QED BY <3>1, <3>2
  <2>3. CASE FactorMarks(r)
    <3> DEFINE F(x) == IF FactorMine(r, x)
                         THEN FactorRow(x.id, x.codes, x.count, x.lockedUntil, TRUE) ELSE x
    <3>1. tRows' = {F(x) : x \in tRows} /\ streak' = streak
      BY <2>3 DEF FactorMarks
    <3>2. \A x \in tRows : FactorSame(x, F(x))
      BY DEF FactorSame, FactorRow
    <3> HIDE DEF F
    <3> QED BY <3>1, <3>2 DEF FactorSame
  <2> QED BY <1>2, <2>1, <2>2, <2>3 DEF FactorSettles, FactorCounted
<1>3. CASE FactorAdministers(r)
  <2>1. CASE FactorMakes(r) \/ FactorFinds(r) \/ FactorTurnsOff(r)
    <3>1. tRows' = tRows /\ streak' = streak
      BY <2>1 DEF FactorMakes, FactorFinds, FactorTurnsOff, FactorRead, FactorKept
    <3> QED BY <1>s, <3>1
  <2>2. CASE FactorRewrites(r)
    <3> DEFINE F(x) == IF FactorMine(r, x)
                         THEN FactorRow(x.id, TF!CodesOf(tMade + 1), x.count, x.lockedUntil,
                                        x.verified) ELSE x
    <3>1. tRows' = {F(x) : x \in tRows} /\ streak' = streak
      BY <2>2 DEF FactorRewrites
    <3>2. \A x \in tRows : FactorSame(x, F(x))
      BY DEF FactorSame, FactorRow
    <3> HIDE DEF F
    <3> QED BY <3>1, <3>2 DEF FactorSame
  <2>3. CASE FactorWipes(r)
    BY <2>3 DEF FactorWipes
  <2> QED BY <1>3, <2>1, <2>2, <2>3 DEF FactorAdministers
<1> QED BY <1>1, <1>2, <1>3 DEF FactorStep

\* A lock that is to be written stays to be written, except by the one who writes it.
LEMMA FactorLockingKept ==
  ASSUME FactorAll, FactorRows, [TF!Next]_TF!vars
  PROVE  /\ \A q \in Requests : tCall'[q].from # "idle" => tCall'[q].at = "failed"
         /\ \A q \in Requests, i \in Nat :
              FactorLocking(q, i) /\ ~FactorLocks(q) => FactorLocking(q, i)'
<1>f. \A q \in Requests : tCall[q].from # "idle" => tCall[q].at = "failed"
  BY DEF FactorRows
<1>s. ASSUME tCall' = tCall
      PROVE  /\ \A q \in Requests : tCall'[q].from # "idle" => tCall'[q].at = "failed"
             /\ \A q \in Requests, i \in Nat : FactorLocking(q, i) => FactorLocking(q, i)'
  BY <1>f, <1>s DEF FactorLocking
<1>1. ASSUME NEW r \in Requests, FactorOthers(r), FactorStep(r)
      PROVE  /\ \A q \in Requests : tCall'[q].from # "idle" => tCall'[q].at = "failed"
             /\ \A q \in Requests, i \in Nat :
                  FactorLocking(q, i) /\ ~FactorLocks(q) => FactorLocking(q, i)'
  <2>1. \A q \in Requests : q # r => tCall'[q] = tCall[q]
    BY <1>1 DEF FactorOthers
  <2>2. tCall'[r].from = tCall[r].from
    BY <1>1 DEF FactorStep, FactorProves, FactorSettles, FactorAdministers, FactorOpens,
         FactorLoads, FactorUnlocks, FactorChecks, FactorBegins, FactorCancels, FactorTakes,
         FactorRestores, FactorRearms, FactorFails, FactorLocks, FactorCrosses, FactorResets,
         FactorBurns, FactorSignsIn, FactorTurnsOn, FactorMarks, FactorMakes, FactorRewrites,
         FactorFinds, FactorWipes, FactorCreates, FactorTurnsOff, FactorGoes, FactorTo
  <2>3. tCall[r].at # "failed" /\ (tCall[r].at = "lockdown" => FactorLocks(r))
    <3>1. FactorLocks(r) \/ tCall[r].at \notin {"failed", "lockdown"}
      BY <1>1 DEF FactorStep, FactorProves, FactorSettles, FactorAdministers, FactorOpens,
         FactorLoads, FactorUnlocks, FactorChecks, FactorBegins, FactorCancels, FactorTakes,
         FactorRestores, FactorRearms, FactorFails, FactorCrosses, FactorResets,
         FactorBurns, FactorSignsIn, FactorTurnsOn, FactorMarks, FactorMakes, FactorRewrites,
         FactorFinds, FactorWipes, FactorCreates, FactorTurnsOff
    <3>2. FactorLocks(r) => tCall[r].at = "lockdown"
      BY DEF FactorLocks
    <3> QED BY <3>1, <3>2
  <2>4. tCall[r].from = "idle"
    BY <1>f, <2>3
  <2> QED BY <1>f, <2>1, <2>2, <2>3, <2>4 DEF FactorLocking
<1>2. ASSUME NEW r \in Requests, NEW op \in tDeploy.ops[r], FactorStarts(r, op)
      PROVE  /\ \A q \in Requests : tCall'[q].from # "idle" => tCall'[q].at = "failed"
             /\ \A q \in Requests, i \in Nat : FactorLocking(q, i) => FactorLocking(q, i)'
  BY <1>2, <1>f DEF FactorStarts, FactorLocking
<1>3. ASSUME NEW r \in Requests, FactorEnds(r)
      PROVE  /\ \A q \in Requests : tCall'[q].from # "idle" => tCall'[q].at = "failed"
             /\ \A q \in Requests, i \in Nat : FactorLocking(q, i) => FactorLocking(q, i)'
  <2>1. tCall[r].at # "failed"
    BY <1>3 DEF FactorEnds, TF!Steps
  <2> QED BY <1>3, <1>f, <2>1 DEF FactorEnds, FactorLocking
<1>4. ASSUME NEW k \in TF!Keys, FactorExpires(k) PROVE tCall' = tCall
  BY <1>4 DEF FactorExpires
<1>5. CASE FactorTicks
  BY <1>5, <1>s DEF FactorTicks
<1>6. CASE UNCHANGED TF!vars
  BY <1>6, <1>s DEF TF!vars
<1> QED BY <1>s, <1>1, <1>2, <1>3, <1>4, <1>5, <1>6, FactorNext DEF FactorAll, FactorBase

LEMMA FactorRowsKept ==
  ASSUME FactorAll, FactorRows, [TF!Next]_TF!vars
  PROVE  FactorRows'
<1>t. /\ tRows \subseteq TF!Row /\ tMade \in Nat /\ MaxMade \in Nat /\ tMade <= MaxMade
      /\ tMade' \in Nat /\ tMade' <= MaxMade /\ tRows' \subseteq TF!Row
      /\ tNow \in Nat /\ LockFor \in Nat /\ streak \in [TF!Ids -> Nat]
      /\ tDeploy.maxFailed \in Nat \ {0} /\ streak' \in [TF!Ids -> Nat]
  <2>1. FactorTyped /\ FactorTyped'
    BY DEF FactorAll, FactorBase
  <2>2. tRows' \subseteq TF!Row /\ tMade' \in 0..MaxMade /\ streak' \in [TF!Ids -> Nat]
    BY <2>1 DEF FactorTyped, TF!TypeOK
  <2> QED BY <2>1, <2>2, FactorTypes, FactorDeployTyped
<1>i. TF!Ids = 1..MaxMade
  BY DEF TF!Ids
<1>x. \A x \in tRows : /\ x.id \in Nat /\ x.count \in Nat /\ x.lockedUntil \in Nat \cup {-1}
                       /\ x.id \in 1..tMade /\ x.id \in TF!Ids /\ x.count = streak[x.id]
                       /\ x.lockedUntil <= tNow + LockFor
  BY <1>t, <1>i DEF FactorRows, TF!Row, TF!None
<1>u. \A x, y \in tRows : x.id = y.id => x = y
  BY DEF FactorRows
<1>z. \A j \in TF!Ids : j > tMade => streak[j] = 0
  BY DEF FactorRows
<1>l. \A x \in tRows : streak[x.id] >= tDeploy.maxFailed =>
        x.lockedUntil # TF!None \/ \E q \in Requests : FactorLocking(q, x.id)
  BY DEF FactorRows, TF!LockEngages, TF!At, FactorLocking
<1>f. /\ \A q \in Requests : tCall'[q].from # "idle" => tCall'[q].at = "failed"
      /\ \A q \in Requests, j \in Nat :
           FactorLocking(q, j) /\ ~FactorLocks(q) => FactorLocking(q, j)'
  BY FactorLockingKept
<1>c. ASSUME \A x \in tRows' : x.id \in 1..tMade' /\ x.count = streak'[x.id]
                                 /\ x.lockedUntil <= tNow' + LockFor,
             \A x, y \in tRows' : x.id = y.id => x = y,
             \A j \in TF!Ids : j > tMade' => streak'[j] = 0,
             \A x \in tRows' : streak'[x.id] >= tDeploy'.maxFailed =>
               x.lockedUntil # TF!None \/ \E q \in Requests : FactorLocking(q, x.id)'
      PROVE  FactorRows'
  BY <1>f, <1>c DEF FactorRows, TF!LockEngages, TF!At, FactorLocking
\* A step that leaves the locks alone.
<1>m. ASSUME streak' = streak, tDeploy' = tDeploy, tMade' >= tMade,
             tNow' = tNow \/ tNow' = tNow + 1,
             \A y \in tRows' : \E x \in tRows : FactorSame(x, y),
             \A x, y \in tRows' : x.id = y.id => x = y,
             \A q \in Requests : ~FactorLocks(q)
      PROVE  FactorRows'
  <2>1. \A y \in tRows' : /\ y.id \in 1..tMade' /\ y.count = streak'[y.id]
                          /\ y.lockedUntil <= tNow' + LockFor
    BY <1>m, <1>t, <1>x DEF FactorSame
  <2>2. \A j \in TF!Ids : j > tMade' => streak'[j] = 0
    BY <1>m, <1>t, <1>z, <1>i
  <2>3. \A y \in tRows' : streak'[y.id] >= tDeploy'.maxFailed =>
          y.lockedUntil # TF!None \/ \E q \in Requests : FactorLocking(q, y.id)'
    <3> TAKE y \in tRows'
    <3>1. PICK x \in tRows : FactorSame(x, y)
      BY <1>m
    <3>2. y.id = x.id /\ y.lockedUntil = x.lockedUntil /\ x.id \in Nat
      BY <1>x, <3>1 DEF FactorSame
    <3> QED BY <1>m, <1>l, <1>f, <3>2
  <2> QED BY <1>c, <1>m, <2>1, <2>2, <2>3
<1>s. ASSUME tRows' = tRows, streak' = streak, tDeploy' = tDeploy, tMade' = tMade,
             tNow' = tNow \/ tNow' = tNow + 1, \A q \in Requests : ~FactorLocks(q)
      PROVE  FactorRows'
  <2>1. \A y \in tRows' : \E x \in tRows : FactorSame(x, y)
    BY <1>s DEF FactorSame
  <2> QED BY <1>m, <1>s, <1>u, <1>t, <2>1
<1>1. ASSUME NEW r \in Requests, FactorOthers(r), FactorStep(r) PROVE FactorRows'
  <2>0. tDeploy' = tDeploy /\ tNow' = tNow
    BY <1>1 DEF FactorStep, FactorProves, FactorSettles, FactorAdministers, FactorOpens,
         FactorLoads, FactorUnlocks, FactorChecks, FactorBegins, FactorCancels, FactorTakes,
         FactorRestores, FactorRearms, FactorFails, FactorLocks, FactorCrosses, FactorResets,
         FactorBurns, FactorSignsIn, FactorTurnsOn, FactorMarks, FactorMakes, FactorRewrites,
         FactorFinds, FactorWipes, FactorCreates, FactorTurnsOff, FactorRead, FactorStored,
         FactorEdited, FactorFixed
  \* Only the request whose step it is may write the lock.
  <2>q. ASSUME NEW q \in Requests, q # r, FactorLocks(q) PROVE FALSE
    <3>1. tCall'[q] = tCall[q] /\ tCall[q].at = "lockdown" /\ tCall'[q].at = "rejected"
      BY <1>1, <2>q DEF FactorOthers, FactorLocks, FactorGoes, FactorTo
    <3> QED BY <3>1
  <2>1. CASE FactorLocks(r)
    <3> DEFINE F(x) == IF FactorMine(r, x)
                         THEN FactorRow(x.id, x.codes, x.count, tNow + LockFor, x.verified) ELSE x
    <3>1. tRows' = {F(x) : x \in tRows} /\ streak' = streak /\ tMade' = tMade
      BY <2>1 DEF FactorLocks, FactorEdited
    <3>2. \A x \in tRows : /\ F(x).id = x.id /\ F(x).count = x.count
                           /\ FactorMine(r, x) => F(x).lockedUntil = tNow + LockFor
                           /\ ~FactorMine(r, x) => F(x).lockedUntil = x.lockedUntil
      BY DEF FactorRow
    <3> HIDE DEF F
    <3>3. \A y \in tRows' : /\ y.id \in 1..tMade' /\ y.count = streak'[y.id]
                            /\ y.lockedUntil <= tNow' + LockFor
      BY <1>t, <1>x, <2>0, <3>1, <3>2
    <3>4. \A x, y \in tRows' : x.id = y.id => x = y
      BY <1>u, <3>1, <3>2
    <3>5. \A j \in TF!Ids : j > tMade' => streak'[j] = 0
      BY <1>z, <3>1
    <3>6. \A y \in tRows' : streak'[y.id] >= tDeploy'.maxFailed =>
            y.lockedUntil # TF!None \/ \E q \in Requests : FactorLocking(q, y.id)'
      <4> TAKE y \in tRows'
      <4>1. PICK x \in tRows : y = F(x)
        BY <3>1
      <4>2. CASE FactorMine(r, x)
        BY <1>t, <3>2, <4>1, <4>2 DEF TF!None
      <4>3. CASE ~FactorMine(r, x)
        <5>1. ASSUME NEW q \in Requests, FactorLocking(q, x.id) PROVE FactorLocking(q, x.id)'
          <6>1. q # r
            BY <4>3, <5>1 DEF FactorLocking, FactorMine
          <6> QED BY <1>f, <1>x, <2>q, <5>1, <6>1
        <5> QED BY <1>l, <2>0, <3>1, <3>2, <4>1, <4>3, <5>1
      <4> QED BY <4>2, <4>3
    <3> QED BY <1>c, <3>3, <3>4, <3>5, <3>6
  <2>2. CASE FactorUnlocks(r) \/ FactorResets(r)
    <3>1. /\ tMade' = tMade
          /\ \E xs \in SUBSET tRows :
               /\ tRows' = {IF x \in xs THEN FactorCleared(x) ELSE x : x \in tRows}
               /\ streak' = [i \in TF!Ids |-> IF \E x \in xs : x.id = i THEN 0 ELSE streak[i]]
      <4>1. CASE FactorUnlocks(r)
        BY <4>1 DEF FactorUnlocks, FactorEdited
      <4>2. CASE FactorResets(r)
        <5> DEFINE xs == {x \in tRows : FactorMine(r, x)}
        <5>1. \A x \in tRows : x \in xs <=> FactorMine(r, x)
          OBVIOUS
        <5>2. tRows' = {IF x \in xs THEN FactorCleared(x) ELSE x : x \in tRows}
          BY <4>2, <5>1 DEF FactorResets
        <5>3. streak' = [i \in TF!Ids |-> IF \E x \in xs : x.id = i THEN 0 ELSE streak[i]]
          BY <4>2, <5>1 DEF FactorResets
        <5>4. xs \in SUBSET tRows /\ tMade' = tMade
          BY <4>2 DEF FactorResets, FactorEdited
        <5> HIDE DEF xs
        <5> QED BY <5>2, <5>3, <5>4
      <4> QED BY <2>2, <4>1, <4>2
    <3>2. PICK xs \in SUBSET tRows :
            /\ tRows' = {IF x \in xs THEN FactorCleared(x) ELSE x : x \in tRows}
            /\ streak' = [i \in TF!Ids |-> IF \E x \in xs : x.id = i THEN 0 ELSE streak[i]]
      BY <3>1
    <3>3. \A x \in tRows : /\ FactorCleared(x).id = x.id /\ FactorCleared(x).count = 0
                           /\ FactorCleared(x).lockedUntil = -1
      BY DEF FactorCleared, FactorRow, TF!None
    <3>4. \A x \in tRows : streak'[x.id] = IF x \in xs THEN 0 ELSE streak[x.id]
      <4> TAKE x \in tRows
      <4>1. x.id \in TF!Ids /\ ((\E z \in xs : z.id = x.id) <=> x \in xs)
        BY <1>x, <1>u
      <4> QED BY <3>2, <4>1
    <3>5. \A y \in tRows' : \E x \in tRows : y.id = x.id /\ y = IF x \in xs THEN FactorCleared(x) ELSE x
      BY <3>2, <3>3
    <3>6. \A y \in tRows' : /\ y.id \in 1..tMade' /\ y.count = streak'[y.id]
                            /\ y.lockedUntil <= tNow' + LockFor
      <4> TAKE y \in tRows'
      <4>1. PICK x \in tRows : y.id = x.id /\ y = IF x \in xs THEN FactorCleared(x) ELSE x
        BY <3>5
      <4> QED BY <1>t, <1>x, <2>0, <3>1, <3>3, <3>4, <4>1
    <3>7. \A x, y \in tRows' : x.id = y.id => x = y
      BY <1>u, <3>5
    <3>8. \A j \in TF!Ids : j > tMade' => streak'[j] = 0
      BY <1>z, <3>1, <3>2
    <3>9. \A y \in tRows' : streak'[y.id] >= tDeploy'.maxFailed =>
            y.lockedUntil # TF!None \/ \E q \in Requests : FactorLocking(q, y.id)'
      <4> TAKE y \in tRows'
      <4>1. PICK x \in tRows : y.id = x.id /\ y = IF x \in xs THEN FactorCleared(x) ELSE x
        BY <3>5
      <4>2. CASE x \in xs
        BY <1>t, <2>0, <3>4, <4>1, <4>2
      <4>3. CASE x \notin xs
        <5>1. \A q \in Requests : ~FactorLocks(q)
          <6>1. ~FactorLocks(r)
            BY <2>2 DEF FactorLocks, FactorUnlocks, FactorResets
          <6> QED BY <2>q, <6>1
        <5> QED BY <1>l, <1>f, <1>x, <2>0, <3>4, <4>1, <4>3, <5>1
      <4> QED BY <4>2, <4>3
    <3> QED BY <1>c, <3>6, <3>7, <3>8, <3>9
  <2>3. CASE FactorFails(r)
    <3> DEFINE F(x) == IF FactorMine(r, x)
                         THEN FactorRow(x.id, x.codes, x.count + 1, x.lockedUntil, x.verified)
                         ELSE x
    <3>1. tRows' = {F(x) : x \in tRows} /\ tMade' = tMade
      BY <2>3 DEF FactorFails, FactorEdited
    <3>2. \A x \in tRows : /\ F(x).id = x.id /\ F(x).lockedUntil = x.lockedUntil
                           /\ F(x).count = IF FactorMine(r, x) THEN x.count + 1 ELSE x.count
      BY DEF FactorRow
    <3>3. \A x \in tRows :
            streak'[x.id] = IF FactorMine(r, x) THEN streak[x.id] + 1 ELSE streak[x.id]
      <4> TAKE x \in tRows
      <4>1. x.id \in TF!Ids /\ ((\E z \in tRows : FactorMine(r, z) /\ z.id = x.id) <=> FactorMine(r, x))
        BY <1>x, <1>u
      <4>2. streak' = [i \in TF!Ids |-> IF \E z \in tRows : FactorMine(r, z) /\ z.id = i
                                          THEN streak[i] + 1 ELSE streak[i]]
        BY <2>3 DEF FactorFails
      <4> QED BY <4>1, <4>2
    <3> HIDE DEF F
    <3>4. \A y \in tRows' : /\ y.id \in 1..tMade' /\ y.count = streak'[y.id]
                            /\ y.lockedUntil <= tNow' + LockFor
      <4> TAKE y \in tRows'
      <4>1. PICK x \in tRows : y = F(x)
        BY <3>1
      <4> QED BY <1>t, <1>x, <2>0, <3>1, <3>2, <3>3, <4>1
    <3>5. \A x, y \in tRows' : x.id = y.id => x = y
      BY <1>u, <3>1, <3>2
    <3>6. \A j \in TF!Ids : j > tMade' => streak'[j] = 0
      <4> TAKE j \in TF!Ids
      <4>1. ASSUME j > tMade' PROVE streak'[j] = 0
        <5>1. ~ \E z \in tRows : FactorMine(r, z) /\ z.id = j
          BY <1>x, <1>t, <1>i, <3>1, <4>1
        <5>2. streak' = [i \in TF!Ids |-> IF \E z \in tRows : FactorMine(r, z) /\ z.id = i
                                            THEN streak[i] + 1 ELSE streak[i]]
          BY <2>3 DEF FactorFails
        <5> QED BY <1>z, <3>1, <4>1, <5>1, <5>2
      <4> QED BY <4>1
    <3>7. \A y \in tRows' : streak'[y.id] >= tDeploy'.maxFailed =>
            y.lockedUntil # TF!None \/ \E q \in Requests : FactorLocking(q, y.id)'
      <4> TAKE y \in tRows'
      <4>1. PICK x \in tRows : y = F(x)
        BY <3>1
      <4>2. CASE FactorMine(r, x)
        <5>1. CASE FactorGoes(r, "lockdown")
          BY <3>2, <4>1, <4>2, <5>1 DEF FactorGoes, FactorTo, FactorLocking, FactorMine
        <5>2. CASE ~FactorGoes(r, "lockdown")
          <6>1. x.count + 1 < tDeploy.maxFailed
            BY <2>3, <4>2, <5>2 DEF FactorFails
          <6> QED BY <1>t, <1>x, <2>0, <3>2, <3>3, <4>1, <4>2, <6>1
        <5> QED BY <5>1, <5>2
      <4>3. CASE ~FactorMine(r, x)
        <5>1. \A q \in Requests : ~FactorLocks(q)
          <6>1. ~FactorLocks(r)
            BY <2>3 DEF FactorLocks, FactorFails
          <6> QED BY <2>q, <6>1
        <5> QED BY <1>l, <1>f, <1>x, <2>0, <3>2, <3>3, <4>1, <4>3, <5>1
      <4> QED BY <4>2, <4>3
    <3> QED BY <1>c, <3>4, <3>5, <3>6, <3>7
  <2>4. CASE FactorCreates(r)
    <3> DEFINE z == FactorRow(tMade + 1, TF!CodesOf(tMade + 1), 0, TF!None,
                              tCall[r].row.verified \/ tDeploy.skip)
    <3>1. tRows' = tRows \cup {z} /\ tMade' = tMade + 1 /\ streak' = streak /\ tMade < MaxMade
      BY <2>4 DEF FactorCreates, FactorEdited
    <3>2. z.id = tMade + 1 /\ z.count = 0 /\ z.lockedUntil = -1
      BY DEF FactorRow, TF!None
    <3> HIDE DEF z
    <3>3. streak[tMade + 1] = 0
      BY <1>t, <1>z, <1>i, <3>1
    <3>4. \A y \in tRows' : /\ y.id \in 1..tMade' /\ y.count = streak'[y.id]
                            /\ y.lockedUntil <= tNow' + LockFor
      BY <1>t, <1>x, <2>0, <3>1, <3>2, <3>3
    <3>5. \A x, y \in tRows' : x.id = y.id => x = y
      BY <1>u, <1>x, <1>t, <3>1, <3>2
    <3>6. \A j \in TF!Ids : j > tMade' => streak'[j] = 0
      BY <1>z, <1>t, <1>i, <3>1
    <3>7. \A y \in tRows' : streak'[y.id] >= tDeploy'.maxFailed =>
            y.lockedUntil # TF!None \/ \E q \in Requests : FactorLocking(q, y.id)'
      <4> TAKE y \in tRows'
      <4>1. CASE y = z
        BY <1>t, <2>0, <3>1, <3>2, <3>3, <4>1
      <4>2. CASE y # z
        <5>1. \A q \in Requests : ~FactorLocks(q)
          <6>1. ~FactorLocks(r)
            BY <2>4 DEF FactorLocks, FactorCreates
          <6> QED BY <2>q, <6>1
        <5> QED BY <1>l, <1>f, <1>x, <2>0, <3>1, <4>2, <5>1
      <4> QED BY <4>1, <4>2
    <3> QED BY <1>c, <3>4, <3>5, <3>6, <3>7
  <2>5. CASE ~FactorCounted(r) /\ ~FactorCreates(r)
    <3>1. /\ streak' = streak
          /\ \A y \in tRows' : \E x \in tRows : FactorSame(x, y)
          /\ \A x, y \in tRows' : x.id = y.id => x = y
      BY <1>1, <1>u, <2>5, FactorRowsMove
    <3>2. tMade' = tMade \/ tMade' = tMade + 1
      BY <1>1 DEF FactorStep, FactorProves, FactorSettles, FactorAdministers, FactorOpens,
         FactorLoads, FactorUnlocks, FactorChecks, FactorBegins, FactorCancels, FactorTakes,
         FactorRestores, FactorRearms, FactorFails, FactorLocks, FactorCrosses, FactorResets,
         FactorBurns, FactorSignsIn, FactorTurnsOn, FactorMarks, FactorMakes, FactorRewrites,
         FactorFinds, FactorWipes, FactorCreates, FactorTurnsOff, FactorRead, FactorStored
    <3>3. \A q \in Requests : ~FactorLocks(q)
      BY <2>q, <2>5 DEF FactorCounted
    <3> QED BY <1>m, <1>t, <2>0, <3>1, <3>2, <3>3
  <2> QED BY <2>1, <2>2, <2>3, <2>4, <2>5 DEF FactorCounted
<1>n. \A q \in Requests : FactorLocks(q) => tCall[q].at = "lockdown" /\ tCall'[q].at = "rejected"
  BY DEF FactorLocks, FactorGoes, FactorTo
<1>2. ASSUME NEW r \in Requests, NEW op \in tDeploy.ops[r], FactorStarts(r, op)
      PROVE  FactorRows'
  BY <1>2, <1>s, <1>n DEF FactorStarts, FactorRead, FactorFixed, FactorKept
<1>3. ASSUME NEW r \in Requests, FactorEnds(r) PROVE FactorRows'
  BY <1>3, <1>s, <1>n DEF FactorEnds, FactorRead, FactorFixed, FactorKept
<1>4. ASSUME NEW k \in TF!Keys, FactorExpires(k) PROVE FactorRows'
  BY <1>4, <1>s, <1>n DEF FactorExpires, FactorStored, FactorFixed, FactorKept
<1>5. CASE FactorTicks
  BY <1>5, <1>s, <1>n DEF FactorTicks, FactorKept
<1>6. CASE UNCHANGED TF!vars
  BY <1>6, <1>s, <1>n DEF TF!vars
<1> QED BY <1>1, <1>2, <1>3, <1>4, <1>5, <1>6, FactorNext DEF FactorAll, FactorBase

\* A step that neither crosses a code out nor makes codes leaves each row its codes.
FactorCoded(r) == FactorCrosses(r) \/ FactorRewrites(r) \/ FactorCreates(r)
FactorDisjoint(xs) == \A x, y \in xs : \A b \in x.codes : b \in y.codes => x = y

LEMMA FactorCodesMove ==
  ASSUME NEW r \in Requests, FactorStep(r), ~FactorCoded(r)
  PROVE  /\ redeemed' = redeemed /\ (tMade' = tMade \/ tMade' = tMade + 1)
         /\ \A y \in tRows' : \E x \in tRows : y.codes = x.codes
         /\ FactorDisjoint(tRows) => FactorDisjoint(tRows')
<1>m. redeemed' = redeemed /\ (tMade' = tMade \/ tMade' = tMade + 1)
  BY DEF FactorCoded, FactorStep, FactorProves, FactorSettles, FactorAdministers, FactorOpens,
         FactorLoads, FactorUnlocks, FactorChecks, FactorBegins, FactorCancels, FactorTakes,
         FactorRestores, FactorRearms, FactorFails, FactorLocks, FactorResets,
         FactorBurns, FactorSignsIn, FactorTurnsOn, FactorMarks, FactorMakes,
         FactorFinds, FactorWipes, FactorTurnsOff, FactorRead, FactorStored, FactorKept
<1>1. CASE FactorUnlocks(r)
  <2>1. PICK xs \in SUBSET tRows :
          tRows' = {IF x \in xs THEN FactorCleared(x) ELSE x : x \in tRows}
    BY <1>1 DEF FactorUnlocks
  <2> DEFINE F(x) == IF x \in xs THEN FactorCleared(x) ELSE x
  <2>2. \A x \in tRows : F(x).codes = x.codes
    BY DEF FactorCleared, FactorRow
  <2>3. tRows' = {F(x) : x \in tRows}
    BY <2>1
  <2> HIDE DEF F
  <2> QED BY <1>m, <2>2, <2>3 DEF FactorDisjoint
<1>2. CASE FactorFails(r)
  <2> DEFINE F(x) == IF FactorMine(r, x)
                       THEN FactorRow(x.id, x.codes, x.count + 1, x.lockedUntil, x.verified) ELSE x
  <2>2. \A x \in tRows : F(x).codes = x.codes
    BY DEF FactorRow
  <2>3. tRows' = {F(x) : x \in tRows}
    BY <1>2 DEF FactorFails
  <2> HIDE DEF F
  <2> QED BY <1>m, <2>2, <2>3 DEF FactorDisjoint
<1>3. CASE FactorLocks(r)
  <2> DEFINE F(x) == IF FactorMine(r, x)
                       THEN FactorRow(x.id, x.codes, x.count, tNow + LockFor, x.verified) ELSE x
  <2>2. \A x \in tRows : F(x).codes = x.codes
    BY DEF FactorRow
  <2>3. tRows' = {F(x) : x \in tRows}
    BY <1>3 DEF FactorLocks
  <2> HIDE DEF F
  <2> QED BY <1>m, <2>2, <2>3 DEF FactorDisjoint
<1>4. CASE FactorResets(r)
  <2> DEFINE F(x) == IF FactorMine(r, x) THEN FactorCleared(x) ELSE x
  <2>2. \A x \in tRows : F(x).codes = x.codes
    BY DEF FactorCleared, FactorRow
  <2>3. tRows' = {F(x) : x \in tRows}
    BY <1>4 DEF FactorResets
  <2> HIDE DEF F
  <2> QED BY <1>m, <2>2, <2>3 DEF FactorDisjoint
<1>5. CASE FactorMarks(r)
  <2> DEFINE F(x) == IF FactorMine(r, x)
                       THEN FactorRow(x.id, x.codes, x.count, x.lockedUntil, TRUE) ELSE x
  <2>2. \A x \in tRows : F(x).codes = x.codes
    BY DEF FactorRow
  <2>3. tRows' = {F(x) : x \in tRows}
    BY <1>5 DEF FactorMarks
  <2> HIDE DEF F
  <2> QED BY <1>m, <2>2, <2>3 DEF FactorDisjoint
<1>6. CASE FactorWipes(r)
  BY <1>m, <1>6 DEF FactorWipes, FactorDisjoint
<1>7. CASE ~FactorUnlocks(r) /\ ~FactorFails(r) /\ ~FactorLocks(r) /\ ~FactorResets(r)
             /\ ~FactorMarks(r) /\ ~FactorWipes(r)
  <2>1. tRows' = tRows
    BY <1>7 DEF FactorCoded, FactorStep, FactorProves, FactorSettles, FactorAdministers,
         FactorOpens, FactorLoads, FactorChecks, FactorBegins, FactorCancels, FactorTakes,
         FactorRestores, FactorRearms, FactorBurns, FactorSignsIn, FactorTurnsOn, FactorMakes,
         FactorFinds, FactorTurnsOff, FactorRead, FactorStored, FactorKept
  <2> QED BY <1>m, <2>1
<1> QED BY <1>1, <1>2, <1>3, <1>4, <1>5, <1>6, <1>7

LEMMA FactorCodesKept ==
  ASSUME FactorAll, FactorRows, FactorCodes, [TF!Next]_TF!vars
  PROVE  FactorCodes'
<1>t. /\ tMade \in Nat /\ MaxMade \in Nat /\ tMade <= MaxMade
      /\ redeemed \in [TF!AllCodes -> Nat] /\ tRows \subseteq TF!Row
  BY FactorTypes, FactorDeployTyped DEF FactorAll, FactorBase
<1>n. TF!AllCodes \subseteq Nat
  BY DEF TF!AllCodes, TF!CodesOf, TF!Ids
<1>x. \A x \in tRows : x.codes \subseteq TF!AllCodes
  BY <1>t DEF TF!Row
<1>a. \A x \in tRows : \A b \in x.codes :
        b <= 2 * tMade + 1 /\ redeemed[b] = 0 /\ b \in TF!AllCodes /\ b \in Nat
  BY <1>x, <1>n DEF FactorCodes
<1>d. FactorDisjoint(tRows)
  BY DEF FactorCodes, FactorDisjoint
<1>r. \A b \in TF!AllCodes : redeemed[b] <= 1 /\ (b > 2 * tMade + 1 => redeemed[b] = 0)
  BY DEF FactorCodes
<1>u. \A x, y \in tRows : x.id = y.id => x = y
  BY DEF FactorRows
<1>c. ASSUME \A x \in tRows' : \A b \in x.codes : b <= 2 * tMade' + 1 /\ redeemed'[b] = 0,
             FactorDisjoint(tRows'),
             \A b \in TF!AllCodes : redeemed'[b] <= 1 /\ (b > 2 * tMade' + 1 => redeemed'[b] = 0)
      PROVE  FactorCodes'
  BY <1>c DEF FactorCodes, FactorDisjoint
<1>m. ASSUME redeemed' = redeemed, tMade' = tMade \/ tMade' = tMade + 1,
             \A y \in tRows' : \E x \in tRows : y.codes = x.codes, FactorDisjoint(tRows')
      PROVE  FactorCodes'
  <2>1. \A x \in tRows' : \A b \in x.codes : b <= 2 * tMade' + 1 /\ redeemed'[b] = 0
    <3> TAKE y \in tRows'
    <3>1. PICK x \in tRows : y.codes = x.codes
      BY <1>m
    <3>2. \A b \in y.codes : b <= 2 * tMade + 1 /\ redeemed[b] = 0 /\ b \in Nat
      BY <1>a, <3>1
    <3> QED BY <1>m, <1>t, <3>2
  <2>2. \A b \in TF!AllCodes : redeemed'[b] <= 1 /\ (b > 2 * tMade' + 1 => redeemed'[b] = 0)
    BY <1>m, <1>r, <1>n, <1>t
  <2> QED BY <1>c, <1>m, <2>1, <2>2
<1>s. ASSUME tRows' = tRows, redeemed' = redeemed, tMade' = tMade PROVE FactorCodes'
  BY <1>s, <1>m, <1>d
\* The codes that are made next are of nobody yet.
<1>y. \A b \in TF!CodesOf(tMade + 1) :
        b \in Nat /\ b > 2 * tMade + 1 /\ b <= 2 * (tMade + 1) + 1
  BY <1>t DEF TF!CodesOf
<1>z. tMade < MaxMade => TF!CodesOf(tMade + 1) \subseteq TF!AllCodes
  BY <1>t DEF TF!AllCodes, TF!Ids
<1>1. ASSUME NEW r \in Requests, FactorOthers(r), FactorStep(r) PROVE FactorCodes'
  <2>1. CASE FactorCrosses(r)
    <3>1. CASE UNCHANGED <<tRows, redeemed>>
      BY <1>s, <2>1, <3>1 DEF FactorCrosses
    <3>2. CASE ~UNCHANGED <<tRows, redeemed>>
      <4> DEFINE g == tCall[r].guess
                 hit(x) == FactorMine(r, x) /\ x.codes = tCall[r].row.codes
                 F(x) == IF hit(x) THEN FactorRow(x.id, x.codes \ {g}, x.count, x.lockedUntil,
                                                  x.verified) ELSE x
      <4>1. /\ tRows' = {F(x) : x \in tRows} /\ \E x \in tRows : hit(x)
            /\ redeemed' = [redeemed EXCEPT ![g] = @ + 1] /\ tMade' = tMade
        BY <2>1, <3>2 DEF FactorCrosses
      <4>2. \A x \in tRows : hit(x) => g \in x.codes
        BY <2>1 DEF FactorAll, FactorBase, FactorPath, FactorCrosses
      <4>3. \A x \in tRows : F(x).codes = IF hit(x) THEN x.codes \ {g} ELSE x.codes
        BY DEF FactorRow
      <4> HIDE DEF F, hit, g
      <4>4. PICK x0 \in tRows : hit(x0)
        BY <4>1
      <4>5. /\ g \in x0.codes /\ g \in TF!AllCodes /\ redeemed[g] = 0 /\ g <= 2 * tMade + 1
            /\ g \in Nat
        BY <1>a, <1>n, <4>2, <4>4
      <4>6. \A b \in TF!AllCodes : redeemed'[b] = IF b = g THEN 1 ELSE redeemed[b]
        BY <1>t, <4>1, <4>5
      <4>7. \A x \in tRows' : \A b \in x.codes : b <= 2 * tMade' + 1 /\ redeemed'[b] = 0
        <5> TAKE y \in tRows'
        <5> TAKE b \in y.codes
        <5>1. PICK x \in tRows : y = F(x)
          BY <4>1
        <5>2. b \in x.codes /\ b # g
          BY <1>d, <4>3, <4>4, <4>5, <5>1 DEF FactorDisjoint
        <5> QED BY <1>a, <4>1, <4>6, <5>2
      <4>8. FactorDisjoint(tRows')
        <5>1. \A x \in tRows : \A b \in F(x).codes : b \in x.codes
          BY <4>3
        <5>2. \A x, y \in tRows : \A b \in F(x).codes : b \in F(y).codes => x = y
          BY <1>d, <5>1 DEF FactorDisjoint
        <5> QED BY <4>1, <5>2 DEF FactorDisjoint
      <4>9. \A b \in TF!AllCodes : redeemed'[b] <= 1 /\ (b > 2 * tMade' + 1 => redeemed'[b] = 0)
        BY <1>r, <1>n, <1>t, <4>1, <4>5, <4>6
      <4> QED BY <1>c, <4>7, <4>8, <4>9
    <3> QED BY <3>1, <3>2
  <2>2. CASE FactorRewrites(r)
    <3> DEFINE C == TF!CodesOf(tMade + 1)
               F(x) == IF FactorMine(r, x)
                         THEN FactorRow(x.id, C, x.count, x.lockedUntil, x.verified) ELSE x
    <3>1. /\ tRows' = {F(x) : x \in tRows} /\ redeemed' = redeemed
          /\ tMade' = tMade + 1 /\ tMade < MaxMade
      BY <2>2 DEF FactorRewrites
    <3>2. \A x \in tRows : F(x).codes = IF FactorMine(r, x) THEN C ELSE x.codes
      BY DEF FactorRow
    <3> HIDE DEF F, C
    <3>3. \A b \in C : b \in TF!AllCodes /\ b > 2 * tMade + 1 /\ b <= 2 * tMade' + 1 /\ redeemed[b] = 0
      BY <1>r, <1>y, <1>z, <3>1 DEF C
    <3>4. \A x \in tRows' : \A b \in x.codes : b <= 2 * tMade' + 1 /\ redeemed'[b] = 0
      <4>1. \A x \in tRows : \A b \in x.codes : b <= 2 * tMade' + 1 /\ redeemed'[b] = 0
        BY <1>a, <1>t, <3>1
      <4>2. \A b \in C : b <= 2 * tMade' + 1 /\ redeemed'[b] = 0
        BY <3>1, <3>3
      <4>3. \A x \in tRows : \A b \in F(x).codes : b \in C \/ b \in x.codes
        BY <3>2
      <4> QED BY <3>1, <4>1, <4>2, <4>3
    <3>5. FactorDisjoint(tRows')
      <4>0. \A x \in tRows : \A b \in x.codes : b \notin C
        <5> TAKE x \in tRows
        <5> TAKE b \in x.codes
        <5>1. b <= 2 * tMade + 1 /\ b \in Nat
          BY <1>a
        <5> QED BY <1>t, <3>3, <5>1
      <4>1. \A x, y \in tRows : \A b \in F(x).codes : b \in F(y).codes => x = y
        <5> TAKE x, y \in tRows
        <5> TAKE b \in F(x).codes
        <5> HAVE b \in F(y).codes
        <5>1. CASE FactorMine(r, x) /\ FactorMine(r, y)
          BY <1>u, <5>1 DEF FactorMine
        <5>2. CASE ~FactorMine(r, x) /\ ~FactorMine(r, y)
          BY <1>d, <3>2, <5>2 DEF FactorDisjoint
        <5>3. CASE FactorMine(r, x) /\ ~FactorMine(r, y)
          BY <3>2, <4>0, <5>3
        <5>4. CASE ~FactorMine(r, x) /\ FactorMine(r, y)
          BY <3>2, <4>0, <5>4
        <5> QED BY <5>1, <5>2, <5>3, <5>4
      <4> QED BY <3>1, <4>1 DEF FactorDisjoint
    <3>6. \A b \in TF!AllCodes : redeemed'[b] <= 1 /\ (b > 2 * tMade' + 1 => redeemed'[b] = 0)
      BY <1>r, <1>n, <1>t, <3>1
    <3> QED BY <1>c, <3>4, <3>5, <3>6
  <2>3. CASE FactorCreates(r)
    <3> DEFINE C == TF!CodesOf(tMade + 1)
               z == FactorRow(tMade + 1, C, 0, TF!None, tCall[r].row.verified \/ tDeploy.skip)
    <3>1. /\ tRows' = tRows \cup {z} /\ redeemed' = redeemed
          /\ tMade' = tMade + 1 /\ tMade < MaxMade
      BY <2>3 DEF FactorCreates
    <3>2. z.codes = C
      BY DEF FactorRow
    <3> HIDE DEF z, C
    <3>3. \A b \in C : b \in TF!AllCodes /\ b > 2 * tMade + 1 /\ b <= 2 * tMade' + 1 /\ redeemed[b] = 0
      BY <1>r, <1>y, <1>z, <3>1 DEF C
    <3>4. \A x \in tRows' : \A b \in x.codes : b <= 2 * tMade' + 1 /\ redeemed'[b] = 0
      <4>1. \A x \in tRows : \A b \in x.codes : b <= 2 * tMade' + 1 /\ redeemed'[b] = 0
        BY <1>a, <1>t, <3>1
      <4>2. \A b \in C : b <= 2 * tMade' + 1 /\ redeemed'[b] = 0
        BY <3>1, <3>3
      <4> QED BY <3>1, <3>2, <4>1, <4>2
    <3>5. FactorDisjoint(tRows')
      <4>1. \A x \in tRows : \A b \in x.codes : b \notin C
        <5> TAKE x \in tRows
        <5> TAKE b \in x.codes
        <5>1. b <= 2 * tMade + 1 /\ b \in Nat
          BY <1>a
        <5> QED BY <1>t, <3>3, <5>1
      <4> QED BY <1>d, <3>1, <3>2, <4>1 DEF FactorDisjoint
    <3>6. \A b \in TF!AllCodes : redeemed'[b] <= 1 /\ (b > 2 * tMade' + 1 => redeemed'[b] = 0)
      BY <1>r, <1>n, <1>t, <3>1
    <3> QED BY <1>c, <3>4, <3>5, <3>6
  <2>4. CASE ~FactorCoded(r)
    BY <1>1, <1>m, <1>d, <2>4, FactorCodesMove
  <2> QED BY <2>1, <2>2, <2>3, <2>4 DEF FactorCoded
<1>2. ASSUME NEW r \in Requests, NEW op \in tDeploy.ops[r], FactorStarts(r, op)
      PROVE  FactorCodes'
  BY <1>2, <1>s DEF FactorStarts, FactorRead, FactorKept
<1>3. ASSUME NEW r \in Requests, FactorEnds(r) PROVE FactorCodes'
  BY <1>3, <1>s DEF FactorEnds, FactorRead, FactorKept
<1>4. ASSUME NEW k \in TF!Keys, FactorExpires(k) PROVE FactorCodes'
  BY <1>4, <1>s DEF FactorExpires, FactorStored, FactorKept
<1>5. CASE FactorTicks
  BY <1>5, <1>s DEF FactorTicks, FactorKept
<1>6. CASE UNCHANGED TF!vars
  BY <1>6, <1>s DEF TF!vars
<1> QED BY <1>1, <1>2, <1>3, <1>4, <1>5, <1>6, FactorNext DEF FactorAll, FactorBase

\* What a step writes is enrolled already.
LEMMA FactorEnrolledStep ==
  ASSUME FactorAll, FactorEnrolled, NEW r \in Requests, FactorOthers(r), FactorStep(r)
  PROVE  FactorEnrolled'
<1>t. enabled \in BOOLEAN /\ tDeploy' = tDeploy
  <2>1. enabled \in BOOLEAN
    BY FactorTypes DEF FactorAll, FactorBase
  <2>2. tDeploy' = tDeploy
    BY DEF FactorStep, FactorProves, FactorSettles, FactorAdministers, FactorOpens,
         FactorLoads, FactorUnlocks, FactorChecks, FactorBegins, FactorCancels, FactorTakes,
         FactorRestores, FactorRearms, FactorFails, FactorLocks, FactorCrosses, FactorResets,
         FactorBurns, FactorSignsIn, FactorTurnsOn, FactorMarks, FactorMakes, FactorRewrites,
         FactorFinds, FactorWipes, FactorCreates, FactorTurnsOff, FactorRead, FactorStored,
         FactorEdited, FactorFixed
  <2> QED BY <2>1, <2>2
<1>a. /\ ~tDeploy.verified => \A x \in tRows : x.verified => enabled
      /\ \A q \in Requests :
           /\ ~tDeploy.verified /\ tCall[q].row.verified => enabled
           /\ tCall[q].user => enabled
           /\ tCall[q].at \notin {"turnOff", "drop"}
           /\ tCall[q].at = "mark" => enabled
           /\ tCall[q].op = "enable" /\ tDeploy.skip /\ tCall[q].at \in {"find", "wipe", "create"} =>
                enabled
           /\ tCall[q].at = "find" => tCall[q].op = "enable"
           /\ tCall[q].at \in {"wipe", "create"} => tCall[q].op = "enable"
  BY DEF FactorEnrolled
<1>o. /\ \A q \in Requests : q # r => tCall'[q] = tCall[q]
      /\ tCall'[r].op = tCall[r].op
  BY DEF FactorOthers
<1>1. enabled' = enabled \/ enabled' = TRUE
  <2>1. ~FactorTurnsOff(r)
    BY <1>a DEF FactorTurnsOff
  <2> QED BY <2>1 DEF FactorStep, FactorProves, FactorSettles, FactorAdministers, FactorOpens,
         FactorLoads, FactorUnlocks, FactorChecks, FactorBegins, FactorCancels, FactorTakes,
         FactorRestores, FactorRearms, FactorFails, FactorLocks, FactorCrosses, FactorResets,
         FactorBurns, FactorSignsIn, FactorTurnsOn, FactorMarks, FactorMakes, FactorRewrites,
         FactorFinds, FactorWipes, FactorCreates, FactorRead, FactorStored, FactorEdited,
         FactorKept
<1>2. enabled => enabled'
  BY <1>1
\* The rows.
<1>3. ASSUME ~tDeploy.verified, NEW y \in tRows', y.verified PROVE enabled'
  <2>s. ASSUME \E x \in tRows : y.verified = x.verified PROVE enabled'
    BY <1>a, <1>2, <1>3, <2>s
  <2>1. CASE FactorMarks(r)
    BY <1>a, <1>2, <2>1 DEF FactorMarks
  <2>2. CASE FactorCreates(r)
    <3> DEFINE v == tCall[r].row.verified \/ tDeploy.skip
               z == FactorRow(tMade + 1, TF!CodesOf(tMade + 1), 0, TF!None, v)
    <3>1. tRows' = tRows \cup {z} /\ tCall[r].at = "create"
      BY <2>2 DEF FactorCreates
    <3>2. z.verified = v
      BY DEF FactorRow
    <3> HIDE DEF z
    <3>3. CASE y = z
      <4>1. tCall[r].row.verified \/ tDeploy.skip
        BY <1>3, <3>2, <3>3
      <4> QED BY <1>a, <1>2, <1>3, <3>1, <4>1
    <3>4. CASE y # z
      BY <2>s, <3>1, <3>4
    <3> QED BY <3>3, <3>4
  <2>3. CASE FactorCrosses(r)
    <3>1. CASE tRows' = tRows
      BY <2>s, <3>1
    <3>2. CASE tRows' # tRows
      <4> DEFINE F(x) == IF FactorMine(r, x) /\ x.codes = tCall[r].row.codes
                           THEN FactorRow(x.id, x.codes \ {tCall[r].guess}, x.count,
                                          x.lockedUntil, x.verified) ELSE x
      <4>1. tRows' = {F(x) : x \in tRows}
        BY <2>3, <3>2 DEF FactorCrosses
      <4>2. \A x \in tRows : F(x).verified = x.verified
        BY DEF FactorRow
      <4> HIDE DEF F
      <4> QED BY <2>s, <4>1, <4>2
    <3> QED BY <3>1, <3>2
  <2>4. CASE FactorRewrites(r)
    <3> DEFINE F(x) == IF FactorMine(r, x)
                         THEN FactorRow(x.id, TF!CodesOf(tMade + 1), x.count, x.lockedUntil,
                                        x.verified) ELSE x
    <3>1. tRows' = {F(x) : x \in tRows}
      BY <2>4 DEF FactorRewrites
    <3>2. \A x \in tRows : F(x).verified = x.verified
      BY DEF FactorRow
    <3> HIDE DEF F
    <3> QED BY <2>s, <3>1, <3>2
  <2>5. CASE FactorUnlocks(r)
    <3>1. PICK xs \in SUBSET tRows :
            tRows' = {IF x \in xs THEN FactorCleared(x) ELSE x : x \in tRows}
      BY <2>5 DEF FactorUnlocks
    <3> DEFINE F(x) == IF x \in xs THEN FactorCleared(x) ELSE x
    <3>2. \A x \in tRows : F(x).verified = x.verified
      BY DEF FactorCleared, FactorRow
    <3>3. tRows' = {F(x) : x \in tRows}
      BY <3>1
    <3> HIDE DEF F
    <3> QED BY <2>s, <3>2, <3>3
  <2>6. CASE FactorResets(r)
    <3> DEFINE F(x) == IF FactorMine(r, x) THEN FactorCleared(x) ELSE x
    <3>1. tRows' = {F(x) : x \in tRows}
      BY <2>6 DEF FactorResets
    <3>2. \A x \in tRows : F(x).verified = x.verified
      BY DEF FactorCleared, FactorRow
    <3> HIDE DEF F
    <3> QED BY <2>s, <3>1, <3>2
  <2>7. CASE FactorFails(r)
    <3> DEFINE F(x) == IF FactorMine(r, x)
                         THEN FactorRow(x.id, x.codes, x.count + 1, x.lockedUntil, x.verified)
                         ELSE x
    <3>1. tRows' = {F(x) : x \in tRows}
      BY <2>7 DEF FactorFails
    <3>2. \A x \in tRows : F(x).verified = x.verified
      BY DEF FactorRow
    <3> HIDE DEF F
    <3> QED BY <2>s, <3>1, <3>2
  <2>8. CASE FactorLocks(r)
    <3> DEFINE F(x) == IF FactorMine(r, x)
                         THEN FactorRow(x.id, x.codes, x.count, tNow + LockFor, x.verified)
                         ELSE x
    <3>1. tRows' = {F(x) : x \in tRows}
      BY <2>8 DEF FactorLocks
    <3>2. \A x \in tRows : F(x).verified = x.verified
      BY DEF FactorRow
    <3> HIDE DEF F
    <3> QED BY <2>s, <3>1, <3>2
  <2>9. CASE FactorWipes(r)
    BY <1>3, <2>9 DEF FactorWipes
  <2>10. CASE /\ ~FactorMarks(r) /\ ~FactorCreates(r) /\ ~FactorCrosses(r) /\ ~FactorRewrites(r)
              /\ ~FactorUnlocks(r) /\ ~FactorResets(r) /\ ~FactorFails(r) /\ ~FactorLocks(r)
              /\ ~FactorWipes(r)
    <3>1. tRows' = tRows
      BY <2>10 DEF FactorStep, FactorProves, FactorSettles, FactorAdministers,
         FactorOpens, FactorLoads, FactorChecks, FactorBegins, FactorCancels, FactorTakes,
         FactorRestores, FactorRearms, FactorBurns, FactorSignsIn, FactorTurnsOn, FactorMakes,
         FactorFinds, FactorTurnsOff, FactorRead, FactorStored, FactorKept
    <3> QED BY <2>s, <3>1
  <2> QED BY <2>1, <2>2, <2>3, <2>4, <2>5, <2>6, <2>7, <2>8, <2>9, <2>10
\* The request.
<1>4. /\ tCall'[r].user = tCall[r].user \/ tCall'[r].user = enabled
      /\ tCall'[r].row = tCall[r].row \/ tCall'[r].row = TF!NoRow \/ tCall'[r].row \in tRows
  BY DEF FactorStep, FactorProves, FactorSettles, FactorAdministers, FactorOpens,
         FactorLoads, FactorUnlocks, FactorChecks, FactorBegins, FactorCancels, FactorTakes,
         FactorRestores, FactorRearms, FactorFails, FactorLocks, FactorCrosses, FactorResets,
         FactorBurns, FactorSignsIn, FactorTurnsOn, FactorMarks, FactorMakes, FactorRewrites,
         FactorFinds, FactorWipes, FactorCreates, FactorTurnsOff, FactorGoes, FactorTo
<1>5. TF!NoRow.verified = FALSE
  BY DEF TF!NoRow
<1>6. /\ tCall'[r].at \notin {"turnOff", "drop"}
      /\ tCall'[r].at = "mark" => tCall[r].user \/ enabled'
      /\ tCall'[r].at = "find" => tCall[r].op = "enable" /\ enabled'
      /\ tCall'[r].at = "wipe" => tCall[r].at = "find"
      /\ tCall'[r].at = "create" => tCall[r].at = "wipe"
  <2>1. CASE FactorProves(r)
    BY <2>1 DEF FactorProves, FactorOpens, FactorLoads, FactorUnlocks, FactorChecks, FactorBegins,
         FactorCancels, FactorTakes, FactorRestores, FactorGoes, FactorTo, FactorAccepts
  <2>2. CASE FactorSettles(r)
    BY <2>2 DEF FactorSettles, FactorRearms, FactorFails, FactorLocks, FactorCrosses, FactorResets,
         FactorBurns, FactorSignsIn, FactorTurnsOn, FactorMarks, FactorGoes, FactorTo
  <2>3. CASE FactorAdministers(r)
    BY <1>a, <2>3 DEF FactorAdministers, FactorMakes, FactorRewrites, FactorFinds, FactorWipes,
         FactorCreates, FactorTurnsOff, FactorGoes, FactorTo
  <2> QED BY <2>1, <2>2, <2>3 DEF FactorStep
<1>7. ASSUME NEW q \in Requests
      PROVE  /\ ~tDeploy'.verified /\ tCall'[q].row.verified => enabled'
             /\ tCall'[q].user => enabled'
             /\ tCall'[q].at \notin {"turnOff", "drop"}
             /\ tCall'[q].at = "mark" => enabled'
             /\ /\ tCall'[q].op = "enable" /\ tDeploy'.skip
                /\ tCall'[q].at \in {"find", "wipe", "create"}
                => enabled'
             /\ tCall'[q].at = "find" => tCall'[q].op = "enable"
             /\ tCall'[q].at \in {"wipe", "create"} => tCall'[q].op = "enable"
  <2>1. CASE q # r
    BY <1>a, <1>o, <1>t, <1>2, <2>1
  <2>2. CASE q = r
    <3>1. ~tDeploy'.verified /\ tCall'[r].row.verified => enabled'
      BY <1>a, <1>t, <1>2, <1>4, <1>5
    <3>2. tCall'[r].user => enabled'
      BY <1>a, <1>2, <1>4
    <3> QED BY <1>a, <1>o, <1>t, <1>2, <1>6, <2>2, <3>1, <3>2
  <2> QED BY <2>1, <2>2
<1> QED BY <1>3, <1>7, <1>t DEF FactorEnrolled

LEMMA FactorEnrolsKept ==
  ASSUME FactorAll, FactorEnrols, [TF!Next]_TF!vars
  PROVE  FactorEnrols'
<1>e. (FactorEnrols <=> (FactorCareful => FactorEnrolled))
        /\ (FactorEnrols' <=> (FactorCareful' => FactorEnrolled'))
  BY DEF FactorEnrols
<1>p. \A q \in Requests : tCall[q].at = "idle" => tCall[q].op = "none"
  BY DEF FactorAll, FactorBase, FactorPath
<1>s. ASSUME tCall' = tCall, tRows' = tRows, enabled' = enabled, tDeploy' = tDeploy
      PROVE  FactorEnrols'
  BY <1>s DEF FactorEnrols, FactorCareful, FactorEnrolled
<1>1. ASSUME NEW r \in Requests, FactorOthers(r), FactorStep(r) PROVE FactorEnrols'
  <2>1. FactorCareful' => FactorCareful
    BY <1>1 DEF FactorOthers, FactorCareful
  <2> QED BY <1>1, <1>e, <2>1, FactorEnrolledStep
<1>2. ASSUME NEW r \in Requests, NEW op \in tDeploy.ops[r], FactorStarts(r, op)
      PROVE  FactorEnrols'
  <2>1. FactorCareful' => FactorCareful /\ op # "disable"
    BY <1>2, <1>p DEF FactorStarts, FactorCareful
  <2>2. ASSUME FactorEnrolled, op # "disable" PROVE FactorEnrolled'
    <3>1. ~TF!NoRow.verified
      BY DEF TF!NoRow
    <3> QED BY <1>2, <2>2, <3>1 DEF FactorStarts, FactorEnrolled, FactorRead, FactorFixed, FactorKept
  <2> QED BY <1>e, <2>1, <2>2
<1>3. ASSUME NEW r \in Requests, FactorEnds(r) PROVE FactorEnrols'
  <2>1. FactorCareful' => FactorCareful
    BY <1>3 DEF FactorEnds, FactorCareful
  <2>2. ASSUME FactorEnrolled PROVE FactorEnrolled'
    BY <1>3, <2>2 DEF FactorEnds, FactorEnrolled, FactorRead, FactorFixed, FactorKept
  <2> QED BY <1>e, <2>1, <2>2
<1>4. ASSUME NEW k \in TF!Keys, FactorExpires(k) PROVE FactorEnrols'
  BY <1>4, <1>s DEF FactorExpires, FactorStored, FactorFixed, FactorKept
<1>5. CASE FactorTicks
  BY <1>5, <1>s DEF FactorTicks, FactorKept
<1>6. CASE UNCHANGED TF!vars
  BY <1>6, <1>s DEF TF!vars
<1> QED BY <1>1, <1>2, <1>3, <1>4, <1>5, <1>6, FactorNext DEF FactorAll, FactorBase

LEMMA FactorInit == ASSUME TF!Init PROVE FactorInv
<1>d. /\ tDeploy \in Enrolments /\ tDeploy.enabled \in BOOLEAN /\ tDeploy.verified \in BOOLEAN
      /\ tDeploy.sent \in BOOLEAN /\ tDeploy.maxFailed \in Nat \ {0}
      /\ Account \notin Challenges /\ Allowed \in Nat /\ LockFor \in Nat
      /\ MaxMade \in Nat /\ MaxMade >= 2
  BY FactorDeployTyped DEF TF!Init
<1>i. TF!Ids = 1..MaxMade
  BY DEF TF!Ids
<1>0. /\ tRows = {TF!NewRow(1, tDeploy.verified)} /\ enabled = tDeploy.enabled
      /\ challenge = Challenges /\ budget = [c \in Challenges |-> 0]
      /\ tMade = IF tDeploy.sent THEN 2 ELSE 1
      /\ otp = [k \in TF!Keys |-> IF tDeploy.sent THEN [code |-> 2, n |-> 0] ELSE TF!NoOtp]
      /\ tCall = [r \in Requests |-> TF!NoCall] /\ tNow = 0
      /\ guessed = [c \in Challenges |-> 0]
      /\ tried = [k \in TF!Keys |-> [i \in TF!Ids |-> 0]]
      /\ redeemed = [b \in TF!AllCodes |-> 0] /\ tSessions = [c \in Challenges |-> 0]
      /\ streak = [i \in TF!Ids |-> 0]
  BY DEF TF!Init
<1>m. tMade \in {1, 2} /\ (tDeploy.sent => tMade = 2) /\ tMade \in 1..MaxMade /\ tMade \in Nat
  BY <1>0, <1>d
<1>r. TF!NewRow(1, tDeploy.verified) = FactorRow(1, TF!CodesOf(1), 0, -1, tDeploy.verified)
  BY DEF TF!NewRow, FactorRow, TF!None
<1>c. TF!CodesOf(1) \in SUBSET TF!AllCodes /\ \A b \in TF!CodesOf(1) : b \in {2, 3}
  BY <1>d DEF TF!AllCodes, TF!Ids, TF!CodesOf
<1>x. \A x \in tRows : /\ x.id = 1 /\ x.codes = TF!CodesOf(1) /\ x.count = 0
                       /\ x.lockedUntil = -1 /\ x.verified = tDeploy.verified
  BY <1>0, <1>r DEF FactorRow
<1>q. \A r \in Requests : /\ tCall[r].op = "none" /\ tCall[r].at = "idle" /\ tCall[r].from = "idle"
                          /\ tCall[r].user = FALSE /\ tCall[r].row = TF!NoRow
  BY <1>0 DEF TF!NoCall
<1>1. FactorTyped
  <2>1. tRows \subseteq TF!Row
    <3>1. FactorRow(1, TF!CodesOf(1), 0, -1, tDeploy.verified) \in TF!Row
      BY <1>c, <1>d, FactorRowTyped
    <3> QED BY <1>0, <1>r, <3>1
  <2>2. tCall \in [Requests -> TF!Call]
    <3>1. TF!NoRow \in TF!Row
      BY DEF TF!NoRow, TF!Row, TF!None
    <3>2. /\ "none" \in TF!AllOps \cup {"none"} /\ "idle" \in {"idle"} \cup TF!Steps \cup TF!Ended
          /\ "idle" \in {"idle"} \cup TF!Steps /\ Account \in TF!Keys /\ 0 \in TF!Guesses
      BY DEF TF!Keys, TF!Guesses
    <3>3. TF!NoCall \in TF!Call
      BY <3>1, <3>2 DEF TF!NoCall, TF!Call
    <3> QED BY <1>0, <3>3
  <2>3. otp \in [TF!Keys -> [code : Nat, n : Nat]]
    <3>1. [code |-> 2, n |-> 0] \in [code : Nat, n : Nat] /\ TF!NoOtp \in [code : Nat, n : Nat]
      BY DEF TF!NoOtp
    <3> QED BY <1>0, <3>1
  <2>4. budget \in [Challenges -> Nat \cup {TF!None}]
    BY <1>0
  <2>5. tried \in [TF!Keys -> [TF!Ids -> Nat]]
    BY <1>0
  <2>6. TF!TypeOK
    BY <1>0, <1>d, <1>m, <2>1, <2>2, <2>3, <2>4 DEF TF!TypeOK
  <2> QED BY <1>0, <2>5, <2>6 DEF FactorTyped
<1>2. FactorBase
  BY <1>1, <1>q DEF FactorBase, FactorPath
<1>3. FactorPassed
  BY <1>0, <1>q DEF FactorPassed
<1>4. FactorCounts
  BY <1>0, <1>d, <1>q DEF FactorCounts, FactorHolds, TF!None
<1>5. FactorTries
  <2>1. \A k \in TF!Keys : otp[k] = IF tDeploy.sent THEN [code |-> 2, n |-> 0] ELSE TF!NoOtp
    BY <1>0
  <2>2. TF!NoOtp.code = 0 /\ [code |-> 2, n |-> 0].code = 2 /\ [code |-> 2, n |-> 0].n = 0
    BY DEF TF!NoOtp
  <2>3. \A k \in TF!Keys, i \in TF!Ids : tried[k][i] = 0
    BY <1>0
  <2>4. 2 \in TF!Ids
    BY <1>d, <1>i
  <2>5. \A k \in TF!Keys : /\ otp[k].code <= tMade /\ (otp[k].code = 0 => otp[k] = TF!NoOtp)
                           /\ otp[k].code # 0 => tried[k][otp[k].code] <= otp[k].n
    BY <1>m, <2>1, <2>2, <2>3, <2>4
  <2> QED BY <1>d, <1>q, <2>3, <2>5 DEF FactorTries, FactorHoldsOtp
<1>6. FactorRows
  <2>1. \A i \in TF!Ids : streak[i] = 0
    BY <1>0
  <2>2. 1 \in TF!Ids
    BY <1>d, <1>i
  <2>3. \A x, y \in tRows : x.id = y.id => x = y
    BY <1>0
  <2>4. TF!LockEngages
    BY <1>d, <1>x, <2>1, <2>2 DEF TF!LockEngages
  <2> QED BY <1>0, <1>d, <1>m, <1>q, <1>x, <2>1, <2>2, <2>3, <2>4 DEF FactorRows
<1>7. FactorCodes
  <2>1. \A b \in TF!AllCodes : redeemed[b] = 0
    BY <1>0
  <2>2. \A x \in tRows : \A b \in x.codes : b \in {2, 3} /\ b \in TF!AllCodes
    BY <1>c, <1>x
  <2>3. \A x \in tRows : \A b \in x.codes : b <= 2 * tMade + 1 /\ redeemed[b] = 0
    BY <1>m, <2>1, <2>2
  <2> QED BY <1>0, <2>1, <2>3 DEF FactorCodes
<1>8. FactorEnrols
  <2>1. TF!NoRow.verified = FALSE
    BY DEF TF!NoRow
  <2> QED BY <1>q, <1>x, <2>1 DEF FactorEnrols, FactorEnrolled
<1> QED BY <1>2, <1>3, <1>4, <1>5, <1>6, <1>7, <1>8 DEF FactorInv

LEMMA FactorInvStep == FactorInv /\ [TF!Next]_TF!vars => FactorInv'
<1> SUFFICES ASSUME FactorInv, [TF!Next]_TF!vars PROVE FactorInv'
  OBVIOUS
<1>i. /\ FactorBase /\ FactorPassed /\ FactorCounts /\ FactorTries /\ FactorRows /\ FactorCodes
      /\ FactorEnrols
  BY DEF FactorInv
<1>a. FactorAll
  BY <1>i, FactorBaseKept DEF FactorAll
<1>1. FactorBase' /\ FactorPassed' /\ FactorCounts' /\ FactorTries'
  BY <1>a, <1>i, FactorPassedKept, FactorCountsKept, FactorTriesKept DEF FactorAll
<1>2. FactorRows' /\ FactorCodes' /\ FactorEnrols'
  BY <1>a, <1>i, FactorRowsKept, FactorCodesKept, FactorEnrolsKept
<1> QED BY <1>1, <1>2 DEF FactorInv

LEMMA FactorInvHolds == TF!Spec => []FactorInv
<1>1. TF!Init => FactorInv
  BY FactorInit
<1> QED BY <1>1, FactorInvStep, PTL DEF TF!Spec

\* Challenges, OTPs and rows have budgets, and wrong codes stay within them: for any
\* requests, challenges, limits and failures, no more codes are compared for a
\* challenge, or with an OTP, than are allowed, and a row with as many failures in a
\* row as are allowed is locked, or is about to be.
THEOREM BudgetsHoldAlways == AllSpec => []BudgetsHold
<1>1. FactorInv => BudgetsHold
  BY DEF FactorInv, FactorCounts, FactorTries, FactorRows, BudgetsHold, TF!BudgetsHold,
         TF!GuessesBounded
<1> QED BY <1>1, FactorInvHolds, Parts, PTL

\* A challenge turns into one session at most, and a backup code is accepted once and
\* does not come back, whatever races: two sign-ins, a session, new codes.
THEOREM FactorUsedOnceAlways == AllSpec => []FactorUsedOnce
<1>1. FactorInv => FactorUsedOnce
  BY DEF FactorInv, FactorPassed, FactorCodes, FactorUsedOnce, TF!FactorUsedOnce,
         TF!OneSessionPerChallenge, TF!CodeUsedOnce
<1> QED BY <1>1, FactorInvHolds, Parts, PTL

\* While nobody disables the second factor, what is enrolled and verified belongs to an
\* account that has it enabled, wherever a request fails.
THEOREM EnrolmentOrderedAlways == AllSpec => []EnrolmentOrdered
<1>1. FactorInv => EnrolmentOrdered
  BY DEF FactorInv, FactorEnrols, FactorCareful, FactorEnrolled, EnrolmentOrdered,
         TF!EnrolmentOrdered, TF!Op
<1> QED BY <1>1, FactorInvHolds, Parts, PTL

\* What a step may do to a lock that is in force.
FactorLockStep ==
  \A x \in tRows : TF!Locked(x) =>
    \/ \E y \in tRows' : y.id = x.id /\ y.lockedUntil >= x.lockedUntil
    \/ \A y \in tRows' : y.id # x.id
    \/ \E r \in Requests : TF!At(r, "reset") /\ tCall'[r].at \in {"burn", "ok", "rejected"}

LEMMA FactorLockHolds ==
  ASSUME FactorInv, [TF!Next]_TF!vars
  PROVE  FactorLockStep
<1>t. FactorTyped /\ tRows \subseteq TF!Row /\ tNow \in Nat /\ LockFor \in Nat
  BY FactorTypes, FactorDeployTyped DEF FactorInv, FactorBase
<1>x. \A x \in tRows : x.lockedUntil \in Nat \cup {-1} /\ x.lockedUntil <= tNow + LockFor
  BY <1>t DEF FactorInv, FactorRows, TF!Row, TF!None
<1>s. ASSUME tRows' = tRows PROVE FactorLockStep
  BY <1>s, <1>x DEF FactorLockStep
<1>c. ASSUME tRows' = {} \/ \A x \in tRows : TF!Locked(x) =>
               \E y \in tRows' : y.id = x.id /\ y.lockedUntil >= x.lockedUntil
      PROVE  FactorLockStep
  BY <1>c DEF FactorLockStep
<1>1. ASSUME NEW r \in Requests, FactorOthers(r), FactorStep(r) PROVE FactorLockStep
  <2>1. CASE FactorUnlocks(r)
    <3>1. PICK xs \in SUBSET tRows :
            /\ \A x \in xs : ~TF!Locked(x)
            /\ tRows' = {IF x \in xs THEN FactorCleared(x) ELSE x : x \in tRows}
      BY <2>1 DEF FactorUnlocks
    <3>2. \A x \in tRows : TF!Locked(x) => x \in tRows'
      BY <3>1
    <3> QED BY <1>c, <1>x, <3>2
  <2>2. CASE FactorFails(r)
    <3> DEFINE F(x) == IF FactorMine(r, x)
                         THEN FactorRow(x.id, x.codes, x.count + 1, x.lockedUntil, x.verified)
                         ELSE x
    <3>1. tRows' = {F(x) : x \in tRows}
      BY <2>2 DEF FactorFails
    <3>2. \A x \in tRows : F(x).id = x.id /\ F(x).lockedUntil = x.lockedUntil
      BY DEF FactorRow
    <3> HIDE DEF F
    <3>3. \A x \in tRows : F(x) \in tRows' /\ F(x).lockedUntil >= x.lockedUntil
      BY <1>x, <3>1, <3>2
    <3> QED BY <1>c, <3>2, <3>3
  <2>3. CASE FactorLocks(r)
    <3> DEFINE F(x) == IF FactorMine(r, x)
                         THEN FactorRow(x.id, x.codes, x.count, tNow + LockFor, x.verified)
                         ELSE x
    <3>1. tRows' = {F(x) : x \in tRows}
      BY <2>3 DEF FactorLocks
    <3>2. \A x \in tRows : /\ F(x).id = x.id
                           /\ F(x).lockedUntil = x.lockedUntil \/ F(x).lockedUntil = tNow + LockFor
      BY DEF FactorRow
    <3> HIDE DEF F
    <3>3. \A x \in tRows : F(x) \in tRows' /\ F(x).lockedUntil >= x.lockedUntil
      BY <1>t, <1>x, <3>1, <3>2
    <3> QED BY <1>c, <3>2, <3>3
  <2>4. CASE FactorResets(r)
    BY <2>4 DEF FactorResets, FactorGoes, FactorTo, FactorLockStep, TF!At
  <2>5. CASE FactorCreates(r)
    <3>1. \A x \in tRows : x \in tRows'
      BY <2>5 DEF FactorCreates
    <3> QED BY <1>c, <1>x, <3>1
  <2>6. CASE ~FactorCounted(r) /\ ~FactorCreates(r)
    <3>1. tRows' = {} \/ \A x \in tRows : \E y \in tRows' : FactorSame(x, y)
      BY <1>1, <2>6, FactorRowsMove
    <3>2. CASE tRows' = {}
      BY <1>c, <3>2
    <3>3. CASE \A x \in tRows : \E y \in tRows' : FactorSame(x, y)
      <4>1. \A x \in tRows : \E y \in tRows' : y.id = x.id /\ y.lockedUntil >= x.lockedUntil
        BY <1>x, <3>3 DEF FactorSame
      <4> QED BY <1>c, <4>1
    <3> QED BY <3>1, <3>2, <3>3
  <2> QED BY <2>1, <2>2, <2>3, <2>4, <2>5, <2>6 DEF FactorCounted
<1>2. ASSUME NEW r \in Requests, NEW op \in tDeploy.ops[r], FactorStarts(r, op)
      PROVE  FactorLockStep
  BY <1>2, <1>s DEF FactorStarts, FactorRead, FactorKept
<1>3. ASSUME NEW r \in Requests, FactorEnds(r) PROVE FactorLockStep
  BY <1>3, <1>s DEF FactorEnds, FactorRead, FactorKept
<1>4. ASSUME NEW k \in TF!Keys, FactorExpires(k) PROVE FactorLockStep
  BY <1>4, <1>s DEF FactorExpires, FactorStored, FactorKept
<1>5. CASE FactorTicks
  BY <1>5, <1>s DEF FactorTicks, FactorKept
<1>6. CASE UNCHANGED TF!vars
  BY <1>6, <1>s DEF TF!vars
<1> QED BY <1>t, <1>1, <1>2, <1>3, <1>4, <1>5, <1>6, FactorNext

\* A lock in force is moved on, goes with its row, or ends by a right code: a request
\* that saw an earlier lock expire does not clear it.
THEOREM LiveLockStays == AllSpec => LiveLockKept
<1>1. FactorInv /\ [TF!Next]_TF!vars => [FactorLockStep]_TF!vars
  BY FactorLockHolds
<1>2. [FactorLockStep]_TF!vars =>
        [\A x \in tRows : TF!Locked(x) =>
           \/ \E y \in tRows' : y.id = x.id /\ y.lockedUntil >= x.lockedUntil
           \/ \A y \in tRows' : y.id # x.id
           \/ \E r \in Requests : TF!At(r, "reset") /\ tCall'[r].at \in {"burn", "ok", "rejected"}]_TF!vars
  BY DEF FactorLockStep
<1>3. TF!Spec => LiveLockKept
  BY <1>1, <1>2, FactorInvHolds, PTL DEF TF!Spec, LiveLockKept, TF!LiveLockKept
<1> QED BY <1>3, Parts, PTL

-----------------------------------------------------------------------------
(* Who gets into an account. A row is named after the request that added it,  *)
(* once, so what a proof of the mailbox takes away cannot come back; the      *)
(* rows that it did not see are the owner's, or a sign-up's that had no       *)
(* transaction. Beside a quiet proof nobody else is on the way, and whoever   *)
(* comes later finds no password of theirs. A reset writes every credential   *)
(* row, and a password from before it was set by a request that is over.      *)

AccessEnds == {"ok", "rejected", "failed"}
AccessResets == {"resetLink", "resetOtp"}
\* The places of an operation.
AccessPlaces(op) ==
  CASE op = "none"           -> {"idle"}
    [] op = "signUp"         -> {"find", "createUser", "link", "session"} \cup AccessEnds
    [] op = "signIn"         -> {"find", "session"} \cup AccessEnds
    [] op = "proof"          -> {"find", "createUser", "reread", "accounts", "strip", "revoke",
                                 "flip", "session"} \cup AccessEnds
    [] op = "confirm"        -> {"find", "flip", "session"} \cup AccessEnds
    [] op = "resetLink"      -> {"accounts", "password", "revoke"} \cup AccessEnds
    [] op = "resetOtp"       -> {"find", "password", "flip", "revoke"} \cup AccessEnds
    [] op = "changePassword" -> {"accounts", "rewrite", "revoke", "session"} \cup AccessEnds
    [] op = "social"         -> {"find", "createUser", "link", "flip", "session"} \cup AccessEnds
    [] op = "unlink"         -> {"accounts", "unlink"} \cup AccessEnds

AccessStripping == {"accounts", "strip", "revoke", "flip"}
AccessPath(r) == LET c == aCall[r] IN
  /\ c.at \in AccessPlaces(c.op)
  /\ c.op # "none" => c.op \in aDeploy.ops[r]
  /\ aDeploy.atomic /\ c.at = "link" => c.op = "social"
  /\ "strip" \in c.done => c.op = "proof" /\ c.at \in AccessStripping \cup {"session", "ok", "failed"}
  /\ "strip" \in c.done /\ c.at \in AccessStripping => "flip" \notin c.done
  /\ c.op = "proof" /\ c.at \in {"accounts", "strip", "revoke"} => "strip" \in c.done
  /\ c.op = "proof" /\ c.at = "flip" /\ "strip" \notin c.done => user = "verified"
  /\ c.at \in {"idle", "find", "createUser", "reread"} => c.done = {}
AccessBase == AA!TypeOK /\ \A r \in Requests : AccessPath(r)

\* Who may add a row yet. A row is added by whom it is named after, once, and so is a session.
AccessAdds(q) ==
  \/ aCall[q].at \in {"idle", "find", "createUser", "link"}
  \/ aCall[q].op \in AccessResets /\ aCall[q].at \in {"accounts", "password"}
AccessRows ==
  /\ user = "none" =>
       /\ accounts = {} /\ aSessions = {}
       /\ \A q \in Requests : aCall[q].at \in {"idle", "find", "createUser"} \cup AccessEnds
  /\ \A a, b \in accounts : a.id = b.id => a = b
  /\ \A a \in accounts : a.id \in Requests => ~AccessAdds(a.id)
  /\ \A m \in aSessions : m \in Requests => aCall[m].at = "ok"

\* A row that the owner made never has a password of somebody else.
AccessOwn(xs) ==
  \A a \in AA!Credentials(xs) : AA!Who(a.pw) = "owner" \/ AA!Who(a.pw) = AA!Who(a.id)
AccessOwned == AccessOwn(accounts) /\ \A q \in Requests : AccessOwn(aCall[q].seen)

\* What a proof of the mailbox takes away: the rows and the sessions from before.
AccessStrips(r) == LET c == aCall[r] IN
  "strip" \in c.done =>
    /\ \A q \in c.old : q \in Requests => ~AccessAdds(q)
    /\ \A m \in c.had : m \in Requests => aCall[m].at = "ok"
    /\ c.at = "strip" => \A a \in AA!Credentials(accounts) : a.id \in c.old =>
         \E b \in AA!Credentials(c.seen) : b.id = a.id
    /\ c.at \in {"revoke", "flip"} \/ "flip" \in c.done =>
         \A a \in AA!Credentials(accounts) : a.id \notin c.old
    /\ c.at = "flip" \/ "flip" \in c.done => c.had \cap aSessions = {}
    /\ "flip" \in c.done => user = "verified"
    /\ aDeploy.atomic /\ c.at \in AccessStripping =>
         \A a \in AA!Credentials(accounts) : a.id \in c.old \/ AA!Who(a.id) = "owner"

\* Nobody else's request runs beside it; later ones find an account that is not theirs.
AccessOut(q) ==
  /\ aCall[q].at \in {"link", "session", "flip"} => aCall[q].op = "social"
  /\ aCall[q].at \notin {"rewrite", "revoke"}
AccessQuiet(r) == LET c == aCall[r] IN
  "strip" \in c.done /\ c.quiet =>
    /\ AA!InFlight(r) => \A q \in Requests : AA!InFlight(q) => AA!Who(q) = "owner"
    /\ AA!InFlight(r) \/ "flip" \in c.done =>
         \A a \in AA!Credentials(accounts) : a.id \in c.old \/ AA!Who(a.id) = "owner"
    /\ c.at = "flip" \/ "flip" \in c.done =>
         \A m \in aSessions : AA!Who(m) = "owner" \/ (m \in Requests /\ aCall[m].op = "social")
    /\ "flip" \in c.done => \A q \in Requests : AA!Who(q) # "owner" => AccessOut(q)

\* In an account that only a proof, or the provider, verified, all credentials are the owner's.
AccessUnconfirmed ==
  /\ aDeploy.atomic /\ aDeploy.requireLocal /\ ~aDeploy.trusted
  /\ ~confirmed /\ aDeploy.user # "verified"
AccessLinks ==
  AccessUnconfirmed =>
    /\ user = "verified" => \A a \in AA!Credentials(accounts) : AA!Who(a.id) = "owner"
    /\ \A a \in accounts : a.kind = "social" /\ AA!Who(a.id) = "owner" => user = "verified"
    /\ \A q \in Requests : aCall[q].at = "link" /\ AA!Who(q) = "owner" => user = "verified"

\* After a reset no old password is left, and no sign-in with one goes on that it did not see.
AccessPast(r) == aCall[r].at \in {"flip", "revoke", "ok"}
AccessReset(r) == LET c == aCall[r] IN
  c.op \in AccessResets =>
    /\ r \notin c.old
    /\ \A m \in c.old : m \in Requests => aCall[m].at = "ok"
    /\ (c.at = "password" /\ AA!Credentials(c.seen) = {}) \/ AccessPast(r) =>
         \A a \in AA!Credentials(accounts) : a.pw \notin c.old
    /\ AccessPast(r) => \A m \in Requests :
         aCall[m].op = "signIn" /\ aCall[m].at = "session" /\ aCall[m].pw \in c.old => m \in c.racing
    /\ aDeploy.revoke /\ c.at = "ok" => \A m \in aSessions \cap Requests :
         aCall[m].op = "signIn" /\ aCall[m].pw \in c.old => m \in c.racing

AccessInv ==
  /\ AccessBase /\ AccessRows /\ AccessOwned /\ AccessLinks
  /\ \A r \in Requests : AccessStrips(r) /\ AccessQuiet(r) /\ AccessReset(r)

LEMMA AccessDeployTyped ==
  ASSUME aDeploy \in Accesses
  PROVE  /\ aDeploy.ops \in [Requests -> SUBSET AA!AllOps] /\ aDeploy.who \in [AA!Makers -> AA!People]
         /\ aDeploy.atomic \in BOOLEAN /\ aDeploy.user \in {"none", "unverified", "verified"}
         /\ aDeploy.password \in BOOLEAN /\ aDeploy.verifyFirst \in BOOLEAN
         /\ aDeploy.revoke \in BOOLEAN /\ aDeploy.requireLocal \in BOOLEAN
         /\ aDeploy.trusted \in BOOLEAN /\ aDeploy.maxFailures \in Nat /\ Past \notin Requests
         /\ \A r \in Requests : aDeploy.ops[r] \cap AA!ByMail # {} => aDeploy.who[r] = "owner"
<1>1. aDeploy \in AA!Deployment
  BY FactorsAssumption DEF AA!ConstantsOK
<1>2. Past \notin Requests
         /\ \A r \in Requests : aDeploy.ops[r] \cap AA!ByMail # {} => aDeploy.who[r] = "owner"
  BY FactorsAssumption DEF AA!ConstantsOK
<1> QED BY <1>1, <1>2 DEF AA!Deployment

LEMMA AccessTypes ==
  ASSUME AA!TypeOK
  PROVE  /\ aDeploy \in Accesses /\ user \in {"none", "unverified", "verified"}
         /\ accounts \subseteq AA!AccountRow /\ aSessions \subseteq Requests \cup {Past}
         /\ aCall \in [Requests -> AA!Call] /\ confirmed \in BOOLEAN
         /\ Past \notin Requests
         /\ \A a \in accounts : /\ a.id \in Requests \cup {Past} /\ a.pw \in Requests \cup {Past}
                                /\ a.kind \in {"credential", "social"}
         /\ \A m \in Requests \cup {Past} : AA!Who(m) \in {"owner", "other"}
         /\ \A r \in Requests :
              /\ aCall[r].op \in AA!AllOps \cup {"none"}
              /\ aCall[r].user \in {"none", "unverified", "verified"}
              /\ aCall[r].at \in {"idle"} \cup AA!Steps \cup AA!Ended
              /\ aCall[r].seen \in SUBSET AA!AccountRow /\ aCall[r].pw \in Requests \cup {Past}
              /\ aCall[r].old \in SUBSET (Requests \cup {Past})
              /\ aCall[r].had \in SUBSET (Requests \cup {Past})
              /\ aCall[r].racing \in SUBSET Requests /\ aCall[r].quiet \in BOOLEAN
              /\ aCall[r].done \in SUBSET {"strip", "flip"}
<1>1. /\ aDeploy \in Accesses /\ user \in {"none", "unverified", "verified"}
      /\ accounts \subseteq AA!AccountRow /\ aSessions \subseteq Requests \cup {Past}
      /\ aCall \in [Requests -> AA!Call] /\ confirmed \in BOOLEAN
  BY DEF AA!TypeOK, AA!Makers
<1>2. \A m \in Requests \cup {Past} : AA!Who(m) \in {"owner", "other"}
  BY <1>1, AccessDeployTyped DEF AA!Who, AA!Makers, AA!People
<1>3. \A r \in Requests : aCall[r] \in AA!Call
  BY <1>1
<1>4. \A a \in accounts : /\ a.id \in Requests \cup {Past} /\ a.pw \in Requests \cup {Past}
                          /\ a.kind \in {"credential", "social"}
  BY <1>1 DEF AA!AccountRow, AA!Makers
<1>5. ASSUME NEW r \in Requests
      PROVE   /\ aCall[r].op \in AA!AllOps \cup {"none"}
              /\ aCall[r].user \in {"none", "unverified", "verified"}
              /\ aCall[r].at \in {"idle"} \cup AA!Steps \cup AA!Ended
              /\ aCall[r].seen \in SUBSET AA!AccountRow /\ aCall[r].pw \in Requests \cup {Past}
              /\ aCall[r].old \in SUBSET (Requests \cup {Past})
              /\ aCall[r].had \in SUBSET (Requests \cup {Past})
              /\ aCall[r].racing \in SUBSET Requests /\ aCall[r].quiet \in BOOLEAN
              /\ aCall[r].done \in SUBSET {"strip", "flip"}
  BY <1>3, <1>5 DEF AA!Call, AA!Makers
<1> QED BY <1>1, <1>2, <1>4, <1>5, AccessDeployTyped

-----------------------------------------------------------------------------
(* What a step does, without the records it is written with. *)

AccessTo(r, pc, s, p, o, h, k, q, d) ==
  /\ aCall'[r].at = pc /\ aCall'[r].seen = s /\ aCall'[r].pw = p /\ aCall'[r].old = o
  /\ aCall'[r].had = h /\ aCall'[r].racing = k /\ aCall'[r].quiet = q /\ aCall'[r].done = d
\* It reads rows; it does no more than go on.
AccessSees(r, pc, s) == LET c == aCall[r] IN
  AccessTo(r, pc, s, c.pw, c.old, c.had, c.racing, c.quiet, c.done)
AccessGoes(r, pc) == AccessSees(r, pc, aCall[r].seen)
AccessOthers(r) ==
  /\ \A q \in Requests : q # r => aCall'[q] = aCall[q]
  /\ aCall'[r].op = aCall[r].op
  \* It has its type when what changed has.
  /\ LET c == aCall'[r] IN
       /\ c.at \in AA!Steps \cup AA!Ended /\ c.user \in {"none", "unverified", "verified"}
       /\ c.seen \in SUBSET AA!AccountRow /\ c.pw \in AA!Makers /\ c.old \in SUBSET AA!Makers
       /\ c.had \in SUBSET AA!Makers /\ c.racing \in SUBSET Requests /\ c.quiet \in BOOLEAN
       /\ c.done \in SUBSET {"strip", "flip"}
       => aCall' \in [Requests -> AA!Call]
  /\ aCall'[r].user \in {"none", "unverified", "verified"}

AccessRead == UNCHANGED <<aDeploy, user, accounts, aSessions, confirmed>>
AccessKind(r) == IF aCall[r].op = "social" THEN "social" ELSE "credential"
AccessNew(r) == [id |-> r, kind |-> AccessKind(r), pw |-> r]
AccessPw(a, p) == [id |-> a.id, kind |-> a.kind, pw |-> p]
AccessAfterReset == IF aDeploy.revoke THEN "revoke" ELSE "ok"

AccessEnters(r) == LET c == aCall[r] IN
  /\ c.at = "find" /\ c.op = "signIn" /\ AccessRead
  /\ \/ AccessGoes(r, "rejected")
     \/ \E a \in AA!Credentials(accounts), pc \in {"rejected", "session"} :
          /\ pc = "session" => AA!Who(a.pw) = AA!Who(r)
          /\ AccessTo(r, pc, c.seen, a.pw, c.old, c.had, c.racing, c.quiet, c.done)
\* Where a request goes that found the user or did not.
AccessFound(r, pc) == LET op == aCall[r].op IN
  \/ pc = "rejected"
  \/ op \in {"signUp", "proof", "social"} /\ pc = "createUser" /\ user = "none"
  \/ op = "proof" /\ pc \in {"reread", "session"} /\ user # "none"
  \/ op = "confirm" /\ pc \in {"flip", "ok"} /\ user # "none"
  \/ op = "social" /\ pc = "session" /\ user # "none"
  \/ op = "social" /\ pc = "flip" /\ user # "none" /\ AA!Who(r) = "owner"
  \/ op = "social" /\ pc = "link" /\ user # "none" /\ (aDeploy.requireLocal => user = "verified")
AccessFinds(r) ==
  /\ aCall[r].at = "find" /\ AccessRead
  /\ \/ \E pc : AccessFound(r, pc) /\ AccessGoes(r, pc)
     \/ \E pc : /\ aCall[r].op = "resetOtp" /\ AccessSees(r, pc, accounts)
                /\ pc = "rejected" \/ (pc = "password" /\ user # "none")
AccessCreates(r) == LET op == aCall[r].op IN
  /\ aCall[r].at = "createUser" /\ op \in {"signUp", "proof", "social"} /\ UNCHANGED <<aDeploy, confirmed>>
  /\ \/ UNCHANGED <<user, accounts, aSessions>> /\ user # "none" /\ AccessGoes(r, "rejected")
     \/ /\ user = "none" /\ user' \in {"verified", "unverified"}
        /\ user' = "verified" <=> (op = "proof" \/ (op = "social" /\ AA!Who(r) = "owner"))
        /\ \/ UNCHANGED <<accounts, aSessions>> /\ op = "proof" /\ AccessGoes(r, "session")
           \/ /\ UNCHANGED <<accounts, aSessions>> /\ op # "proof" /\ ~aDeploy.atomic
              /\ AccessGoes(r, "link")
           \/ /\ aDeploy.atomic /\ accounts' = accounts \cup {AccessNew(r)} /\ op # "proof"
              /\ \/ aSessions' = aSessions /\ op = "social" /\ AccessGoes(r, "session")
                 \/ aSessions' \in {aSessions, aSessions \cup {r}} /\ op = "signUp" /\ AccessGoes(r, "ok")
AccessAttaches(r) ==
  /\ aCall[r].at = "link" /\ UNCHANGED <<aDeploy, user, aSessions, confirmed>>
  /\ accounts' = accounts \cup {AccessNew(r)}
  /\ \E pc \in {"ok", "session", "flip"} :
       /\ AccessGoes(r, pc) /\ (pc = "ok" => aCall[r].op = "signUp")
       /\ pc = "flip" => aCall[r].op = "social" /\ AA!Who(r) = "owner"
AccessSigns(r) ==
  /\ aCall[r].at = "session" /\ UNCHANGED <<aDeploy, user, accounts, confirmed>>
  /\ aSessions' = aSessions \cup {r} /\ AccessGoes(r, "ok")
AccessRereads(r) == LET c == aCall[r] IN
  /\ c.at = "reread" /\ AccessRead
  /\ AccessTo(r, IF user = "verified" THEN "flip" ELSE "accounts", c.seen, c.pw,
              {a.id : a \in AA!Credentials(accounts)}, aSessions, c.racing,
              AA!OthersInFlight(r) = {}, IF user = "verified" THEN {} ELSE {"strip"})
AccessReads(r) == LET op == aCall[r].op IN
  /\ aCall[r].at = "accounts" /\ AccessRead
  /\ \E pc : /\ AccessSees(r, pc, accounts)
             /\ \/ op = "proof" /\ pc = "strip"
                \/ op = "proof" /\ pc = "revoke" /\ AA!Credentials(accounts) = {}
                \/ op = "resetLink" /\ pc = "password"
                \/ op \in {"changePassword", "unlink"} /\ pc = "rejected"
                \/ /\ op = "changePassword" /\ pc = "rewrite"
                   /\ \E a \in AA!Credentials(accounts) : AA!Who(a.pw) = AA!Who(r)
                \/ op = "unlink" /\ pc = "unlink"
AccessDeletes(r) ==
  /\ aCall[r].at = "strip" /\ UNCHANGED <<aDeploy, user, aSessions, confirmed>>
  /\ \E a \in AA!Credentials(aCall[r].seen) :
       /\ accounts' = {b \in accounts : b.id # a.id}
       /\ LET left == aCall[r].seen \ {a} IN
            AccessSees(r, IF AA!Credentials(left) = {} THEN "revoke" ELSE "strip", left)
AccessRevokes(r) == LET op == aCall[r].op IN
  /\ aCall[r].at = "revoke" /\ UNCHANGED <<aDeploy, user, accounts, confirmed>>
  /\ aSessions' = {}
  /\ AccessGoes(r, IF op = "proof" THEN "flip" ELSE IF op = "changePassword" THEN "session" ELSE "ok")
AccessFlips(r) == LET c == aCall[r] IN
  /\ c.at = "flip" /\ UNCHANGED <<aDeploy, accounts, aSessions>>
  /\ user' = "verified" /\ confirmed' = (confirmed \/ (c.op # "proof" /\ user # "verified"))
  /\ \E pc : /\ AccessTo(r, pc, c.seen, c.pw, c.old, c.had, c.racing, c.quiet, c.done \cup {"flip"})
             /\ \/ c.op = "resetOtp" /\ pc = AccessAfterReset
                \/ c.op = "confirm" /\ pc \in {"ok", "session"}
                \/ c.op \notin {"resetOtp", "confirm"} /\ pc = "session"
AccessSets(r) == LET c == aCall[r] IN
  /\ c.at = "password" /\ UNCHANGED <<aDeploy, user, aSessions, confirmed>>
  /\ \/ AA!Credentials(c.seen) = {} /\ accounts' = accounts \cup {AccessNew(r)}
     \/ /\ AA!Credentials(c.seen) # {}
        /\ accounts' = {AccessPw(a, IF a.kind = "credential" THEN r ELSE a.pw) : a \in accounts}
  /\ \E pc : /\ pc = AccessAfterReset \/ (c.op = "resetOtp" /\ pc = "flip")
             /\ AccessTo(r, pc, c.seen, c.pw, c.old, c.had, {q \in Requests : AA!InFlight(q)},
                         c.quiet, c.done)
AccessRewrites(r) ==
  /\ aCall[r].at = "rewrite" /\ UNCHANGED <<aDeploy, user, aSessions, confirmed>>
  /\ \E x \in AA!Credentials(aCall[r].seen) :
       /\ AA!Who(x.pw) = AA!Who(r)
       /\ accounts' = {AccessPw(a, IF a.id = x.id THEN r ELSE a.pw) : a \in accounts}
  /\ \E pc \in {"ok", "revoke"} : AccessGoes(r, pc)
AccessUnlinks(r) ==
  /\ aCall[r].at = "unlink" /\ UNCHANGED <<aDeploy, user, aSessions, confirmed>>
  /\ \E a \in aCall[r].seen : accounts' = {b \in accounts : b.id # a.id}
  /\ AccessGoes(r, "ok")
AccessStep(r) ==
  \/ AccessEnters(r) \/ AccessFinds(r) \/ AccessCreates(r) \/ AccessAttaches(r) \/ AccessSigns(r)
  \/ AccessRereads(r) \/ AccessReads(r) \/ AccessDeletes(r) \/ AccessRevokes(r) \/ AccessFlips(r)
  \/ AccessSets(r) \/ AccessRewrites(r) \/ AccessUnlinks(r)

AccessStarts(r, op) ==
  /\ aCall[r].at = "idle" /\ AccessRead /\ aCall' \in [Requests -> AA!Call]
  /\ op = "resetLink" => user # "none"
  /\ op \in AA!NeedSession => \E m \in aSessions : AA!Who(m) = AA!Who(r)
  /\ \A q \in Requests : q # r =>
       /\ aCall'[q].op = aCall[q].op
       /\ AccessTo(q, aCall[q].at, aCall[q].seen, aCall[q].pw, aCall[q].old, aCall[q].had,
                   aCall[q].racing,
                   aCall[q].quiet /\ (AA!InFlight(q) => AA!Who(q) = AA!Who(r)), aCall[q].done)
  /\ aCall'[r].op = op
  /\ AccessTo(r, IF op \in AA!NeedSession \cup {"resetLink"} THEN "accounts" ELSE "find", {}, Past,
              IF op \in AccessResets THEN {m \in AA!Makers : m = Past \/ aCall[m].at = "ok"} ELSE {},
              {}, {}, FALSE, {})
AccessEnded(r) ==
  /\ AA!InFlight(r) /\ AccessOthers(r) /\ AccessRead /\ AccessGoes(r, "failed")

\* What a step makes of a call, field by field.
LEMMA AccessFields ==
  ASSUME AA!TypeOK, NEW r \in Requests, NEW pc
  PROVE  /\ AA!Goto(r, pc) => AccessOthers(r) /\ AccessGoes(r, pc)
         /\ \A p : AA!Become(r, [aCall[r] EXCEPT !.at = pc, !.pw = p]) =>
              AccessOthers(r) /\ AccessTo(r, pc, aCall[r].seen, p, aCall[r].old, aCall[r].had,
                                          aCall[r].racing, aCall[r].quiet, aCall[r].done)
         /\ \A s : \A u \in {"none", "unverified", "verified"} :
              AA!Become(r, [aCall[r] EXCEPT !.at = pc, !.user = u, !.seen = s]) =>
                AccessOthers(r) /\ AccessSees(r, pc, s)
         /\ \A s : AA!Become(r, [aCall[r] EXCEPT !.at = pc, !.seen = s]) =>
                AccessOthers(r) /\ AccessSees(r, pc, s)
         /\ \A s : AA!Become(r, [aCall[r] EXCEPT !.seen = s, !.at = pc]) =>
                AccessOthers(r) /\ AccessSees(r, pc, s)
         /\ \A o, h, q, d :
              AA!Become(r, [aCall[r] EXCEPT !.at = pc, !.old = o, !.had = h, !.quiet = q,
                                            !.done = d]) =>
                AccessOthers(r) /\ AccessTo(r, pc, aCall[r].seen, aCall[r].pw, o, h,
                                            aCall[r].racing, q, d)
         /\ \A d : AA!Become(r, [aCall[r] EXCEPT !.at = pc, !.done = d]) =>
              AccessOthers(r) /\ AccessTo(r, pc, aCall[r].seen, aCall[r].pw, aCall[r].old,
                                          aCall[r].had, aCall[r].racing, aCall[r].quiet, d)
         /\ \A k : AA!Become(r, [aCall[r] EXCEPT !.racing = k, !.at = pc]) =>
              AccessOthers(r) /\ AccessTo(r, pc, aCall[r].seen, aCall[r].pw, aCall[r].old,
                                          aCall[r].had, k, aCall[r].quiet, aCall[r].done)
<1> DEFINE x == aCall[r]
           D(u, s, p, o, h, k, q, d) ==
             [op |-> x.op, at |-> pc, user |-> u, seen |-> s, pw |-> p, old |-> o, had |-> h,
              racing |-> k, quiet |-> q, done |-> d]
           g == [x EXCEPT !.at = pc]
<1>0. aCall \in [Requests -> AA!Call] /\ x \in AA!Call
  BY AccessTypes
<1>1. ASSUME NEW u \in {"none", "unverified", "verified"}, NEW s, NEW p, NEW o, NEW h, NEW k,
             NEW q, NEW d, AA!Become(r, D(u, s, p, o, h, k, q, d))
      PROVE  AccessOthers(r) /\ AccessTo(r, pc, s, p, o, h, k, q, d)
  <2> DEFINE c == D(u, s, p, o, h, k, q, d)
  <2>1. /\ c.at = pc /\ c.user = u /\ c.seen = s /\ c.pw = p /\ c.old = o /\ c.had = h
        /\ c.racing = k /\ c.quiet = q /\ c.done = d /\ c.op = x.op
    OBVIOUS
  <2>2. ASSUME pc \in AA!Steps \cup AA!Ended, s \in SUBSET AA!AccountRow, p \in AA!Makers,
               o \in SUBSET AA!Makers, h \in SUBSET AA!Makers, k \in SUBSET Requests,
               q \in BOOLEAN, d \in SUBSET {"strip", "flip"}
        PROVE  c \in AA!Call
    <3>1. x.op \in AA!AllOps \cup {"none"}
      BY <1>0 DEF AA!Call
    <3>2. pc \in {"idle"} \cup AA!Steps \cup AA!Ended
      BY <2>2
    <3> QED BY <1>1, <2>2, <3>1, <3>2 DEF AA!Call
  <2> HIDE DEF c
  <2>4. /\ aCall'[r] = c /\ \A n \in Requests : n # r => aCall'[n] = aCall[n]
        /\ c \in AA!Call => aCall' \in [Requests -> AA!Call]
    BY <1>0, <1>1 DEF AA!Become, c
  <2>5. c.user \in {"none", "unverified", "verified"}
    BY <2>1, <1>1
  <2> QED BY <2>1, <2>2, <2>4, <2>5 DEF AccessOthers, AccessTo
<1>u. x.user \in {"none", "unverified", "verified"}
  BY AccessTypes
<1>2. g = D(x.user, x.seen, x.pw, x.old, x.had, x.racing, x.quiet, x.done)
  BY <1>0 DEF AA!Call
<1>3. ASSUME NEW p
      PROVE  [x EXCEPT !.at = pc, !.pw = p] =
               D(x.user, x.seen, p, x.old, x.had, x.racing, x.quiet, x.done)
  <2>1. [x EXCEPT !.at = pc, !.pw = p] = [g EXCEPT !.pw = p]
    BY <1>0 DEF AA!Call
  <2> HIDE DEF g
  <2> QED BY <1>2, <2>1
<1>4. ASSUME NEW s
      PROVE  /\ [x EXCEPT !.at = pc, !.seen = s] =
                  D(x.user, s, x.pw, x.old, x.had, x.racing, x.quiet, x.done)
             /\ [x EXCEPT !.seen = s, !.at = pc] =
                  D(x.user, s, x.pw, x.old, x.had, x.racing, x.quiet, x.done)
  <2>1. [x EXCEPT !.at = pc, !.seen = s] = [g EXCEPT !.seen = s]
    BY <1>0 DEF AA!Call
  <2>2. [x EXCEPT !.seen = s, !.at = pc] = [g EXCEPT !.seen = s]
    BY <1>0 DEF AA!Call
  <2> HIDE DEF g
  <2>3. [g EXCEPT !.seen = s] = D(x.user, s, x.pw, x.old, x.had, x.racing, x.quiet, x.done)
    BY <1>2
  <2> QED BY <2>1, <2>2, <2>3
<1>5. ASSUME NEW u, NEW s
      PROVE  [x EXCEPT !.at = pc, !.user = u, !.seen = s] =
               D(u, s, x.pw, x.old, x.had, x.racing, x.quiet, x.done)
  <2> DEFINE h == [g EXCEPT !.user = u]
  <2>1. [x EXCEPT !.at = pc, !.user = u, !.seen = s] = [h EXCEPT !.seen = s]
    BY <1>0 DEF AA!Call
  <2> HIDE DEF g
  <2>2. h = D(u, x.seen, x.pw, x.old, x.had, x.racing, x.quiet, x.done)
    BY <1>2
  <2> HIDE DEF h
  <2> QED BY <2>1, <2>2
<1>6. ASSUME NEW d
      PROVE  [x EXCEPT !.at = pc, !.done = d] =
               D(x.user, x.seen, x.pw, x.old, x.had, x.racing, x.quiet, d)
  <2>1. [x EXCEPT !.at = pc, !.done = d] = [g EXCEPT !.done = d]
    BY <1>0 DEF AA!Call
  <2> HIDE DEF g
  <2> QED BY <1>2, <2>1
<1>7. ASSUME NEW k
      PROVE  [x EXCEPT !.racing = k, !.at = pc] =
               D(x.user, x.seen, x.pw, x.old, x.had, k, x.quiet, x.done)
  <2>1. [x EXCEPT !.racing = k, !.at = pc] = [g EXCEPT !.racing = k]
    BY <1>0 DEF AA!Call
  <2> HIDE DEF g
  <2> QED BY <1>2, <2>1
<1>9. AA!Goto(r, pc) => AccessOthers(r) /\ AccessGoes(r, pc)
  BY <1>1, <1>2, <1>u DEF AA!Goto, AccessGoes, AccessSees
<1>10. ASSUME NEW p, AA!Become(r, [aCall[r] EXCEPT !.at = pc, !.pw = p])
       PROVE  AccessOthers(r) /\ AccessTo(r, pc, x.seen, p, x.old, x.had, x.racing, x.quiet, x.done)
  <2>1. AA!Become(r, D(x.user, x.seen, p, x.old, x.had, x.racing, x.quiet, x.done))
    BY <1>3, <1>10
  <2> QED BY <1>1, <1>u, <2>1
<1>11. ASSUME NEW s, NEW u \in {"none", "unverified", "verified"},
              AA!Become(r, [aCall[r] EXCEPT !.at = pc, !.user = u, !.seen = s])
       PROVE  AccessOthers(r) /\ AccessSees(r, pc, s)
  <2>1. AA!Become(r, D(u, s, x.pw, x.old, x.had, x.racing, x.quiet, x.done))
    BY <1>5, <1>11
  <2> QED BY <1>1, <2>1 DEF AccessSees
<1>12. ASSUME NEW s, \/ AA!Become(r, [aCall[r] EXCEPT !.at = pc, !.seen = s])
                     \/ AA!Become(r, [aCall[r] EXCEPT !.seen = s, !.at = pc])
       PROVE  AccessOthers(r) /\ AccessSees(r, pc, s)
  <2>1. AA!Become(r, D(x.user, s, x.pw, x.old, x.had, x.racing, x.quiet, x.done))
    BY <1>4, <1>12
  <2> QED BY <1>1, <1>u, <2>1 DEF AccessSees
<1>13. ASSUME NEW o, NEW h, NEW q, NEW d,
              AA!Become(r, [aCall[r] EXCEPT !.at = pc, !.old = o, !.had = h, !.quiet = q,
                                            !.done = d])
       PROVE  AccessOthers(r) /\ AccessTo(r, pc, x.seen, x.pw, o, h, x.racing, q, d)
  <2> DEFINE g1 == [g EXCEPT !.old = o]
             g2 == [g1 EXCEPT !.had = h]
             g3 == [g2 EXCEPT !.quiet = q]
  <2>1. [x EXCEPT !.at = pc, !.old = o, !.had = h, !.quiet = q, !.done = d] =
          [g3 EXCEPT !.done = d]
    BY <1>0 DEF AA!Call
  <2> HIDE DEF g
  <2>2. g1 = D(x.user, x.seen, x.pw, o, x.had, x.racing, x.quiet, x.done)
    BY <1>2
  <2> HIDE DEF g1
  <2>3. g2 = D(x.user, x.seen, x.pw, o, h, x.racing, x.quiet, x.done)
    BY <2>2
  <2> HIDE DEF g2
  <2>4. g3 = D(x.user, x.seen, x.pw, o, h, x.racing, q, x.done)
    BY <2>3
  <2> HIDE DEF g3
  <2>5. [x EXCEPT !.at = pc, !.old = o, !.had = h, !.quiet = q, !.done = d] =
          D(x.user, x.seen, x.pw, o, h, x.racing, q, d)
    BY <2>1, <2>4
  <2>6. AA!Become(r, D(x.user, x.seen, x.pw, o, h, x.racing, q, d))
    BY <2>5, <1>13
  <2> QED BY <1>1, <1>u, <2>6
<1>14. ASSUME NEW d, AA!Become(r, [aCall[r] EXCEPT !.at = pc, !.done = d])
       PROVE  AccessOthers(r) /\ AccessTo(r, pc, x.seen, x.pw, x.old, x.had, x.racing, x.quiet, d)
  <2>1. AA!Become(r, D(x.user, x.seen, x.pw, x.old, x.had, x.racing, x.quiet, d))
    BY <1>6, <1>14
  <2> QED BY <1>1, <1>u, <2>1
<1>15. ASSUME NEW k, AA!Become(r, [aCall[r] EXCEPT !.racing = k, !.at = pc])
       PROVE  AccessOthers(r) /\ AccessTo(r, pc, x.seen, x.pw, x.old, x.had, k, x.quiet, x.done)
  <2>1. AA!Become(r, D(x.user, x.seen, x.pw, x.old, x.had, k, x.quiet, x.done))
    BY <1>7, <1>15
  <2> QED BY <1>1, <1>u, <2>1
<1> QED BY <1>9, <1>10, <1>11, <1>12, <1>13, <1>14, <1>15

\* Which operations are at a place.
LEMMA AccessOps ==
  ASSUME AccessBase, NEW r \in Requests
  PROVE  LET op == aCall[r].op
             at == aCall[r].at
         IN /\ op \in AA!AllOps \cup {"none"} /\ at \in AccessPlaces(op)
            /\ at = "find" => op \in {"signUp", "signIn", "proof", "confirm", "resetOtp", "social"}
            /\ at = "createUser" => op \in {"signUp", "proof", "social"}
            /\ at = "link" => op \in {"signUp", "social"}
            /\ at = "session" => op \in {"signUp", "signIn", "proof", "confirm", "changePassword",
                                         "social"}
            /\ at \in {"reread", "strip"} => op = "proof"
            /\ at = "accounts" => op \in {"proof", "resetLink", "changePassword", "unlink"}
            /\ at = "revoke" => op \in {"proof", "resetLink", "resetOtp", "changePassword"}
            /\ at = "flip" => op \in {"proof", "confirm", "resetOtp", "social"}
            /\ at = "password" => op \in {"resetLink", "resetOtp"}
            /\ at = "rewrite" => op = "changePassword"
            /\ at = "unlink" => op = "unlink"
            /\ at = "idle" <=> op = "none"
<1>1. aCall[r].op \in AA!AllOps \cup {"none"} /\ aCall[r].at \in AccessPlaces(aCall[r].op)
  BY AccessTypes DEF AccessBase, AccessPath
<1> QED BY <1>1 DEF AA!AllOps, AccessPlaces, AccessEnds

LEMMA AccessFinding ==
  ASSUME AccessBase, NEW r \in Requests, AA!Find(r)
  PROVE  AccessOthers(r) /\ (AccessEnters(r) \/ AccessFinds(r))
<1>t. AA!TypeOK /\ user \in {"none", "unverified", "verified"} /\ AA!Who(r) \in {"owner", "other"}
  BY AccessTypes DEF AccessBase
<1>o. aCall[r].op \in {"signUp", "signIn", "proof", "confirm", "resetOtp", "social"}
  BY AccessOps DEF AA!Find, AA!At
<1>r. aCall[r].at = "find" /\ AccessRead
  BY DEF AA!Find, AA!At, AA!rows, AccessRead
<1>g. \A pc : AA!Goto(r, pc) => AccessOthers(r) /\ AccessGoes(r, pc)
  BY <1>t, AccessFields
<1>1. CASE aCall[r].op = "signIn"
  <2>1. AA!Enter(r)
    BY <1>1 DEF AA!Find, AA!Op
  <2>2. CASE AA!Goto(r, "rejected")
    BY <1>1, <1>g, <1>r, <2>2 DEF AccessEnters
  <2>3. CASE ~AA!Goto(r, "rejected")
    <3>1. PICK a \in AA!Credentials(accounts) :
            AA!Become(r, [aCall[r] EXCEPT
              !.at = IF AA!Who(a.pw) # AA!Who(r) \/ (aDeploy.verifyFirst /\ user = "unverified")
                       THEN "rejected" ELSE "session",
              !.pw = a.pw])
      BY <2>1, <2>3 DEF AA!Enter
    <3> DEFINE pc == IF AA!Who(a.pw) # AA!Who(r) \/ (aDeploy.verifyFirst /\ user = "unverified")
                       THEN "rejected" ELSE "session"
    <3>2. pc \in {"rejected", "session"} /\ (pc = "session" => AA!Who(a.pw) = AA!Who(r))
      OBVIOUS
    <3>3. AA!Become(r, [aCall[r] EXCEPT !.at = pc, !.pw = a.pw])
      BY <3>1
    <3> HIDE DEF pc
    <3>4. AccessOthers(r) /\ AccessTo(r, pc, aCall[r].seen, a.pw, aCall[r].old, aCall[r].had,
                                      aCall[r].racing, aCall[r].quiet, aCall[r].done)
      BY <1>t, <3>3, AccessFields
    <3> QED BY <1>1, <1>r, <3>1, <3>2, <3>4 DEF AccessEnters
  <2> QED BY <2>2, <2>3
<1>2. CASE aCall[r].op # "signIn"
  <2> DEFINE pc == AA!AfterFind(r)
             u == IF aCall[r].op \in {"social", "resetOtp"} THEN user ELSE aCall[r].user
             s == IF aCall[r].op = "resetOtp" THEN accounts ELSE aCall[r].seen
  <2>1. AA!Become(r, [aCall[r] EXCEPT !.at = pc, !.user = u, !.seen = s])
    BY <1>2 DEF AA!Find, AA!Op
  <2>2. u \in {"none", "unverified", "verified"}
    BY <1>t, AccessTypes
  <2>3. \/ AccessFound(r, pc) /\ aCall[r].op # "resetOtp"
        \/ /\ aCall[r].op = "resetOtp"
           /\ pc = "rejected" \/ (pc = "password" /\ user # "none")
    <3>1. CASE aCall[r].op = "signUp"
      BY <3>1 DEF AccessFound, AA!AfterFind, AA!Op
    <3>2. CASE aCall[r].op = "proof"
      BY <3>2, <1>t DEF AccessFound, AA!AfterFind, AA!Op
    <3>3. CASE aCall[r].op = "confirm"
      BY <3>3, <1>t DEF AccessFound, AA!AfterFind, AA!Op
    <3>4. CASE aCall[r].op = "resetOtp"
      BY <3>4, <1>t DEF AA!AfterFind, AA!Op
    <3>5. CASE aCall[r].op = "social"
      <4>1. pc = AA!SocialNext(r)
        BY <3>5 DEF AA!AfterFind, AA!Op
      <4>2. CASE user = "none"
        BY <3>5, <4>1, <4>2 DEF AccessFound, AA!SocialNext
      <4>3. CASE user # "none" /\ AA!Mine(r) # {}
        BY <3>5, <4>1, <4>3, <1>t DEF AccessFound, AA!SocialNext, AA!Vouched
      <4>4. CASE user # "none" /\ AA!Mine(r) = {}
        BY <3>5, <4>1, <4>4, <1>t DEF AccessFound, AA!SocialNext
      <4> QED BY <4>2, <4>3, <4>4
    <3> QED BY <1>o, <1>2, <3>1, <3>2, <3>3, <3>4, <3>5
  <2>4. s = IF aCall[r].op = "resetOtp" THEN accounts ELSE aCall[r].seen
    OBVIOUS
  <2> HIDE DEF pc, u, s
  <2>5. AccessOthers(r) /\ AccessSees(r, pc, s)
    BY <1>t, <2>1, <2>2, AccessFields
  <2> QED BY <1>r, <2>3, <2>4, <2>5 DEF AccessFinds, AccessGoes
<1> QED BY <1>1, <1>2

LEMMA AccessWriting ==
  ASSUME AccessBase, NEW r \in Requests
  PROVE  /\ AA!CreateUser(r) => AccessOthers(r) /\ AccessCreates(r)
         /\ AA!Link(r) => AccessOthers(r) /\ AccessAttaches(r)
         /\ AA!Session(r) => AccessOthers(r) /\ AccessSigns(r)
         /\ AA!Revoke(r) => AccessOthers(r) /\ AccessRevokes(r)
         /\ AA!Unlink(r) => AccessOthers(r) /\ AccessUnlinks(r)
<1>t. AA!TypeOK /\ AA!Who(r) \in {"owner", "other"} /\ user \in {"none", "unverified", "verified"}
      /\ aDeploy.atomic \in BOOLEAN /\ aDeploy.verifyFirst \in BOOLEAN
  BY AccessTypes, AccessDeployTyped DEF AccessBase
<1>g. \A pc : AA!Goto(r, pc) => AccessOthers(r) /\ AccessGoes(r, pc)
  BY <1>t, AccessFields
<1>n. aCall[r].op \in {"signUp", "social"} => AA!NewAccount(r) = AccessNew(r)
  BY DEF AA!NewAccount, AA!Op, AA!Credential, AA!Identity, AccessNew, AccessKind
<1>1. ASSUME AA!CreateUser(r) PROVE AccessOthers(r) /\ AccessCreates(r)
  <2>1. /\ aCall[r].at = "createUser" /\ aCall[r].op \in {"signUp", "proof", "social"}
        /\ UNCHANGED <<aDeploy, confirmed>>
    BY <1>1, AccessOps DEF AA!CreateUser, AA!At
  <2>2. CASE user # "none"
    BY <1>1, <1>g, <2>1, <2>2 DEF AA!CreateUser, AA!rows, AccessCreates
  <2>3. CASE user = "none"
    <3>1. user' = IF aCall[r].op = "proof" \/ (aCall[r].op = "social" /\ AA!Who(r) = "owner")
                    THEN "verified" ELSE "unverified"
      BY <1>1, <2>3 DEF AA!CreateUser, AA!Op, AA!Vouched
    <3>2. /\ user' \in {"verified", "unverified"}
          /\ user' = "verified" <=>
               (aCall[r].op = "proof" \/ (aCall[r].op = "social" /\ AA!Who(r) = "owner"))
      BY <3>1
    <3>3. CASE aCall[r].op = "proof" \/ ~aDeploy.atomic
      <4>1. /\ AA!Goto(r, IF aCall[r].op = "proof" THEN "session" ELSE "link")
            /\ UNCHANGED <<accounts, aSessions>>
        BY <1>1, <2>3, <3>3 DEF AA!CreateUser, AA!Op
      <4>2. CASE aCall[r].op = "proof"
        BY <1>g, <2>1, <2>3, <3>2, <4>1, <4>2 DEF AccessCreates
      <4>3. CASE aCall[r].op # "proof"
        BY <1>g, <2>1, <2>3, <3>2, <3>3, <4>1, <4>3 DEF AccessCreates
      <4> QED BY <4>2, <4>3
    <3>4. CASE aCall[r].op # "proof" /\ aDeploy.atomic
      <4>1. /\ accounts' = accounts \cup {AccessNew(r)}
            /\ aSessions' = IF aCall[r].op = "signUp" /\ ~aDeploy.verifyFirst
                              THEN aSessions \cup {r} ELSE aSessions
            /\ AA!Goto(r, IF aCall[r].op = "signUp" THEN "ok" ELSE "session")
        BY <1>1, <1>n, <2>1, <2>3, <3>4 DEF AA!CreateUser, AA!Op
      <4>2. CASE aCall[r].op = "signUp"
        BY <1>g, <2>1, <2>3, <3>2, <3>4, <4>1, <4>2 DEF AccessCreates
      <4>3. CASE aCall[r].op = "social"
        BY <1>g, <2>1, <2>3, <3>2, <3>4, <4>1, <4>3 DEF AccessCreates
      <4> QED BY <2>1, <3>4, <4>2, <4>3
    <3> QED BY <3>3, <3>4
  <2> QED BY <2>2, <2>3
<1>2. ASSUME AA!Link(r) PROVE AccessOthers(r) /\ AccessAttaches(r)
  <2>1. /\ aCall[r].at = "link" /\ aCall[r].op \in {"signUp", "social"}
        /\ accounts' = accounts \cup {AccessNew(r)}
        /\ UNCHANGED <<aDeploy, user, aSessions, confirmed>>
    BY <1>2, <1>n, AccessOps DEF AA!Link, AA!At
  <2> DEFINE pc == CASE aCall[r].op = "signUp" -> AA!AfterSignUp
                     [] aCall[r].op = "social" /\ aCall[r].user = "unverified" /\ AA!Vouched(r) ->
                          "flip"
                     [] OTHER -> "session"
  <2>2. AA!Goto(r, pc)
    BY <1>2 DEF AA!Link, AA!Op
  <2>3. /\ pc \in {"ok", "session", "flip"}
        /\ pc = "flip" => aCall[r].op = "social" /\ AA!Who(r) = "owner"
        /\ pc = "ok" => aCall[r].op = "signUp"
    BY <2>1 DEF AA!AfterSignUp, AA!Vouched
  <2> HIDE DEF pc
  <2> QED BY <1>g, <2>1, <2>2, <2>3 DEF AccessAttaches
<1>3. ASSUME AA!Session(r) PROVE AccessOthers(r) /\ AccessSigns(r)
  BY <1>3, <1>g DEF AA!Session, AA!At, AccessSigns
<1>4. ASSUME AA!Revoke(r) PROVE AccessOthers(r) /\ AccessRevokes(r)
  <2> DEFINE pc == IF aCall[r].op = "proof" THEN "flip"
                   ELSE IF aCall[r].op = "changePassword" THEN "session" ELSE "ok"
  <2>1. AA!Goto(r, pc)
    BY <1>4 DEF AA!Revoke, AA!Op
  <2> QED BY <1>4, <1>g, <2>1 DEF AA!Revoke, AA!At, AccessRevokes
<1>5. ASSUME AA!Unlink(r) PROVE AccessOthers(r) /\ AccessUnlinks(r)
  BY <1>5, <1>g DEF AA!Unlink, AA!At, AccessUnlinks
<1> QED BY <1>1, <1>2, <1>3, <1>4, <1>5

LEMMA AccessRevoking ==
  ASSUME AccessBase, NEW r \in Requests
  PROVE  /\ AA!Reread(r) => AccessOthers(r) /\ AccessRereads(r)
         /\ AA!Accounts(r) => AccessOthers(r) /\ AccessReads(r)
         /\ AA!Strip(r) => AccessOthers(r) /\ AccessDeletes(r)
         /\ AA!Flip(r) => AccessOthers(r) /\ AccessFlips(r)
<1>t. AA!TypeOK
  BY DEF AccessBase
<1>1. ASSUME AA!Reread(r) PROVE AccessOthers(r) /\ AccessRereads(r)
  <2> DEFINE pc == IF user = "verified" THEN "flip" ELSE "accounts"
             o == {a.id : a \in AA!Credentials(accounts)}
             q == AA!OthersInFlight(r) = {}
             d == IF user = "verified" THEN {} ELSE {"strip"}
  <2>1. AA!Become(r, [aCall[r] EXCEPT !.at = pc, !.old = o, !.had = aSessions, !.quiet = q,
                                      !.done = d])
    BY <1>1 DEF AA!Reread
  <2>2. aCall[r].at = "reread" /\ AccessRead
    BY <1>1 DEF AA!Reread, AA!At, AA!rows, AccessRead
  <2> HIDE DEF pc, o, q, d
  <2>3. AccessOthers(r) /\ AccessTo(r, pc, aCall[r].seen, aCall[r].pw, o, aSessions,
                                    aCall[r].racing, q, d)
    BY <1>t, <2>1, AccessFields
  <2> QED BY <2>2, <2>3 DEF AccessRereads, pc, o, q, d
<1>2. ASSUME AA!Accounts(r) PROVE AccessOthers(r) /\ AccessReads(r)
  <2>1. /\ aCall[r].at = "accounts" /\ AccessRead
        /\ aCall[r].op \in {"proof", "resetLink", "changePassword", "unlink"}
    BY <1>2, AccessOps DEF AA!Accounts, AA!At, AA!rows, AccessRead
  <2> DEFINE S == CASE aCall[r].op = "proof" ->
                         {IF AA!Credentials(accounts) = {} THEN "revoke" ELSE "strip"}
                    [] aCall[r].op = "resetLink" -> {"password"}
                    [] aCall[r].op = "changePassword" ->
                         IF AA!Credentials(accounts) = {} THEN {"rejected"}
                         ELSE {IF AA!Who(a.pw) = AA!Who(r) THEN "rewrite" ELSE "rejected" :
                                 a \in AA!Credentials(accounts)}
                    [] aCall[r].op = "unlink" ->
                         {IF AA!Cardinality(accounts) <= 1 THEN "rejected" ELSE "unlink"}
  <2>2. PICK pc \in S : AA!Become(r, [aCall[r] EXCEPT !.at = pc, !.seen = accounts])
    BY <1>2 DEF AA!Accounts, AA!Op
  <2>3. \/ aCall[r].op = "proof" /\ pc = "strip"
        \/ aCall[r].op = "proof" /\ pc = "revoke" /\ AA!Credentials(accounts) = {}
        \/ aCall[r].op = "resetLink" /\ pc = "password"
        \/ aCall[r].op \in {"changePassword", "unlink"} /\ pc = "rejected"
        \/ /\ aCall[r].op = "changePassword" /\ pc = "rewrite"
           /\ \E a \in AA!Credentials(accounts) : AA!Who(a.pw) = AA!Who(r)
        \/ aCall[r].op = "unlink" /\ pc = "unlink"
    <3>1. CASE aCall[r].op = "proof"
      BY <3>1, <2>2
    <3>2. CASE aCall[r].op = "resetLink"
      BY <3>2, <2>2
    <3>3. CASE aCall[r].op = "changePassword"
      <4>1. CASE AA!Credentials(accounts) = {}
        BY <3>3, <4>1, <2>2
      <4>2. CASE AA!Credentials(accounts) # {}
        <5>1. \E a \in AA!Credentials(accounts) :
                pc = IF AA!Who(a.pw) = AA!Who(r) THEN "rewrite" ELSE "rejected"
          BY <3>3, <4>2, <2>2
        <5> QED BY <3>3, <5>1
      <4> QED BY <4>1, <4>2
    <3>4. CASE aCall[r].op = "unlink"
      BY <3>4, <2>2
    <3> QED BY <2>1, <3>1, <3>2, <3>3, <3>4
  <2> HIDE DEF S
  <2>4. AccessOthers(r) /\ AccessSees(r, pc, accounts)
    BY <1>t, <2>2, AccessFields
  <2> QED BY <2>1, <2>3, <2>4 DEF AccessReads
<1>3. ASSUME AA!Strip(r) PROVE AccessOthers(r) /\ AccessDeletes(r)
  <2>1. PICK a \in AA!Credentials(aCall[r].seen) :
          /\ accounts' = {b \in accounts : b.id # a.id}
          /\ AA!Become(r, [aCall[r] EXCEPT
               !.seen = aCall[r].seen \ {a},
               !.at = IF AA!Credentials(aCall[r].seen \ {a}) = {} THEN "revoke" ELSE "strip"])
    BY <1>3 DEF AA!Strip
  <2> DEFINE left == aCall[r].seen \ {a}
             pc == IF AA!Credentials(left) = {} THEN "revoke" ELSE "strip"
  <2>2. AA!Become(r, [aCall[r] EXCEPT !.seen = left, !.at = pc])
    BY <2>1
  <2>3. aCall[r].at = "strip" /\ UNCHANGED <<aDeploy, user, aSessions, confirmed>>
    BY <1>3 DEF AA!Strip, AA!At
  <2> HIDE DEF left, pc
  <2>4. AccessOthers(r) /\ AccessSees(r, pc, left)
    BY <1>t, <2>2, AccessFields
  <2> QED BY <2>1, <2>3, <2>4 DEF AccessDeletes, left, pc
<1>4. ASSUME AA!Flip(r) PROVE AccessOthers(r) /\ AccessFlips(r)
  <2>1. /\ aCall[r].at = "flip" /\ UNCHANGED <<aDeploy, accounts, aSessions>>
        /\ user' = "verified"
        /\ confirmed' = (confirmed \/ (aCall[r].op # "proof" /\ user # "verified"))
    BY <1>4 DEF AA!Flip, AA!At, AA!Op
  <2> DEFINE S == CASE aCall[r].op = "resetOtp" -> {AA!AfterPassword}
                    [] aCall[r].op = "confirm" -> {"ok", "session"}
                    [] OTHER -> {"session"}
             d == aCall[r].done \cup {"flip"}
  <2>2. PICK pc \in S : AA!Become(r, [aCall[r] EXCEPT !.at = pc, !.done = d])
    BY <1>4 DEF AA!Flip, AA!Op
  <2>3. \/ aCall[r].op = "resetOtp" /\ pc = AccessAfterReset
        \/ aCall[r].op = "confirm" /\ pc \in {"ok", "session"}
        \/ aCall[r].op \notin {"resetOtp", "confirm"} /\ pc = "session"
    BY <2>2 DEF AA!AfterPassword, AccessAfterReset
  <2> HIDE DEF S, d
  <2>4. AccessOthers(r) /\ AccessTo(r, pc, aCall[r].seen, aCall[r].pw, aCall[r].old,
          aCall[r].had, aCall[r].racing, aCall[r].quiet, d)
    BY <1>t, <2>2, AccessFields
  <2> QED BY <2>1, <2>3, <2>4 DEF AccessFlips, d
<1> QED BY <1>1, <1>2, <1>3, <1>4

LEMMA AccessReplacing ==
  ASSUME AccessBase, NEW r \in Requests
  PROVE  /\ AA!Password(r) => AccessOthers(r) /\ AccessSets(r)
         /\ AA!Rewrite(r) => AccessOthers(r) /\ AccessRewrites(r)
         /\ AA!Fail(r) => AccessEnded(r)
<1>t. AA!TypeOK /\ accounts \subseteq AA!AccountRow
  BY AccessTypes DEF AccessBase
<1>g. \A pc : AA!Goto(r, pc) => AccessOthers(r) /\ AccessGoes(r, pc)
  BY <1>t, AccessFields
<1>w. \A a \in accounts : \A p : [a EXCEPT !.pw = p] = AccessPw(a, p)
  BY <1>t DEF AA!AccountRow, AccessPw
<1>1. ASSUME AA!Password(r) PROVE AccessOthers(r) /\ AccessSets(r)
  <2>1. /\ aCall[r].at = "password" /\ aCall[r].op \in {"resetLink", "resetOtp"}
        /\ UNCHANGED <<aDeploy, user, aSessions, confirmed>> /\ AA!Replaced(r)
    BY <1>1, AccessOps DEF AA!Password, AA!At
  <2>2. \/ AA!Credentials(aCall[r].seen) = {} /\ accounts' = accounts \cup {AccessNew(r)}
        \/ /\ AA!Credentials(aCall[r].seen) # {}
           /\ accounts' = {AccessPw(a, IF a.kind = "credential" THEN r ELSE a.pw) : a \in accounts}
    <3>1. CASE AA!Credentials(aCall[r].seen) = {}
      <4>1. AA!Credential(r) = AccessNew(r)
        BY <2>1 DEF AA!Credential, AccessNew, AccessKind
      <4> QED BY <1>1, <3>1, <4>1 DEF AA!Password
    <3>2. CASE AA!Credentials(aCall[r].seen) # {}
      <4>1. accounts' = {[a EXCEPT !.pw = IF a.kind = "credential" THEN r ELSE @] : a \in accounts}
        BY <1>1, <3>2 DEF AA!Password
      <4>2. \A a \in accounts :
              [a EXCEPT !.pw = IF a.kind = "credential" THEN r ELSE @] =
                AccessPw(a, IF a.kind = "credential" THEN r ELSE a.pw)
        BY <1>w
      <4> DEFINE F(a) == [a EXCEPT !.pw = IF a.kind = "credential" THEN r ELSE @]
                 G(a) == AccessPw(a, IF a.kind = "credential" THEN r ELSE a.pw)
      <4>3. accounts' = {F(a) : a \in accounts} /\ \A a \in accounts : F(a) = G(a)
        BY <4>1, <4>2
      <4> HIDE DEF F, G
      <4>4. accounts' = {G(a) : a \in accounts}
        BY <4>3
      <4> QED BY <3>2, <4>4 DEF G
    <3> QED BY <3>1, <3>2
  <2> DEFINE k == {q \in Requests : AA!InFlight(q)}
             pc == IF aCall[r].op = "resetOtp" /\ aCall[r].user = "unverified" THEN "flip"
                   ELSE AA!AfterPassword
  <2>3. AA!Become(r, [aCall[r] EXCEPT !.racing = k, !.at = pc])
    BY <2>1 DEF AA!Replaced, AA!Op
  <2>4. pc = AccessAfterReset \/ (aCall[r].op = "resetOtp" /\ pc = "flip")
    BY DEF AA!AfterPassword, AccessAfterReset
  <2> HIDE DEF k, pc
  <2>5. AccessOthers(r) /\ AccessTo(r, pc, aCall[r].seen, aCall[r].pw, aCall[r].old,
          aCall[r].had, k, aCall[r].quiet, aCall[r].done)
    BY <1>t, <2>3, AccessFields
  <2> QED BY <2>1, <2>2, <2>4, <2>5 DEF AccessSets, k
<1>2. ASSUME AA!Rewrite(r) PROVE AccessOthers(r) /\ AccessRewrites(r)
  <2>1. aCall[r].at = "rewrite" /\ UNCHANGED <<aDeploy, user, aSessions, confirmed>>
    BY <1>2 DEF AA!Rewrite, AA!At
  <2>2. PICK x \in AA!Credentials(aCall[r].seen) :
          /\ AA!Who(x.pw) = AA!Who(r)
          /\ accounts' = {[a EXCEPT !.pw = IF a.id = x.id THEN r ELSE @] : a \in accounts}
    BY <1>2 DEF AA!Rewrite
  <2>3. \A a \in accounts : [a EXCEPT !.pw = IF a.id = x.id THEN r ELSE @] =
                              AccessPw(a, IF a.id = x.id THEN r ELSE a.pw)
    BY <1>w
  <2> DEFINE F(a) == [a EXCEPT !.pw = IF a.id = x.id THEN r ELSE @]
             G(a) == AccessPw(a, IF a.id = x.id THEN r ELSE a.pw)
  <2>6. accounts' = {F(a) : a \in accounts} /\ \A a \in accounts : F(a) = G(a)
    BY <2>2, <2>3
  <2> HIDE DEF F, G
  <2>7. accounts' = {G(a) : a \in accounts}
    BY <2>6
  <2>4. accounts' = {AccessPw(a, IF a.id = x.id THEN r ELSE a.pw) : a \in accounts}
    BY <2>7 DEF G
  <2>5. \E pc \in {"ok", "revoke"} : AccessOthers(r) /\ AccessGoes(r, pc)
    BY <1>2, <1>g DEF AA!Rewrite
  <2> QED BY <2>1, <2>2, <2>4, <2>5 DEF AccessRewrites
<1>3. ASSUME AA!Fail(r) PROVE AccessEnded(r)
  BY <1>3, <1>g DEF AA!Fail, AA!rows, AccessRead, AccessEnded
<1> QED BY <1>1, <1>2, <1>3

LEMMA AccessStarting ==
  ASSUME AccessBase, NEW r \in Requests, NEW op \in aDeploy.ops[r], AA!Start(r, op)
  PROVE  AccessStarts(r, op)
<1>t. AA!TypeOK /\ aCall \in [Requests -> AA!Call]
  BY AccessTypes DEF AccessBase
<1> DEFINE o == IF op \in AccessResets THEN {m \in AA!Makers : m = Past \/ aCall[m].at = "ok"}
                ELSE {}
           pc == IF op \in AA!NeedSession \cup {"resetLink"} THEN "accounts" ELSE "find"
           no == AA!NoCall
           new == [op |-> op, at |-> pc, user |-> no.user, seen |-> no.seen, pw |-> no.pw,
                   old |-> o, had |-> no.had, racing |-> no.racing, quiet |-> no.quiet,
                   done |-> no.done]
           calm(q) == aCall[q].quiet /\ (AA!InFlight(q) => AA!Who(q) = AA!Who(r))
<1>1. /\ aCall[r].at = "idle" /\ AccessRead /\ (op = "resetLink" => user # "none")
      /\ op \in AA!NeedSession => \E m \in aSessions : AA!Who(m) = AA!Who(r)
  BY DEF AA!Start, AA!At, AA!rows, AccessRead
<1>2. op \in AA!AllOps
  BY AccessDeployTyped, AccessTypes DEF AccessBase
<1>n. AA!NoCall \in AA!Call
  BY DEF AA!NoCall, AA!Call, AA!Makers
<1>3. [AA!NoCall EXCEPT !.op = op, !.at = pc, !.old = o] = new
  <2> DEFINE z == AA!NoCall
             g == [z EXCEPT !.op = op]
             h == [g EXCEPT !.at = pc]
  <2>1. [AA!NoCall EXCEPT !.op = op, !.at = pc, !.old = o] = [h EXCEPT !.old = o]
    BY <1>n DEF AA!Call
  <2>2. z \in AA!Call
    BY <1>n
  <2> HIDE DEF z
  <2>3. g = [op |-> op, at |-> z.at, user |-> z.user, seen |-> z.seen, pw |-> z.pw,
             old |-> z.old, had |-> z.had, racing |-> z.racing, quiet |-> z.quiet,
             done |-> z.done]
    BY <2>2 DEF AA!Call
  <2> HIDE DEF g
  <2>4. h = [op |-> op, at |-> pc, user |-> z.user, seen |-> z.seen, pw |-> z.pw,
             old |-> z.old, had |-> z.had, racing |-> z.racing, quiet |-> z.quiet,
             done |-> z.done]
    BY <2>3
  <2> HIDE DEF h, o, pc
  <2>5. [h EXCEPT !.old = o] = new
    BY <2>4 DEF z
  <2>6. [AA!NoCall EXCEPT !.op = op, !.at = pc, !.old = o] = [h EXCEPT !.old = o]
    BY <2>1
  <2> QED BY <2>5, <2>6
<1>4. o = IF op \in {"resetLink", "resetOtp"}
            THEN {m \in AA!Makers : m = Past \/ aCall[m].at = "ok"} ELSE {}
  BY DEF AccessResets
<1>5. aCall' = [q \in Requests |-> IF q = r THEN new ELSE [aCall[q] EXCEPT !.quiet = calm(q)]]
  <2> DEFINE n == [AA!NoCall EXCEPT !.op = op, !.at = pc, !.old = o]
  <2>1. aCall' = [q \in Requests |-> IF q = r THEN n ELSE [aCall[q] EXCEPT !.quiet = calm(q)]]
    BY <1>4 DEF AA!Start
  <2> HIDE DEF n, new
  <2>2. n = new
    BY <1>3 DEF n
  <2> QED BY <2>1, <2>2
<1>6. /\ new.op = op /\ new.at = pc /\ new.seen = {} /\ new.pw = Past /\ new.old = o
      /\ new.had = {} /\ new.racing = {} /\ new.quiet = FALSE /\ new.done = {}
  BY DEF AA!NoCall
<1>7. new \in AA!Call
  <2>1. o \in SUBSET AA!Makers
    OBVIOUS
  <2>2. pc \in {"idle"} \cup AA!Steps \cup AA!Ended
    BY DEF AA!Steps
  <2>3. op \in AA!AllOps \cup {"none"} /\ Past \in AA!Makers
    BY <1>2 DEF AA!Makers
  <2>4. no \in AA!Call
    BY <1>n
  <2> HIDE DEF o, pc, no
  <2> QED BY <2>1, <2>2, <2>3, <2>4 DEF AA!Call
<1> HIDE DEF new, o, pc
<1>8. aCall'[r] = new
  BY <1>5
<1>9. ASSUME NEW q \in Requests, q # r
      PROVE  /\ [aCall[q] EXCEPT !.quiet = calm(q)] \in AA!Call
             /\ aCall'[q].op = aCall[q].op
             /\ AccessTo(q, aCall[q].at, aCall[q].seen, aCall[q].pw, aCall[q].old, aCall[q].had,
                         aCall[q].racing, calm(q), aCall[q].done)
  <2> DEFINE b == calm(q)
  <2>1. b \in BOOLEAN
    OBVIOUS
  <2> HIDE DEF b
  <2>2. aCall'[q] = [aCall[q] EXCEPT !.quiet = b]
    BY <1>5, <1>9 DEF b
  <2>3. aCall[q] \in AA!Call
    BY <1>t
  <2>4. [aCall[q] EXCEPT !.quiet = b] \in AA!Call
    BY <2>1, <2>3 DEF AA!Call
  <2>5. /\ aCall'[q].op = aCall[q].op
        /\ AccessTo(q, aCall[q].at, aCall[q].seen, aCall[q].pw, aCall[q].old, aCall[q].had,
                    aCall[q].racing, b, aCall[q].done)
    BY <2>2, <2>3 DEF AA!Call, AccessTo
  <2> QED BY <2>4, <2>5 DEF b
<1>10. aCall' \in [Requests -> AA!Call]
  <2> HIDE DEF calm
  <2> QED BY <1>5, <1>7, <1>9
<1>11. AccessTo(r, pc, {}, Past, o, {}, {}, FALSE, {}) /\ aCall'[r].op = op
  BY <1>6, <1>8 DEF AccessTo
<1> QED BY <1>1, <1>9, <1>10, <1>11 DEF AccessStarts, o, pc

AccessDoes(r) ==
  \/ AccessOthers(r) /\ AccessStep(r)
  \/ \E op \in aDeploy.ops[r] : AccessStarts(r, op)
  \/ AccessEnded(r)

LEMMA AccessNext ==
  ASSUME AccessBase, AA!Next
  PROVE  (\E r \in Requests : AccessDoes(r)) \/ UNCHANGED AA!vars
<1>1. ASSUME NEW r \in Requests, AA!Step(r) PROVE AccessDoes(r)
  <2>1. CASE AA!Find(r)
    BY <2>1, AccessFinding DEF AccessDoes, AccessStep
  <2>2. CASE AA!CreateUser(r) \/ AA!Link(r) \/ AA!Session(r) \/ AA!Revoke(r) \/ AA!Unlink(r)
    BY <2>2, AccessWriting DEF AccessDoes, AccessStep
  <2>3. CASE AA!Reread(r) \/ AA!Accounts(r) \/ AA!Strip(r) \/ AA!Flip(r)
    BY <2>3, AccessRevoking DEF AccessDoes, AccessStep
  <2>4. CASE AA!Password(r) \/ AA!Rewrite(r)
    BY <2>4, AccessReplacing DEF AccessDoes, AccessStep
  <2> QED BY <1>1, <2>1, <2>2, <2>3, <2>4 DEF AA!Step
<1>2. ASSUME NEW r \in Requests, AA!Fail(r) PROVE AccessDoes(r)
  BY <1>2, AccessReplacing DEF AccessDoes
<1>3. ASSUME NEW r \in Requests, NEW op \in aDeploy.ops[r], AA!Start(r, op) PROVE AccessDoes(r)
  BY <1>3, AccessStarting DEF AccessDoes
<1> QED BY <1>1, <1>2, <1>3 DEF AA!Next, AA!Idle

\* The others are where they were, and what they know is what they knew.
AccessFrame(r) == \A q \in Requests : q # r =>
  /\ aCall'[q].op = aCall[q].op /\ aCall'[q].at = aCall[q].at /\ aCall'[q].seen = aCall[q].seen
  /\ aCall'[q].pw = aCall[q].pw /\ aCall'[q].old = aCall[q].old /\ aCall'[q].had = aCall[q].had
  /\ aCall'[q].racing = aCall[q].racing /\ aCall'[q].done = aCall[q].done
  /\ aCall'[q].quiet => aCall[q].quiet

LEMMA AccessFramed ==
  ASSUME AccessBase, NEW r \in Requests, AccessDoes(r)
  PROVE  AccessFrame(r) /\ (aCall[r].at # "idle" => aCall'[r].op = aCall[r].op)
<1>1. CASE AccessOthers(r)
  BY <1>1 DEF AccessOthers, AccessFrame
<1>2. CASE ~AccessOthers(r)
  <2>1. PICK op \in aDeploy.ops[r] : AccessStarts(r, op)
    BY <1>2 DEF AccessDoes, AccessEnded
  <2> QED BY <2>1 DEF AccessStarts, AccessTo, AccessFrame
<1> QED BY <1>1, <1>2

LEMMA AccessSteady ==
  ASSUME AccessBase, NEW r \in Requests, AccessDoes(r)
  PROVE  /\ aDeploy' = aDeploy /\ \A m : AA!Who(m)' = AA!Who(m)
         /\ user' \in {"none", "unverified", "verified"} /\ confirmed' \in BOOLEAN
         /\ user # "none" => user' # "none"
         /\ user = "verified" => user' = "verified"
         /\ confirmed => confirmed'
<1>t. user \in {"none", "unverified", "verified"} /\ confirmed \in BOOLEAN
  BY AccessTypes DEF AccessBase
<1>1. aDeploy' = aDeploy
  BY DEF AccessDoes, AccessStep, AccessStarts, AccessEnded, AccessRead, AccessEnters, AccessFinds,
         AccessCreates, AccessAttaches, AccessSigns, AccessRereads, AccessReads, AccessDeletes,
         AccessRevokes, AccessFlips, AccessSets, AccessRewrites, AccessUnlinks
<1>2. \/ UNCHANGED <<user, confirmed>>
      \/ AccessCreates(r) \/ AccessFlips(r)
  BY DEF AccessDoes, AccessStep, AccessStarts, AccessEnded, AccessRead, AccessEnters, AccessFinds,
         AccessAttaches, AccessSigns, AccessRereads, AccessReads, AccessDeletes,
         AccessRevokes, AccessSets, AccessRewrites, AccessUnlinks
<1>3. CASE AccessCreates(r)
  BY <1>1, <1>3, <1>t DEF AccessCreates, AA!Who
<1>4. CASE AccessFlips(r)
  BY <1>1, <1>4, <1>t DEF AccessFlips, AA!Who
<1>5. CASE UNCHANGED <<user, confirmed>>
  BY <1>1, <1>5, <1>t DEF AA!Who
<1> QED BY <1>2, <1>3, <1>4, <1>5

\* A session is made by a request that ends with it.
LEMMA AccessSessions ==
  ASSUME AccessBase, NEW r \in Requests, AccessDoes(r), NEW m \in aSessions'
  PROVE  \/ m \in aSessions
         \/ /\ m = r /\ aCall'[r].at = "ok"
            /\ \/ aCall[r].at = "session"
               \/ aCall[r].at = "createUser" /\ user = "none" /\ aCall[r].op = "signUp"
<1>1. aSessions' = aSessions \/ AccessCreates(r) \/ AccessSigns(r) \/ AccessRevokes(r)
  BY DEF AccessDoes, AccessStep, AccessStarts, AccessEnded, AccessRead, AccessEnters, AccessFinds,
         AccessAttaches, AccessRereads, AccessReads, AccessDeletes, AccessFlips,
         AccessSets, AccessRewrites, AccessUnlinks
<1>2. CASE AccessCreates(r)
  BY <1>2 DEF AccessCreates, AccessGoes, AccessSees, AccessTo
<1>3. CASE AccessSigns(r)
  BY <1>3 DEF AccessSigns, AccessGoes, AccessSees, AccessTo
<1>4. CASE AccessRevokes(r)
  BY <1>4 DEF AccessRevokes
<1> QED BY <1>1, <1>2, <1>3, <1>4

\* Where a step takes a request, as far as the rows do not say it.
LEMMA AccessAfter ==
  ASSUME AccessBase, NEW r \in Requests, AccessDoes(r)
  PROVE  /\ aCall'[r].at \in AA!Steps \cup AA!Ended
         /\ aCall[r].at \in {"idle"} \cup AA!Steps
         /\ ~AccessAdds(r) => aCall[r].at # "idle" /\ ~AccessAdds(r)'
<1> DEFINE Goal == /\ aCall'[r].at \in AA!Steps \cup AA!Ended
                   /\ aCall[r].at \in {"idle"} \cup AA!Steps
                   /\ ~AccessAdds(r) => aCall[r].at # "idle" /\ ~AccessAdds(r)'
<1>o. LET op == aCall[r].op
          at == aCall[r].at
      IN  /\ at = "createUser" => op \in {"signUp", "proof", "social"}
          /\ at = "link" => op \in {"signUp", "social"}
          /\ at \in {"reread", "strip"} => op = "proof"
          /\ at = "rewrite" => op = "changePassword"
          /\ at = "unlink" => op = "unlink"
  BY AccessOps
<1>1. ASSUME AccessOthers(r), AccessEnters(r) PROVE Goal
  BY <1>1, <1>o
  DEF AccessEnters, AccessRead, Goal, AccessAdds, AccessResets, AccessOthers,
      AccessGoes, AccessSees, AccessTo, AA!Steps, AA!Ended
<1>2. ASSUME AccessOthers(r), AccessFinds(r) PROVE Goal
  BY <1>2, <1>o
  DEF AccessFinds, AccessRead, AccessFound, Goal, AccessAdds, AccessResets, AccessOthers,
      AccessGoes, AccessSees, AccessTo, AA!Steps, AA!Ended
<1>3. ASSUME AccessOthers(r), AccessCreates(r) PROVE Goal
  BY <1>3, <1>o
  DEF AccessCreates, AccessNew, AccessKind, Goal, AccessAdds, AccessResets, AccessOthers,
      AccessGoes, AccessSees, AccessTo, AA!Steps, AA!Ended
<1>4. ASSUME AccessOthers(r), AccessAttaches(r) PROVE Goal
  BY <1>4, <1>o
  DEF AccessAttaches, AccessNew, AccessKind, Goal, AccessAdds, AccessResets, AccessOthers,
      AccessGoes, AccessSees, AccessTo, AA!Steps, AA!Ended
<1>5. ASSUME AccessOthers(r), AccessSigns(r) PROVE Goal
  BY <1>5, <1>o
  DEF AccessSigns, Goal, AccessAdds, AccessResets, AccessOthers,
      AccessGoes, AccessSees, AccessTo, AA!Steps, AA!Ended
<1>6. ASSUME AccessOthers(r), AccessRereads(r) PROVE Goal
  BY <1>6, <1>o
  DEF AccessRereads, AccessRead, Goal, AccessAdds, AccessResets, AccessOthers,
      AccessGoes, AccessSees, AccessTo, AA!Steps, AA!Ended
<1>7. ASSUME AccessOthers(r), AccessReads(r) PROVE Goal
  BY <1>7, <1>o
  DEF AccessReads, AccessRead, Goal, AccessAdds, AccessResets, AccessOthers,
      AccessGoes, AccessSees, AccessTo, AA!Steps, AA!Ended
<1>8. ASSUME AccessOthers(r), AccessDeletes(r) PROVE Goal
  BY <1>8, <1>o
  DEF AccessDeletes, Goal, AccessAdds, AccessResets, AccessOthers,
      AccessGoes, AccessSees, AccessTo, AA!Steps, AA!Ended
<1>9. ASSUME AccessOthers(r), AccessRevokes(r) PROVE Goal
  BY <1>9, <1>o
  DEF AccessRevokes, Goal, AccessAdds, AccessResets, AccessOthers,
      AccessGoes, AccessSees, AccessTo, AA!Steps, AA!Ended
<1>10. ASSUME AccessOthers(r), AccessFlips(r) PROVE Goal
  BY <1>10, <1>o
  DEF AccessFlips, AccessAfterReset, Goal, AccessAdds, AccessResets, AccessOthers,
      AccessGoes, AccessSees, AccessTo, AA!Steps, AA!Ended
<1>11. ASSUME AccessOthers(r), AccessSets(r) PROVE Goal
  BY <1>11, <1>o
  DEF AccessSets, AccessNew, AccessKind, AccessPw, AccessAfterReset, Goal, AccessAdds,
      AccessResets, AccessOthers, AccessGoes, AccessSees, AccessTo, AA!Steps, AA!Ended
<1>12. ASSUME AccessOthers(r), AccessRewrites(r) PROVE Goal
  BY <1>12, <1>o
  DEF AccessRewrites, AccessPw, Goal, AccessAdds, AccessResets, AccessOthers,
      AccessGoes, AccessSees, AccessTo, AA!Steps, AA!Ended
<1>13. ASSUME AccessOthers(r), AccessUnlinks(r) PROVE Goal
  BY <1>13, <1>o
  DEF AccessUnlinks, Goal, AccessAdds, AccessResets, AccessOthers,
      AccessGoes, AccessSees, AccessTo, AA!Steps, AA!Ended
<1>14. ASSUME AccessEnded(r) PROVE Goal
  BY <1>14, <1>o
  DEF AccessEnded, AccessRead, Goal, AccessAdds, AccessOthers, AccessResets, AA!InFlight,
      AccessGoes, AccessSees, AccessTo, AA!Steps, AA!Ended
<1>15. ASSUME NEW op \in aDeploy.ops[r], AccessStarts(r, op) PROVE Goal
  BY <1>15, <1>o
  DEF AccessStarts, AccessRead, Goal, AccessAdds, AccessTo, AA!Steps
<1> QED BY <1>1, <1>2, <1>3, <1>4, <1>5, <1>6, <1>7, <1>8, <1>9, <1>10, <1>11, <1>12, <1>13,
     <1>14, <1>15 DEF AccessDoes, AccessStep

\* The calls keep their type.
LEMMA AccessCallsTyped ==
  ASSUME AccessBase, NEW r \in Requests, AccessDoes(r)
  PROVE  aCall' \in [Requests -> AA!Call]
<1>t. LET c == aCall[r] IN
        /\ c.seen \in SUBSET AA!AccountRow /\ c.pw \in AA!Makers /\ c.old \in SUBSET AA!Makers
        /\ c.had \in SUBSET AA!Makers /\ c.racing \in SUBSET Requests /\ c.quiet \in BOOLEAN
        /\ c.done \in SUBSET {"strip", "flip"} /\ r \in AA!Makers
        /\ accounts \in SUBSET AA!AccountRow /\ aSessions \in SUBSET AA!Makers
        /\ \A a \in accounts : a.pw \in AA!Makers /\ a.id \in AA!Makers
  BY AccessTypes DEF AccessBase, AA!Makers
<1>s. \A a \in AA!Credentials(accounts) : a \in accounts
  BY DEF AA!Credentials
<1>1. ASSUME AccessOthers(r), AccessEnters(r) PROVE aCall' \in [Requests -> AA!Call]
  BY <1>1, <1>t, <1>s
  DEF AccessEnters, AccessRead, AccessOthers, AccessGoes, AccessSees, AccessTo, AA!Steps,
      AA!Ended
<1>2. ASSUME AccessOthers(r), AccessFinds(r) PROVE aCall' \in [Requests -> AA!Call]
  BY <1>2, <1>t, <1>s
  DEF AccessFinds, AccessRead, AccessFound, AccessOthers, AccessGoes, AccessSees, AccessTo,
      AA!Steps, AA!Ended
<1>3. ASSUME AccessOthers(r), AccessCreates(r) PROVE aCall' \in [Requests -> AA!Call]
  BY <1>3, <1>t, <1>s
  DEF AccessCreates, AccessNew, AccessKind, AccessOthers, AccessGoes, AccessSees, AccessTo,
      AA!Steps, AA!Ended
<1>4. ASSUME AccessOthers(r), AccessAttaches(r) PROVE aCall' \in [Requests -> AA!Call]
  BY <1>4, <1>t, <1>s
  DEF AccessAttaches, AccessNew, AccessKind, AccessOthers, AccessGoes, AccessSees, AccessTo,
      AA!Steps, AA!Ended
<1>5. ASSUME AccessOthers(r), AccessSigns(r) PROVE aCall' \in [Requests -> AA!Call]
  BY <1>5, <1>t, <1>s
  DEF AccessSigns, AccessOthers, AccessGoes, AccessSees, AccessTo, AA!Steps, AA!Ended
<1>6. ASSUME AccessOthers(r), AccessRereads(r) PROVE aCall' \in [Requests -> AA!Call]
  BY <1>6, <1>t, <1>s
  DEF AccessRereads, AccessRead, AccessOthers, AccessGoes, AccessSees, AccessTo, AA!Steps,
      AA!Ended
<1>7. ASSUME AccessOthers(r), AccessReads(r) PROVE aCall' \in [Requests -> AA!Call]
  BY <1>7, <1>t, <1>s
  DEF AccessReads, AccessRead, AccessOthers, AccessGoes, AccessSees, AccessTo, AA!Steps,
      AA!Ended
<1>8. ASSUME AccessOthers(r), AccessDeletes(r) PROVE aCall' \in [Requests -> AA!Call]
  BY <1>8, <1>t, <1>s
  DEF AccessDeletes, AccessOthers, AccessGoes, AccessSees, AccessTo, AA!Steps, AA!Ended
<1>9. ASSUME AccessOthers(r), AccessRevokes(r) PROVE aCall' \in [Requests -> AA!Call]
  BY <1>9, <1>t, <1>s
  DEF AccessRevokes, AccessOthers, AccessGoes, AccessSees, AccessTo, AA!Steps, AA!Ended
<1>10. ASSUME AccessOthers(r), AccessFlips(r) PROVE aCall' \in [Requests -> AA!Call]
  BY <1>10, <1>t, <1>s
  DEF AccessFlips, AccessAfterReset, AccessOthers, AccessGoes, AccessSees, AccessTo, AA!Steps,
      AA!Ended
<1>11. ASSUME AccessOthers(r), AccessSets(r) PROVE aCall' \in [Requests -> AA!Call]
  BY <1>11, <1>t, <1>s
  DEF AccessSets, AccessNew, AccessKind, AccessPw, AccessAfterReset, AccessOthers,
      AccessGoes, AccessSees, AccessTo, AA!Steps, AA!Ended
<1>12. ASSUME AccessOthers(r), AccessRewrites(r) PROVE aCall' \in [Requests -> AA!Call]
  BY <1>12, <1>t, <1>s
  DEF AccessRewrites, AccessPw, AccessOthers, AccessGoes, AccessSees, AccessTo, AA!Steps,
      AA!Ended
<1>13. ASSUME AccessOthers(r), AccessUnlinks(r) PROVE aCall' \in [Requests -> AA!Call]
  BY <1>13, <1>t, <1>s
  DEF AccessUnlinks, AccessOthers, AccessGoes, AccessSees, AccessTo, AA!Steps, AA!Ended
<1>14. ASSUME AccessEnded(r) PROVE aCall' \in [Requests -> AA!Call]
  BY <1>14, <1>t, <1>s
  DEF AccessEnded, AccessRead, AccessOthers, AccessGoes, AccessSees, AccessTo, AA!Steps,
      AA!Ended
<1>15. ASSUME NEW op \in aDeploy.ops[r], AccessStarts(r, op) PROVE aCall' \in [Requests -> AA!Call]
  BY <1>15, <1>t, <1>s
  DEF AccessStarts, AccessRead
<1> QED BY <1>1, <1>2, <1>3, <1>4, <1>5, <1>6, <1>7, <1>8, <1>9, <1>10, <1>11, <1>12, <1>13,
     <1>14, <1>15 DEF AccessDoes, AccessStep

\* A row is what it was, or new and named after who made it, or has a new password.
AccessAdded(r, b) ==
  /\ b = AccessNew(r) /\ AccessAdds(r) /\ ~AccessAdds(r)'
  /\ \/ aCall[r].at = "link"
     \/ aCall[r].at = "password"
     \/ aCall[r].at = "createUser" /\ user = "none" /\ aDeploy.atomic
AccessChanged(r, b) == \E a \in accounts :
  /\ b.id = a.id /\ b.kind = a.kind /\ b.pw = r
  /\ \/ aCall[r].at = "password"
     \/ /\ aCall[r].at = "rewrite"
        /\ \E x \in AA!Credentials(aCall[r].seen) : x.id = a.id /\ AA!Who(x.pw) = AA!Who(r)

LEMMA AccessRowsMove ==
  ASSUME AccessBase, NEW r \in Requests, AccessDoes(r)
  PROVE  /\ accounts' \subseteq AA!AccountRow
         /\ \A b \in accounts' : b \in accounts \/ AccessAdded(r, b) \/ AccessChanged(r, b)
         /\ AccessRows => \A a, b \in accounts' : a.id = b.id => a = b
<1> DEFINE Goal == /\ accounts' \subseteq AA!AccountRow
                   /\ \A b \in accounts' : \/ b \in accounts
                                           \/ AccessAdded(r, b)
                                           \/ AccessChanged(r, b)
                   /\ AccessRows => \A a, b \in accounts' : a.id = b.id => a = b
<1>t. accounts \subseteq AA!AccountRow
  BY AccessTypes DEF AccessBase
<1>r. AccessRows => /\ \A a, b \in accounts : a.id = b.id => a = b
                    /\ \A a \in accounts : a.id \in Requests => ~AccessAdds(a.id)
  BY DEF AccessRows
<1>p. \A a \in accounts : \A p \in AA!Makers :
        /\ AccessPw(a, p) \in AA!AccountRow /\ AccessPw(a, p).id = a.id
        /\ AccessPw(a, p).kind = a.kind /\ AccessPw(a, p).pw = p
  BY <1>t DEF AA!AccountRow, AccessPw
<1>q. \A a \in accounts : AccessPw(a, a.pw) = a /\ a.pw \in AA!Makers
  BY <1>t DEF AA!AccountRow, AccessPw
<1>n. AccessNew(r) \in AA!AccountRow /\ AccessNew(r).id = r
  BY DEF AccessNew, AccessKind, AA!AccountRow, AA!Makers
<1>m. r \in AA!Makers
  BY DEF AA!Makers
<1>0. CASE accounts' \subseteq accounts
  BY <1>0, <1>t, <1>r
<1>1. ASSUME accounts' = accounts \cup {AccessNew(r)}, AccessAdds(r), ~AccessAdds(r)',
             \/ aCall[r].at = "link"
             \/ aCall[r].at = "password"
             \/ aCall[r].at = "createUser" /\ user = "none" /\ aDeploy.atomic
      PROVE  Goal
  <2>1. \A b \in accounts' : b \in accounts \/ b = AccessNew(r)
    BY <1>1
  <2>2. AccessAdded(r, AccessNew(r))
    BY <1>1 DEF AccessAdded
  <2>3. AccessRows => \A a \in accounts : a.id # r
    BY <1>1, <1>r
  <2>4. AccessRows => \A a, b \in accounts' : a.id = b.id => a = b
    BY <2>1, <2>3, <1>n, <1>r
  <2>5. accounts' \subseteq AA!AccountRow
    BY <2>1, <1>n, <1>t
  <2> QED BY <2>1, <2>2, <2>4, <2>5
<1>2. ASSUME AccessSets(r), AccessOthers(r) PROVE Goal
  <2>1. aCall[r].at = "password" /\ aCall[r].op \in AccessResets
    BY <1>2, AccessOps DEF AccessSets, AccessResets
  <2>2. CASE accounts' = accounts \cup {AccessNew(r)}
    <3>1. aCall'[r].at \in {"ok", "revoke", "flip"}
      BY <1>2 DEF AccessSets, AccessTo, AccessAfterReset
    <3>2. AccessAdds(r) /\ ~AccessAdds(r)'
      BY <2>1, <3>1 DEF AccessAdds
    <3> QED BY <1>1, <2>1, <2>2, <3>2
  <2>3. CASE accounts' = {AccessPw(a, IF a.kind = "credential" THEN r ELSE a.pw) : a \in accounts}
    <3> DEFINE p(a) == IF a.kind = "credential" THEN r ELSE a.pw
    <3>1. \A b \in accounts' : \E a \in accounts : b = AccessPw(a, p(a))
      BY <2>3
    <3>2. \A a \in accounts : p(a) \in AA!Makers /\ (p(a) # r => p(a) = a.pw)
      BY <1>q, <1>m
    <3> HIDE DEF p
    <3>3. ASSUME NEW b \in accounts'
          PROVE  b \in AA!AccountRow /\ (b \in accounts \/ AccessChanged(r, b))
      <4>1. PICK a \in accounts : b = AccessPw(a, p(a))
        BY <3>1
      <4>2. CASE p(a) = a.pw
        BY <4>1, <4>2, <1>q, <1>t
      <4>3. CASE p(a) = r
        BY <4>1, <4>3, <2>1, <1>p, <1>m DEF AccessChanged
      <4> QED BY <4>2, <4>3, <3>2
    <3>4. ASSUME AccessRows, NEW a \in accounts', NEW b \in accounts', a.id = b.id PROVE a = b
      <4>1. PICK x \in accounts : a = AccessPw(x, p(x))
        BY <3>1
      <4>2. PICK y \in accounts : b = AccessPw(y, p(y))
        BY <3>1
      <4>3. x.id = y.id
        BY <4>1, <4>2, <3>2, <3>4, <1>p
      <4>4. x = y
        BY <4>3, <3>4, <1>r
      <4> QED BY <4>1, <4>2, <4>4
    <3> QED BY <3>3, <3>4
  <2> QED BY <1>2, <2>2, <2>3 DEF AccessSets
<1>3. ASSUME AccessRewrites(r) PROVE Goal
  <2>1. PICK x \in AA!Credentials(aCall[r].seen) :
          /\ AA!Who(x.pw) = AA!Who(r)
          /\ accounts' = {AccessPw(a, IF a.id = x.id THEN r ELSE a.pw) : a \in accounts}
    BY <1>3 DEF AccessRewrites
  <2> DEFINE p(a) == IF a.id = x.id THEN r ELSE a.pw
  <2>2. \A b \in accounts' : \E a \in accounts : b = AccessPw(a, p(a))
    BY <2>1
  <2>3. \A a \in accounts : p(a) \in AA!Makers /\ (a.id # x.id => p(a) = a.pw)
                             /\ (a.id = x.id => p(a) = r)
    BY <1>q, <1>m
  <2> HIDE DEF p
  <2>4. aCall[r].at = "rewrite"
    BY <1>3 DEF AccessRewrites
  <2>5. ASSUME NEW b \in accounts'
        PROVE  b \in AA!AccountRow /\ (b \in accounts \/ AccessChanged(r, b))
    <3>1. PICK a \in accounts : b = AccessPw(a, p(a))
      BY <2>2
    <3>2. CASE a.id # x.id
      BY <3>1, <3>2, <2>3, <1>q, <1>t
    <3>3. CASE a.id = x.id
      BY <3>1, <3>3, <2>1, <2>3, <2>4, <1>p, <1>m DEF AccessChanged
    <3> QED BY <3>2, <3>3
  <2>6. ASSUME AccessRows, NEW a \in accounts', NEW b \in accounts', a.id = b.id PROVE a = b
    <3>1. PICK y \in accounts : a = AccessPw(y, p(y))
      BY <2>2
    <3>2. PICK z \in accounts : b = AccessPw(z, p(z))
      BY <2>2
    <3>3. y.id = z.id
      BY <3>1, <3>2, <2>3, <2>6, <1>p
    <3>4. y = z
      BY <3>3, <2>6, <1>r
    <3> QED BY <3>1, <3>2, <3>4
  <2> QED BY <2>5, <2>6
<1>4. ASSUME AccessCreates(r) PROVE Goal
  <2>1. aCall[r].at = "createUser" /\ aCall[r].op \in {"signUp", "proof", "social"}
    BY <1>4 DEF AccessCreates
  <2>2. CASE accounts' = accounts
    BY <2>2, <1>0
  <2>3. CASE accounts' # accounts
    <3>1. /\ user = "none" /\ aDeploy.atomic /\ accounts' = accounts \cup {AccessNew(r)}
          /\ aCall'[r].at \in {"session", "ok"}
      BY <1>4, <2>3 DEF AccessCreates, AccessGoes, AccessSees, AccessTo
    <3>2. AccessAdds(r) /\ ~AccessAdds(r)'
      BY <2>1, <3>1 DEF AccessAdds
    <3> QED BY <1>1, <2>1, <3>1, <3>2
  <2> QED BY <2>2, <2>3
<1>5. ASSUME AccessAttaches(r) PROVE Goal
  <2>1. /\ aCall[r].at = "link" /\ accounts' = accounts \cup {AccessNew(r)}
        /\ aCall'[r].at \in {"ok", "session", "flip"}
    BY <1>5 DEF AccessAttaches, AccessGoes, AccessSees, AccessTo
  <2>2. AccessAdds(r) /\ ~AccessAdds(r)'
    BY <2>1 DEF AccessAdds
  <2> QED BY <1>1, <2>1, <2>2
<1>6. \/ accounts' \subseteq accounts
      \/ AccessCreates(r) \/ AccessAttaches(r) \/ AccessRewrites(r)
      \/ AccessSets(r) /\ AccessOthers(r)
  BY DEF AccessDoes, AccessStep, AccessStarts, AccessEnded, AccessRead, AccessEnters, AccessFinds,
         AccessSigns, AccessRereads, AccessReads, AccessDeletes, AccessRevokes, AccessFlips,
         AccessUnlinks
<1> QED BY <1>0, <1>2, <1>3, <1>4, <1>5, <1>6

\* Each part of the invariant is kept.

LEMMA AccessTypeKept ==
  ASSUME AccessBase, NEW r \in Requests, AccessDoes(r)
  PROVE  AA!TypeOK'
<1>1. /\ aDeploy \in Accesses /\ aSessions \subseteq AA!Makers /\ r \in AA!Makers
  BY AccessTypes DEF AccessBase, AA!Makers
<1>2. /\ aDeploy' = aDeploy /\ user' \in {"none", "unverified", "verified"}
      /\ confirmed' \in BOOLEAN
  BY AccessSteady
<1>3. accounts' \subseteq AA!AccountRow
  BY AccessRowsMove
<1>4. aSessions' \subseteq AA!Makers
  BY <1>1, AccessSessions
<1>5. aCall' \in [Requests -> AA!Call]
  BY AccessCallsTyped
<1> QED BY <1>1, <1>2, <1>3, <1>4, <1>5 DEF AA!TypeOK

\* Where the one that takes the step is afterwards.
LEMMA AccessPlaced ==
  ASSUME AccessBase, NEW r \in Requests, AccessDoes(r)
  PROVE  aCall'[r].at \in AccessPlaces(aCall'[r].op)
<1> DEFINE Goal == aCall'[r].at \in AccessPlaces(aCall'[r].op)
<1>o. LET op == aCall[r].op
          at == aCall[r].at
      IN  /\ op \in AA!AllOps \cup {"none"} /\ at \in AccessPlaces(op)
          /\ at = "find" => op \in {"signUp", "signIn", "proof", "confirm", "resetOtp", "social"}
          /\ at = "createUser" => op \in {"signUp", "proof", "social"}
          /\ at = "link" => op \in {"signUp", "social"}
          /\ at = "session" => op \in {"signUp", "signIn", "proof", "confirm", "changePassword",
                                       "social"}
          /\ at \in {"reread", "strip"} => op = "proof"
          /\ at = "accounts" => op \in {"proof", "resetLink", "changePassword", "unlink"}
          /\ at = "revoke" => op \in {"proof", "resetLink", "resetOtp", "changePassword"}
          /\ at = "flip" => op \in {"proof", "confirm", "resetOtp", "social"}
          /\ at = "password" => op \in {"resetLink", "resetOtp"}
          /\ at = "rewrite" => op = "changePassword"
          /\ at = "unlink" => op = "unlink"
          /\ at = "idle" <=> op = "none"
  BY AccessOps
<1>a. \A op \in aDeploy.ops[r] : op \in AA!AllOps
  BY AccessTypes, AccessDeployTyped DEF AccessBase
<1>1. ASSUME AccessOthers(r), AccessEnters(r) PROVE Goal
  BY <1>1, <1>o
  DEF AccessEnters, AccessRead, Goal, AccessOthers, AccessPlaces, AccessEnds,
      AccessGoes, AccessSees, AccessTo
<1>2. ASSUME AccessOthers(r), AccessFinds(r) PROVE Goal
  BY <1>2, <1>o
  DEF AccessFinds, AccessRead, AccessFound, Goal, AccessOthers, AccessPlaces, AccessEnds,
      AccessGoes, AccessSees, AccessTo
<1>3. ASSUME AccessOthers(r), AccessCreates(r) PROVE Goal
  BY <1>3, <1>o
  DEF AccessCreates, AccessNew, AccessKind, Goal, AccessOthers, AccessPlaces, AccessEnds,
      AccessGoes, AccessSees, AccessTo
<1>4. ASSUME AccessOthers(r), AccessAttaches(r) PROVE Goal
  BY <1>4, <1>o
  DEF AccessAttaches, AccessNew, AccessKind, Goal, AccessOthers, AccessPlaces, AccessEnds,
      AccessGoes, AccessSees, AccessTo
<1>5. ASSUME AccessOthers(r), AccessSigns(r) PROVE Goal
  BY <1>5, <1>o
  DEF AccessSigns, Goal, AccessOthers, AccessPlaces, AccessEnds,
      AccessGoes, AccessSees, AccessTo
<1>6. ASSUME AccessOthers(r), AccessRereads(r) PROVE Goal
  BY <1>6, <1>o
  DEF AccessRereads, AccessRead, Goal, AccessOthers, AccessPlaces, AccessEnds,
      AccessGoes, AccessSees, AccessTo
<1>7. ASSUME AccessOthers(r), AccessReads(r) PROVE Goal
  BY <1>7, <1>o
  DEF AccessReads, AccessRead, Goal, AccessOthers, AccessPlaces, AccessEnds,
      AccessGoes, AccessSees, AccessTo
<1>8. ASSUME AccessOthers(r), AccessDeletes(r) PROVE Goal
  BY <1>8, <1>o
  DEF AccessDeletes, Goal, AccessOthers, AccessPlaces, AccessEnds,
      AccessGoes, AccessSees, AccessTo
<1>9. ASSUME AccessOthers(r), AccessRevokes(r) PROVE Goal
  BY <1>9, <1>o
  DEF AccessRevokes, Goal, AccessOthers, AccessPlaces, AccessEnds,
      AccessGoes, AccessSees, AccessTo
<1>10. ASSUME AccessOthers(r), AccessFlips(r) PROVE Goal
  BY <1>10, <1>o
  DEF AccessFlips, AccessAfterReset, Goal, AccessOthers, AccessPlaces, AccessEnds,
      AccessGoes, AccessSees, AccessTo
<1>11. ASSUME AccessOthers(r), AccessSets(r) PROVE Goal
  BY <1>11, <1>o
  DEF AccessSets, AccessNew, AccessKind, AccessPw, AccessAfterReset, Goal, AccessOthers,
      AccessPlaces, AccessEnds, AccessGoes, AccessSees, AccessTo
<1>12. ASSUME AccessOthers(r), AccessRewrites(r) PROVE Goal
  BY <1>12, <1>o
  DEF AccessRewrites, AccessPw, Goal, AccessOthers, AccessPlaces, AccessEnds,
      AccessGoes, AccessSees, AccessTo
<1>13. ASSUME AccessOthers(r), AccessUnlinks(r) PROVE Goal
  BY <1>13, <1>o
  DEF AccessUnlinks, Goal, AccessOthers, AccessPlaces, AccessEnds,
      AccessGoes, AccessSees, AccessTo
<1>14. ASSUME AccessEnded(r) PROVE Goal
  BY <1>14, <1>o
  DEF AccessEnded, AccessRead, Goal, AccessOthers, AccessPlaces, AccessEnds, AA!InFlight,
      AA!Steps, AA!AllOps, AccessGoes, AccessSees, AccessTo
<1>15. ASSUME NEW op \in aDeploy.ops[r], AccessStarts(r, op) PROVE Goal
  BY <1>15, <1>o, <1>a
  DEF AccessStarts, AccessRead, Goal, AccessPlaces, AccessTo, AA!NeedSession, AA!AllOps
<1> QED BY <1>1, <1>2, <1>3, <1>4, <1>5, <1>6, <1>7, <1>8, <1>9, <1>10, <1>11, <1>12, <1>13,
     <1>14, <1>15 DEF AccessDoes, AccessStep

LEMMA AccessPathKept ==
  ASSUME AccessBase, NEW r \in Requests, AccessDoes(r)
  PROVE  \A q \in Requests : AccessPath(q)'
<1>d. aDeploy' = aDeploy /\ (user = "verified" => user' = "verified")
  BY AccessSteady
<1>b. \A q \in Requests : AccessPath(q)
  BY DEF AccessBase
<1>o. LET op == aCall[r].op
          at == aCall[r].at
      IN  /\ op \in AA!AllOps \cup {"none"}
          /\ at = "find" => op \in {"signUp", "signIn", "proof", "confirm", "resetOtp", "social"}
          /\ at = "createUser" => op \in {"signUp", "proof", "social"}
          /\ at = "link" => op \in {"signUp", "social"}
          /\ at \in {"reread", "strip"} => op = "proof"
          /\ at = "revoke" => op \in {"proof", "resetLink", "resetOtp", "changePassword"}
          /\ at = "password" => op \in {"resetLink", "resetOtp"}
          /\ at = "rewrite" => op = "changePassword"
          /\ at = "unlink" => op = "unlink"
          /\ at = "idle" <=> op = "none"
  BY AccessOps
<1>p. aCall'[r].at \in AccessPlaces(aCall'[r].op)
  BY AccessPlaced
<1>t. aCall[r].done \in SUBSET {"strip", "flip"}
  BY AccessTypes DEF AccessBase
<1>q. ASSUME NEW q \in Requests, q # r PROVE AccessPath(q)'
  <2>1. /\ aCall'[q].op = aCall[q].op /\ aCall'[q].at = aCall[q].at
        /\ aCall'[q].done = aCall[q].done
    BY <1>q, AccessFramed DEF AccessFrame
  <2> QED BY <1>b, <1>d, <2>1 DEF AccessPath
<1> DEFINE P1 == aCall'[r].op # "none" => aCall'[r].op \in aDeploy.ops[r]
           P2 == aDeploy.atomic /\ aCall'[r].at = "link" => aCall'[r].op = "social"
           P3 == "strip" \in aCall'[r].done =>
                   /\ aCall'[r].op = "proof"
                   /\ aCall'[r].at \in AccessStripping \cup {"session", "ok", "failed"}
           P4 == "strip" \in aCall'[r].done /\ aCall'[r].at \in AccessStripping =>
                   "flip" \notin aCall'[r].done
           P5 == aCall'[r].op = "proof" /\ aCall'[r].at \in {"accounts", "strip", "revoke"} =>
                   "strip" \in aCall'[r].done
           P6 == aCall'[r].op = "proof" /\ aCall'[r].at = "flip" /\ "strip" \notin aCall'[r].done =>
                   user' = "verified"
           P7 == aCall'[r].at \in {"idle", "find", "createUser", "reread"} => aCall'[r].done = {}
           Goal == P1 /\ P2 /\ P3 /\ P4 /\ P5 /\ P6 /\ P7
<1>r. AccessPath(r)
  BY <1>b
<1>g. Goal => AccessPath(r)'
  BY <1>p, <1>d DEF AccessPath
<1>h. Goal
  <2>1. ASSUME AccessOthers(r), AccessEnters(r) PROVE Goal
    BY <2>1, <1>o, <1>r, <1>d, <1>t
    DEF AccessEnters, AccessRead, Goal, P1, P2, P3, P4, P5, P6, P7, AccessOthers, AccessPath,
        AccessStripping, AccessGoes, AccessSees, AccessTo
  <2>2. ASSUME AccessOthers(r), AccessFinds(r) PROVE Goal
    BY <2>2, <1>o, <1>r, <1>d, <1>t
    DEF AccessFinds, AccessRead, AccessFound, Goal, P1, P2, P3, P4, P5, P6, P7, AccessOthers,
        AccessPath, AccessStripping, AccessGoes, AccessSees, AccessTo
  <2>3. ASSUME AccessOthers(r), AccessCreates(r) PROVE Goal
    BY <2>3, <1>o, <1>r, <1>d, <1>t
    DEF AccessCreates, AccessNew, AccessKind, Goal, P1, P2, P3, P4, P5, P6, P7, AccessOthers,
        AccessPath, AccessStripping, AccessGoes, AccessSees, AccessTo
  <2>4. ASSUME AccessOthers(r), AccessAttaches(r) PROVE Goal
    BY <2>4, <1>o, <1>r, <1>d, <1>t
    DEF AccessAttaches, AccessNew, AccessKind, Goal, P1, P2, P3, P4, P5, P6, P7, AccessOthers,
        AccessPath, AccessStripping, AccessGoes, AccessSees, AccessTo
  <2>5. ASSUME AccessOthers(r), AccessSigns(r) PROVE Goal
    BY <2>5, <1>o, <1>r, <1>d, <1>t
    DEF AccessSigns, Goal, P1, P2, P3, P4, P5, P6, P7, AccessOthers, AccessPath, AccessStripping,
        AccessGoes, AccessSees, AccessTo
  <2>6. ASSUME AccessOthers(r), AccessRereads(r) PROVE Goal
    BY <2>6, <1>o, <1>r, <1>d, <1>t
    DEF AccessRereads, AccessRead, Goal, P1, P2, P3, P4, P5, P6, P7, AccessOthers, AccessPath,
        AccessStripping, AccessGoes, AccessSees, AccessTo
  <2>7. ASSUME AccessOthers(r), AccessReads(r) PROVE Goal
    BY <2>7, <1>o, <1>r, <1>d, <1>t
    DEF AccessReads, AccessRead, Goal, P1, P2, P3, P4, P5, P6, P7, AccessOthers, AccessPath,
        AccessStripping, AccessGoes, AccessSees, AccessTo
  <2>8. ASSUME AccessOthers(r), AccessDeletes(r) PROVE Goal
    BY <2>8, <1>o, <1>r, <1>d, <1>t
    DEF AccessDeletes, Goal, P1, P2, P3, P4, P5, P6, P7, AccessOthers, AccessPath,
        AccessStripping, AccessGoes, AccessSees, AccessTo
  <2>9. ASSUME AccessOthers(r), AccessRevokes(r) PROVE Goal
    BY <2>9, <1>o, <1>r, <1>d, <1>t
    DEF AccessRevokes, Goal, P1, P2, P3, P4, P5, P6, P7, AccessOthers, AccessPath,
        AccessStripping, AccessGoes, AccessSees, AccessTo
  <2>10. ASSUME AccessOthers(r), AccessFlips(r) PROVE Goal
    BY <2>10, <1>o, <1>r, <1>d, <1>t
    DEF AccessFlips, AccessAfterReset, Goal, P1, P2, P3, P4, P5, P6, P7, AccessOthers, AccessPath,
        AccessStripping, AccessGoes, AccessSees, AccessTo
  <2>11. ASSUME AccessOthers(r), AccessSets(r) PROVE Goal
    BY <2>11, <1>o, <1>r, <1>d, <1>t
    DEF AccessSets, AccessNew, AccessKind, AccessPw, AccessAfterReset, Goal, P1, P2, P3, P4, P5,
        P6, P7, AccessOthers, AccessPath, AccessStripping, AccessGoes, AccessSees, AccessTo
  <2>12. ASSUME AccessOthers(r), AccessRewrites(r) PROVE Goal
    BY <2>12, <1>o, <1>r, <1>d, <1>t
    DEF AccessRewrites, AccessPw, Goal, P1, P2, P3, P4, P5, P6, P7, AccessOthers, AccessPath,
        AccessStripping, AccessGoes, AccessSees, AccessTo
  <2>13. ASSUME AccessOthers(r), AccessUnlinks(r) PROVE Goal
    BY <2>13, <1>o, <1>r, <1>d, <1>t
    DEF AccessUnlinks, Goal, P1, P2, P3, P4, P5, P6, P7, AccessOthers, AccessPath,
        AccessStripping, AccessGoes, AccessSees, AccessTo
  <2>14. ASSUME AccessEnded(r) PROVE Goal
    BY <2>14, <1>o, <1>r, <1>d, <1>t
    DEF AccessEnded, AccessRead, Goal, P1, P2, P3, P4, P5, P6, P7, AccessOthers, AccessPath,
        AccessStripping, AccessGoes, AccessSees, AccessTo, AA!InFlight, AA!Steps
  <2>15. ASSUME NEW op \in aDeploy.ops[r], AccessStarts(r, op) PROVE Goal
    BY <2>15, <1>o, <1>r, <1>d, <1>t
    DEF AccessStarts, AccessRead, Goal, P1, P2, P3, P4, P5, P6, P7, AccessStripping, AccessTo,
        AA!NeedSession
  <2> QED BY <2>1, <2>2, <2>3, <2>4, <2>5, <2>6, <2>7, <2>8, <2>9, <2>10, <2>11, <2>12, <2>13,
       <2>14, <2>15 DEF AccessDoes, AccessStep
<1> QED BY <1>q, <1>g, <1>h

LEMMA AccessBaseKept ==
  ASSUME AccessBase, NEW r \in Requests, AccessDoes(r)
  PROVE  AccessBase'
BY AccessTypeKept, AccessPathKept DEF AccessBase

\* Who has added what there was to add does not add again.
LEMMA AccessAddsFewer ==
  ASSUME AccessBase, NEW r \in Requests, AccessDoes(r), NEW q \in Requests, ~AccessAdds(q)
  PROVE  ~AccessAdds(q)'
<1>1. CASE q = r
  BY <1>1, AccessAfter
<1>2. CASE q # r
  BY <1>2, AccessFramed DEF AccessFrame, AccessAdds
<1> QED BY <1>1, <1>2

\* What has ended stays as it is.
LEMMA AccessOver ==
  ASSUME AccessBase, NEW r \in Requests, AccessDoes(r), NEW q \in Requests, aCall[q].at = "ok"
  PROVE  q # r /\ aCall'[q].at = "ok" /\ aCall'[q].op = aCall[q].op /\ aCall'[q].pw = aCall[q].pw
<1>1. q # r
  BY AccessAfter DEF AA!Steps
<1> QED BY <1>1, AccessFramed DEF AccessFrame

LEMMA AccessRowsKept ==
  ASSUME AccessBase, AccessRows, NEW r \in Requests, AccessDoes(r)
  PROVE  AccessRows'
<1> DEFINE Early(q) == aCall[q].at \in {"idle", "find", "createUser"} \cup AccessEnds
           Goal == user' = "none" => accounts' = {} /\ aSessions' = {} /\ Early(r)'
<1>u. user' = "none" => /\ user = "none" /\ accounts = {} /\ aSessions = {}
                        /\ \A q \in Requests : Early(q)
  <2>1. user' = "none" => user = "none"
    BY AccessSteady, AccessTypes DEF AccessBase
  <2> QED BY <2>1 DEF AccessRows
<1>o. aCall[r].at = "createUser" => aCall[r].op \in {"signUp", "proof", "social"}
  BY AccessOps
<1>v. AA!Credentials({}) = {}
  BY DEF AA!Credentials
<1>g. Goal
  <2>1. ASSUME AccessOthers(r), AccessEnters(r) PROVE Goal
    BY <2>1, <1>u, <1>o, <1>v
    DEF AccessEnters, AccessRead, Goal, AccessOthers, AccessEnds, AccessGoes, AccessSees, AccessTo
  <2>2. ASSUME AccessOthers(r), AccessFinds(r) PROVE Goal
    BY <2>2, <1>u, <1>o, <1>v
    DEF AccessFinds, AccessRead, AccessFound, Goal, AccessOthers, AccessEnds,
        AccessGoes, AccessSees, AccessTo
  <2>3. ASSUME AccessOthers(r), AccessCreates(r) PROVE Goal
    BY <2>3, <1>u, <1>o, <1>v
    DEF AccessCreates, AccessNew, AccessKind, Goal, AccessOthers, AccessEnds,
        AccessGoes, AccessSees, AccessTo
  <2>4. ASSUME AccessOthers(r), AccessAttaches(r) PROVE Goal
    BY <2>4, <1>u, <1>o, <1>v
    DEF AccessAttaches, AccessNew, AccessKind, Goal, AccessOthers, AccessEnds,
        AccessGoes, AccessSees, AccessTo
  <2>5. ASSUME AccessOthers(r), AccessSigns(r) PROVE Goal
    BY <2>5, <1>u, <1>o, <1>v
    DEF AccessSigns, Goal, AccessOthers, AccessEnds, AccessGoes, AccessSees, AccessTo
  <2>6. ASSUME AccessOthers(r), AccessRereads(r) PROVE Goal
    BY <2>6, <1>u, <1>o, <1>v
    DEF AccessRereads, AccessRead, Goal, AccessOthers, AccessEnds,
        AccessGoes, AccessSees, AccessTo
  <2>7. ASSUME AccessOthers(r), AccessReads(r) PROVE Goal
    BY <2>7, <1>u, <1>o, <1>v
    DEF AccessReads, AccessRead, Goal, AccessOthers, AccessEnds, AccessGoes, AccessSees, AccessTo
  <2>8. ASSUME AccessOthers(r), AccessDeletes(r) PROVE Goal
    BY <2>8, <1>u, <1>o, <1>v
    DEF AccessDeletes, Goal, AccessOthers, AccessEnds, AccessGoes, AccessSees, AccessTo
  <2>9. ASSUME AccessOthers(r), AccessRevokes(r) PROVE Goal
    BY <2>9, <1>u, <1>o, <1>v
    DEF AccessRevokes, Goal, AccessOthers, AccessEnds, AccessGoes, AccessSees, AccessTo
  <2>10. ASSUME AccessOthers(r), AccessFlips(r) PROVE Goal
    BY <2>10, <1>u, <1>o, <1>v
    DEF AccessFlips, AccessAfterReset, Goal, AccessOthers, AccessEnds,
        AccessGoes, AccessSees, AccessTo
  <2>11. ASSUME AccessOthers(r), AccessSets(r) PROVE Goal
    BY <2>11, <1>u, <1>o, <1>v
    DEF AccessSets, AccessNew, AccessKind, AccessPw, AccessAfterReset, Goal, AccessOthers,
        AccessEnds, AccessGoes, AccessSees, AccessTo
  <2>12. ASSUME AccessOthers(r), AccessRewrites(r) PROVE Goal
    BY <2>12, <1>u, <1>o, <1>v
    DEF AccessRewrites, AccessPw, Goal, AccessOthers, AccessEnds, AccessGoes, AccessSees, AccessTo
  <2>13. ASSUME AccessOthers(r), AccessUnlinks(r) PROVE Goal
    BY <2>13, <1>u, <1>o, <1>v
    DEF AccessUnlinks, Goal, AccessOthers, AccessEnds, AccessGoes, AccessSees, AccessTo
  <2>14. ASSUME AccessEnded(r) PROVE Goal
    BY <2>14, <1>u, <1>o, <1>v
    DEF AccessEnded, AccessRead, Goal, AccessOthers, AccessEnds, AccessGoes, AccessSees, AccessTo
  <2>15. ASSUME NEW op \in aDeploy.ops[r], AccessStarts(r, op) PROVE Goal
    BY <2>15, <1>u, <1>o, <1>v
    DEF AccessStarts, AccessRead, Goal, AccessTo, AccessEnds, AA!NeedSession
  <2> QED BY <2>1, <2>2, <2>3, <2>4, <2>5, <2>6, <2>7, <2>8, <2>9, <2>10, <2>11, <2>12, <2>13,
       <2>14, <2>15 DEF AccessDoes, AccessStep
<1>1. user' = "none" => \A q \in Requests : Early(q)'
  <2> SUFFICES ASSUME user' = "none", NEW q \in Requests PROVE Early(q)'
    OBVIOUS
  <2>1. CASE q = r
    BY <2>1, <1>g
  <2>2. CASE q # r
    BY <2>2, <1>u, AccessFramed DEF AccessFrame
  <2> QED BY <2>1, <2>2
<1>2. \A a, b \in accounts' : a.id = b.id => a = b
  BY AccessRowsMove
<1>3. ASSUME NEW b \in accounts', b.id \in Requests PROVE ~AccessAdds(b.id)'
  <2>1. CASE AccessAdded(r, b)
    BY <2>1 DEF AccessAdded, AccessNew
  <2>2. CASE ~AccessAdded(r, b)
    <3>1. PICK a \in accounts : b.id = a.id
      BY <2>2, AccessRowsMove DEF AccessChanged
    <3>2. ~AccessAdds(b.id)
      BY <1>3, <3>1 DEF AccessRows
    <3> QED BY <1>3, <3>2, AccessAddsFewer
  <2> QED BY <2>1, <2>2
<1>4. ASSUME NEW m \in aSessions', m \in Requests PROVE aCall'[m].at = "ok"
  <2>1. CASE m \in aSessions
    BY <1>4, <2>1, AccessOver DEF AccessRows
  <2>2. CASE m \notin aSessions
    BY <1>4, <2>2, AccessSessions
  <2> QED BY <2>1, <2>2
<1>5. user' = "none" => accounts' = {} /\ aSessions' = {}
  BY <1>g
<1> QED BY <1>1, <1>2, <1>3, <1>4, <1>5 DEF AccessRows

\* Only the owner resets passwords, and proves or confirms the address.
LEMMA AccessByMail ==
  ASSUME AccessBase, NEW r \in Requests, aCall[r].op \in AA!ByMail
  PROVE  AA!Who(r) = "owner"
<1>1. aCall[r].op \in aDeploy.ops[r]
  BY DEF AccessBase, AccessPath, AA!ByMail
<1>2. aDeploy.ops[r] \cap AA!ByMail # {}
  BY <1>1
<1> QED BY <1>2, AccessTypes, AccessDeployTyped DEF AccessBase, AA!Who

\* Which passwords a row can have is kept when rows are written.
LEMMA AccessOwnKept ==
  ASSUME AccessBase, AccessOwned, NEW r \in Requests, AccessDoes(r)
  PROVE  AccessOwn(accounts')
<1> SUFFICES ASSUME NEW b \in accounts', b.kind = "credential"
             PROVE  AA!Who(b.pw) = "owner" \/ AA!Who(b.pw) = AA!Who(b.id)
  BY DEF AccessOwn, AA!Credentials
<1>1. CASE b \in accounts
  BY <1>1 DEF AccessOwned, AccessOwn, AA!Credentials
<1>2. CASE AccessAdded(r, b)
  BY <1>2 DEF AccessAdded, AccessNew
<1>3. CASE AccessChanged(r, b)
  <2>1. PICK a \in accounts :
          /\ b.id = a.id /\ b.kind = a.kind /\ b.pw = r
          /\ \/ aCall[r].at = "password"
             \/ \E x \in AA!Credentials(aCall[r].seen) : x.id = a.id /\ AA!Who(x.pw) = AA!Who(r)
    BY <1>3 DEF AccessChanged
  <2>2. CASE aCall[r].at = "password"
    <3>1. aCall[r].op \in AA!ByMail
      BY <2>2, AccessOps DEF AA!ByMail
    <3> QED BY <2>1, <3>1, AccessByMail
  <2>3. CASE \E x \in AA!Credentials(aCall[r].seen) : x.id = a.id /\ AA!Who(x.pw) = AA!Who(r)
    BY <2>1, <2>3 DEF AccessOwned, AccessOwn
  <2> QED BY <2>1, <2>2, <2>3
<1> QED BY <1>1, <1>2, <1>3, AccessRowsMove

LEMMA AccessOwnedKept ==
  ASSUME AccessBase, AccessOwned, NEW r \in Requests, AccessDoes(r)
  PROVE  AccessOwned'
<1> DEFINE Goal == \A a \in aCall'[r].seen : a \in accounts \/ a \in aCall[r].seen
<1>g. Goal
  <2>1. ASSUME AccessOthers(r), AccessEnters(r) PROVE Goal
    BY <2>1
    DEF AccessEnters, AccessRead, Goal, AccessGoes, AccessSees, AccessTo, AA!Credentials
  <2>2. ASSUME AccessOthers(r), AccessFinds(r) PROVE Goal
    BY <2>2
    DEF AccessFinds, AccessRead, AccessFound, Goal, AccessGoes, AccessSees, AccessTo,
        AA!Credentials
  <2>3. ASSUME AccessOthers(r), AccessCreates(r) PROVE Goal
    BY <2>3
    DEF AccessCreates, AccessNew, AccessKind, Goal, AccessGoes, AccessSees, AccessTo,
        AA!Credentials
  <2>4. ASSUME AccessOthers(r), AccessAttaches(r) PROVE Goal
    BY <2>4
    DEF AccessAttaches, AccessNew, AccessKind, Goal, AccessGoes, AccessSees, AccessTo,
        AA!Credentials
  <2>5. ASSUME AccessOthers(r), AccessSigns(r) PROVE Goal
    BY <2>5
    DEF AccessSigns, Goal, AccessGoes, AccessSees, AccessTo, AA!Credentials
  <2>6. ASSUME AccessOthers(r), AccessRereads(r) PROVE Goal
    BY <2>6
    DEF AccessRereads, AccessRead, Goal, AccessGoes, AccessSees, AccessTo, AA!Credentials
  <2>7. ASSUME AccessOthers(r), AccessReads(r) PROVE Goal
    BY <2>7
    DEF AccessReads, AccessRead, Goal, AccessGoes, AccessSees, AccessTo, AA!Credentials
  <2>8. ASSUME AccessOthers(r), AccessDeletes(r) PROVE Goal
    BY <2>8
    DEF AccessDeletes, Goal, AccessGoes, AccessSees, AccessTo, AA!Credentials
  <2>9. ASSUME AccessOthers(r), AccessRevokes(r) PROVE Goal
    BY <2>9
    DEF AccessRevokes, Goal, AccessGoes, AccessSees, AccessTo, AA!Credentials
  <2>10. ASSUME AccessOthers(r), AccessFlips(r) PROVE Goal
    BY <2>10
    DEF AccessFlips, AccessAfterReset, Goal, AccessGoes, AccessSees, AccessTo, AA!Credentials
  <2>11. ASSUME AccessOthers(r), AccessSets(r) PROVE Goal
    BY <2>11
    DEF AccessSets, AccessNew, AccessKind, AccessPw, AccessAfterReset, Goal,
        AccessGoes, AccessSees, AccessTo, AA!Credentials
  <2>12. ASSUME AccessOthers(r), AccessRewrites(r) PROVE Goal
    BY <2>12
    DEF AccessRewrites, AccessPw, Goal, AccessGoes, AccessSees, AccessTo, AA!Credentials
  <2>13. ASSUME AccessOthers(r), AccessUnlinks(r) PROVE Goal
    BY <2>13
    DEF AccessUnlinks, Goal, AccessGoes, AccessSees, AccessTo, AA!Credentials
  <2>14. ASSUME AccessEnded(r) PROVE Goal
    BY <2>14
    DEF AccessEnded, AccessRead, Goal, AccessGoes, AccessSees, AccessTo, AA!Credentials
  <2>15. ASSUME NEW op \in aDeploy.ops[r], AccessStarts(r, op) PROVE Goal
    BY <2>15
    DEF AccessStarts, AccessRead, Goal, AccessTo
  <2> QED BY <2>1, <2>2, <2>3, <2>4, <2>5, <2>6, <2>7, <2>8, <2>9, <2>10, <2>11, <2>12, <2>13,
       <2>14, <2>15 DEF AccessDoes, AccessStep
<1>w. \A m : AA!Who(m)' = AA!Who(m)
  BY AccessSteady
<1>1. AccessOwn(accounts)'
  BY <1>w, AccessOwnKept DEF AccessOwn, AA!Credentials
<1>2. ASSUME NEW q \in Requests PROVE AccessOwn(aCall[q].seen)'
  <2>1. CASE q = r
    BY <2>1, <1>g, <1>w DEF AccessOwned, AccessOwn, AA!Credentials
  <2>2. CASE q # r
    BY <2>2, <1>w, AccessFramed DEF AccessFrame, AccessOwned, AccessOwn, AA!Credentials
  <2> QED BY <2>1, <2>2
<1> QED BY <1>1, <1>2 DEF AccessOwned

\* A credential row is there already, or who adds it is known to be the owner but for the
\* first row of an account, and sign-ups without transactions.
LEMMA AccessNewRow ==
  ASSUME AccessBase, NEW n \in Requests, AccessDoes(n), NEW b \in AA!Credentials(accounts')
  PROVE  \/ \E a \in AA!Credentials(accounts) : a.id = b.id
         \/ /\ b.id = n /\ AccessAdds(n)
            /\ AA!Who(n) = "owner" \/ user = "none"
               \/ (~aDeploy.atomic /\ aCall[n].at = "link" /\ aCall[n].op # "social")
<1>b. b \in accounts' /\ b.kind = "credential"
  BY DEF AA!Credentials
<1>1. CASE b \in accounts
  BY <1>b, <1>1 DEF AA!Credentials
<1>2. CASE AccessChanged(n, b)
  BY <1>b, <1>2 DEF AccessChanged, AA!Credentials
<1>3. CASE AccessAdded(n, b)
  <2>1. b.id = n /\ AccessAdds(n) /\ aCall[n].op # "social"
    BY <1>b, <1>3 DEF AccessAdded, AccessNew, AccessKind
  <2>2. CASE aCall[n].at = "link"
    BY <2>1, <2>2 DEF AccessBase, AccessPath
  <2>3. CASE aCall[n].at = "password"
    <3>1. aCall[n].op \in AA!ByMail
      BY <2>3, AccessOps DEF AA!ByMail
    <3> QED BY <2>1, <3>1, AccessByMail
  <2>4. CASE user = "none"
    BY <2>1, <2>4
  <2> QED BY <1>3, <2>2, <2>3, <2>4 DEF AccessAdded
<1> QED BY <1>b, <1>1, <1>2, <1>3, AccessRowsMove

\* A row from before a proof does not come back, and neither does a session.
LEMMA AccessNotBack ==
  ASSUME AccessBase, NEW n \in Requests, AccessDoes(n), NEW old, NEW had,
         \A q \in old : q \in Requests => ~AccessAdds(q),
         \A m \in had : m \in Requests => aCall[m].at = "ok"
  PROVE  /\ \A q \in old : q \in Requests => ~AccessAdds(q)'
         /\ \A m \in had : m \in Requests => aCall'[m].at = "ok"
         /\ \A b \in AA!Credentials(accounts') : b.id \in old =>
              \E a \in AA!Credentials(accounts) : a.id = b.id
         /\ had \cap aSessions = {} => had \cap aSessions' = {}
<1>1. \A q \in old : q \in Requests => ~AccessAdds(q)'
  BY AccessAddsFewer
<1>2. \A m \in had : m \in Requests => aCall'[m].at = "ok"
  BY AccessOver
<1>3. \A b \in AA!Credentials(accounts') : b.id \in old =>
        \E a \in AA!Credentials(accounts) : a.id = b.id
  BY AccessNewRow
<1>4. had \cap aSessions = {} => had \cap aSessions' = {}
  <2> SUFFICES ASSUME had \cap aSessions = {}, NEW m \in had, m \in aSessions' PROVE FALSE
    OBVIOUS
  <2>1. m = n
    BY AccessSessions
  <2>2. aCall[n].at = "ok"
    BY <2>1
  <2> QED BY <2>2, AccessAfter DEF AA!Steps
<1> QED BY <1>1, <1>2, <1>3, <1>4

\* What another's step does to what a proof takes away.
LEMMA AccessStripsBeside ==
  ASSUME AccessBase, AccessRows, NEW r \in Requests, AccessStrips(r), NEW n \in Requests,
         AccessDoes(n), n # r
  PROVE  AccessStrips(r)'
<1> SUFFICES ASSUME "strip" \in aCall[r].done PROVE AccessStrips(r)'
  BY AccessFramed DEF AccessFrame, AccessStrips
<1>f. /\ aCall'[r].at = aCall[r].at /\ aCall'[r].done = aCall[r].done
      /\ aCall'[r].old = aCall[r].old /\ aCall'[r].had = aCall[r].had
      /\ aCall'[r].seen = aCall[r].seen
  BY AccessFramed DEF AccessFrame
<1>d. aDeploy' = aDeploy /\ (user = "verified" => user' = "verified")
      /\ \A m : AA!Who(m)' = AA!Who(m)
  BY AccessSteady
<1>h. /\ \A q \in aCall[r].old : q \in Requests => ~AccessAdds(q)
      /\ \A m \in aCall[r].had : m \in Requests => aCall[m].at = "ok"
  BY DEF AccessStrips
<1>k. /\ \A q \in aCall[r].old : q \in Requests => ~AccessAdds(q)'
      /\ \A m \in aCall[r].had : m \in Requests => aCall'[m].at = "ok"
      /\ \A b \in AA!Credentials(accounts') : b.id \in aCall[r].old =>
           \E a \in AA!Credentials(accounts) : a.id = b.id
      /\ aCall[r].had \cap aSessions = {} => aCall[r].had \cap aSessions' = {}
  BY <1>h, AccessNotBack
<1>1. aCall[r].at = "strip" => \A b \in AA!Credentials(accounts') : b.id \in aCall[r].old =>
        \E c \in AA!Credentials(aCall[r].seen) : c.id = b.id
  BY <1>k DEF AccessStrips
<1>2. aCall[r].at \in {"revoke", "flip"} \/ "flip" \in aCall[r].done =>
        \A b \in AA!Credentials(accounts') : b.id \notin aCall[r].old
  BY <1>k DEF AccessStrips
<1>3. aCall[r].at = "flip" \/ "flip" \in aCall[r].done => aCall[r].had \cap aSessions' = {}
  BY <1>k DEF AccessStrips
<1>4. aDeploy.atomic /\ aCall[r].at \in AccessStripping =>
        \A b \in AA!Credentials(accounts') : b.id \in aCall[r].old \/ AA!Who(b.id) = "owner"
  <2> SUFFICES ASSUME aDeploy.atomic, aCall[r].at \in AccessStripping,
                      NEW b \in AA!Credentials(accounts')
               PROVE  b.id \in aCall[r].old \/ AA!Who(b.id) = "owner"
    OBVIOUS
  <2>1. user # "none"
    BY DEF AccessRows, AccessStripping, AccessEnds
  <2>2. CASE \E a \in AA!Credentials(accounts) : a.id = b.id
    BY <2>2 DEF AccessStrips
  <2>3. CASE b.id = n /\ (AA!Who(n) = "owner" \/ user = "none" \/ ~aDeploy.atomic)
    BY <2>1, <2>3
  <2> QED BY <2>2, <2>3, AccessNewRow
<1>5. "flip" \in aCall[r].done => user' = "verified"
  BY <1>d DEF AccessStrips
<1>c. \A xs : AA!Credentials(xs)' = AA!Credentials(xs')
  BY DEF AA!Credentials
<1> QED BY <1>f, <1>d, <1>k, <1>1, <1>2, <1>3, <1>4, <1>5 DEF AccessStrips, AA!Credentials

\* What its own does.
LEMMA AccessStripsOwn ==
  ASSUME AccessBase, AccessRows, NEW r \in Requests, AccessStrips(r), AccessDoes(r)
  PROVE  AccessStrips(r)'
<1> DEFINE c == aCall[r]
           d == aCall'[r]
           creds == AA!Credentials(accounts)
           creds1 == AA!Credentials(accounts')
           Strips1 == "strip" \in d.done =>
             /\ \A q \in d.old : q \in Requests => ~AccessAdds(q)'
             /\ \A m \in d.had : m \in Requests => aCall'[m].at = "ok"
             /\ d.at = "strip" => \A a \in creds1 : a.id \in d.old =>
                  \E b \in AA!Credentials(d.seen) : b.id = a.id
             /\ d.at \in {"revoke", "flip"} \/ "flip" \in d.done =>
                  \A a \in creds1 : a.id \notin d.old
             /\ d.at = "flip" \/ "flip" \in d.done => d.had \cap aSessions' = {}
             /\ "flip" \in d.done => user' = "verified"
             /\ aDeploy.atomic /\ d.at \in AccessStripping =>
                  \A a \in creds1 : a.id \in d.old \/ AA!Who(a.id) = "owner"
<1>d. aDeploy' = aDeploy /\ (user = "verified" => user' = "verified")
      /\ \A m : AA!Who(m)' = AA!Who(m)
  BY AccessSteady
<1>g. Strips1 => AccessStrips(r)'
  BY <1>d DEF AccessStrips, AA!Credentials
<1>s. AccessStrips(r)
  OBVIOUS
<1>p. /\ c.at \in {"idle", "find", "createUser", "reread"} => c.done = {}
      /\ "strip" \in c.done => c.op = "proof"
           /\ c.at \in {"accounts", "strip", "revoke", "flip", "session", "ok", "failed"}
  BY DEF AccessBase, AccessPath, AccessStripping
<1>k. "strip" \in c.done =>
      /\ \A q \in c.old : q \in Requests => ~AccessAdds(q)'
      /\ \A m \in c.had : m \in Requests => aCall'[m].at = "ok"
      /\ \A b \in creds1 : b.id \in c.old => \E a \in creds : a.id = b.id
      /\ c.had \cap aSessions = {} => c.had \cap aSessions' = {}
  BY AccessNotBack DEF AccessStrips
<1>h. Strips1
  <2>1. ASSUME AccessOthers(r), AccessEnters(r) PROVE Strips1
    <3>1. "strip" \notin d.done
      BY <2>1, <1>p DEF AccessEnters, AccessGoes, AccessSees, AccessTo
    <3> QED BY <3>1
  <2>2. ASSUME AccessOthers(r), AccessFinds(r) PROVE Strips1
    <3>1. "strip" \notin d.done
      BY <2>2, <1>p DEF AccessFinds, AccessGoes, AccessSees, AccessTo
    <3> QED BY <3>1
  <2>3. ASSUME AccessOthers(r), AccessCreates(r) PROVE Strips1
    <3>1. "strip" \notin d.done
      BY <2>3, <1>p DEF AccessCreates, AccessGoes, AccessSees, AccessTo
    <3> QED BY <3>1
  <2>4. ASSUME AccessOthers(r), AccessAttaches(r) PROVE Strips1
    <3>1. "strip" \notin d.done
      BY <2>4, <1>p DEF AccessAttaches, AccessGoes, AccessSees, AccessTo
    <3> QED BY <3>1
  <2>5. ASSUME AccessOthers(r), AccessSigns(r) PROVE Strips1
    <3>1. /\ user' = user /\ accounts' = accounts /\ d.at \in {"ok", "failed"}
          /\ d.old = c.old /\ d.had = c.had /\ d.done = c.done
      BY <2>5 DEF AccessSigns, AccessGoes, AccessSees, AccessTo
    <3>2. "strip" \in c.done /\ "flip" \in c.done =>
            /\ \A a \in creds1 : a.id \notin c.old
            /\ c.had \cap aSessions = {} /\ user = "verified"
      BY <3>1 DEF AccessStrips
    <3> QED BY <3>1, <3>2, <1>k DEF AccessStripping
  <2>6. ASSUME AccessOthers(r), AccessRereads(r) PROVE Strips1
    <3>1. d.old = {a.id : a \in creds} /\ d.had = aSessions /\ d.at \in {"flip", "accounts"}
          /\ d.done \in {{}, {"strip"}} /\ accounts' = accounts /\ (d.at = "flip" => d.done = {})
      BY <2>6 DEF AccessRereads, AccessRead, AccessTo
    <3>2. \A q \in d.old : q \in Requests => ~AccessAdds(q)
      BY <3>1 DEF AccessRows, AA!Credentials
    <3>3. \A q \in d.old : q \in Requests => ~AccessAdds(q)'
      BY <3>2, AccessAddsFewer
    <3>4. \A m \in d.had : m \in Requests => aCall'[m].at = "ok"
      BY <3>1, AccessOver DEF AccessRows
    <3> QED BY <3>1, <3>3, <3>4
  <2>7. ASSUME AccessOthers(r), AccessReads(r) PROVE Strips1
    <3>1. /\ c.at = "accounts" /\ user' = user /\ accounts' = accounts /\ aSessions' = aSessions
          /\ d.old = c.old /\ d.had = c.had /\ d.done = c.done /\ d.seen = accounts
          /\ c.op = "proof" => d.at = "strip" \/ (d.at = "revoke" /\ creds = {})
      BY <2>7 DEF AccessReads, AccessRead, AccessSees, AccessTo
    <3>2. "strip" \in c.done => "flip" \notin c.done
      BY <3>1 DEF AccessBase, AccessPath, AccessStripping
    <3>3. creds1 = creds
      BY <3>1
    <3>4. "strip" \in c.done /\ aDeploy.atomic =>
            \A a \in creds1 : a.id \in c.old \/ AA!Who(a.id) = "owner"
      BY <3>1 DEF AccessStrips, AccessStripping
    <3>5. AA!Credentials(d.seen) = creds
      BY <3>1
    <3> HIDE DEF creds, creds1
    <3> QED BY <3>1, <3>2, <3>3, <3>4, <3>5, <1>k, <1>p
  <2>8. ASSUME AccessOthers(r), AccessDeletes(r) PROVE Strips1
    <3>1. PICK x \in AA!Credentials(c.seen) :
            /\ accounts' = {b \in accounts : b.id # x.id}
            /\ d.seen = c.seen \ {x}
            /\ d.at = IF AA!Credentials(c.seen \ {x}) = {} THEN "revoke" ELSE "strip"
      BY <2>8 DEF AccessDeletes, AccessSees, AccessTo
    <3>2. /\ c.at = "strip" /\ user' = user /\ aSessions' = aSessions
          /\ d.old = c.old /\ d.had = c.had /\ d.done = c.done
      BY <2>8 DEF AccessDeletes, AccessSees, AccessTo
    <3>3. creds1 \subseteq creds /\ \A a \in creds1 : a.id # x.id
      BY <3>1 DEF AA!Credentials
    <3>4. "strip" \in c.done => \A a \in creds1 : a.id \in c.old =>
            \E b \in AA!Credentials(c.seen \ {x}) : b.id = a.id
      <4> SUFFICES ASSUME "strip" \in c.done, NEW a \in creds1, a.id \in c.old
                   PROVE  \E b \in AA!Credentials(c.seen \ {x}) : b.id = a.id
        OBVIOUS
      <4>1. PICK b \in AA!Credentials(c.seen) : b.id = a.id
        BY <3>2, <3>3 DEF AccessStrips
      <4>2. b # x
        BY <3>3, <4>1
      <4> QED BY <4>1, <4>2 DEF AA!Credentials
    <3>5. d.at = "revoke" /\ "strip" \in c.done => \A a \in creds1 : a.id \notin c.old
      BY <3>1, <3>4
    <3>6. "strip" \in c.done => "flip" \notin c.done
      BY <3>2 DEF AccessBase, AccessPath, AccessStripping
    <3>7. "strip" \in c.done /\ aDeploy.atomic =>
            \A a \in creds1 : a.id \in c.old \/ AA!Who(a.id) = "owner"
      BY <3>2, <3>3 DEF AccessStrips, AccessStripping
    <3>8. d.at \in {"revoke", "strip"}
      BY <3>1
    <3> HIDE DEF creds, creds1
    <3>9. "strip" \in c.done => \A a \in creds1 : a.id \in d.old =>
            \E b \in AA!Credentials(d.seen) : b.id = a.id
      BY <3>1, <3>2, <3>4
    <3> QED BY <3>2, <3>5, <3>6, <3>7, <3>8, <3>9, <1>k
  <2>9. ASSUME AccessOthers(r), AccessRevokes(r) PROVE Strips1
    <3>1. /\ c.at = "revoke" /\ user' = user /\ accounts' = accounts /\ aSessions' = {}
          /\ d.old = c.old /\ d.had = c.had /\ d.done = c.done
          /\ c.op = "proof" => d.at = "flip"
      BY <2>9 DEF AccessRevokes, AccessGoes, AccessSees, AccessTo
    <3>2. "strip" \in c.done => "flip" \notin c.done
      BY <3>1 DEF AccessBase, AccessPath, AccessStripping
    <3>3. "strip" \in c.done => \A a \in creds1 : a.id \notin c.old
      BY <3>1 DEF AccessStrips
    <3>4. "strip" \in c.done /\ aDeploy.atomic =>
            \A a \in creds1 : a.id \in c.old \/ AA!Who(a.id) = "owner"
      BY <3>1 DEF AccessStrips, AccessStripping
    <3> HIDE DEF creds, creds1
    <3> QED BY <3>1, <3>2, <3>3, <3>4, <1>k, <1>p
  <2>10. ASSUME AccessOthers(r), AccessFlips(r) PROVE Strips1
    <3>1. /\ c.at = "flip" /\ user' = "verified" /\ accounts' = accounts /\ aSessions' = aSessions
          /\ d.old = c.old /\ d.had = c.had /\ d.done = c.done \cup {"flip"}
          /\ c.op = "proof" => d.at = "session"
      BY <2>10 DEF AccessFlips, AccessTo
    <3>2. "strip" \in d.done => "strip" \in c.done /\ d.at = "session"
      BY <3>1, <1>p
    <3>3. "strip" \in c.done => /\ \A a \in creds1 : a.id \notin c.old
                                /\ c.had \cap aSessions' = {}
      BY <3>1 DEF AccessStrips
    <3> QED BY <3>1, <3>2, <3>3, <1>k DEF AccessStripping
  <2>11. ASSUME AccessOthers(r), AccessSets(r) PROVE Strips1
    <3>1. "strip" \notin d.done
      BY <2>11, <1>p DEF AccessSets, AccessGoes, AccessSees, AccessTo
    <3> QED BY <3>1
  <2>12. ASSUME AccessOthers(r), AccessRewrites(r) PROVE Strips1
    <3>1. "strip" \notin d.done
      BY <2>12, <1>p DEF AccessRewrites, AccessGoes, AccessSees, AccessTo
    <3> QED BY <3>1
  <2>13. ASSUME AccessOthers(r), AccessUnlinks(r) PROVE Strips1
    <3>1. "strip" \notin d.done
      BY <2>13, <1>p DEF AccessUnlinks, AccessGoes, AccessSees, AccessTo
    <3> QED BY <3>1
  <2>14. ASSUME AccessEnded(r) PROVE Strips1
    <3>1. /\ user' = user /\ accounts' = accounts /\ d.at \in {"ok", "failed"}
          /\ d.old = c.old /\ d.had = c.had /\ d.done = c.done
      BY <2>14 DEF AccessEnded, AccessRead, AccessGoes, AccessSees, AccessTo
    <3>2. "strip" \in c.done /\ "flip" \in c.done =>
            /\ \A a \in creds1 : a.id \notin c.old
            /\ c.had \cap aSessions = {} /\ user = "verified"
      BY <3>1 DEF AccessStrips
    <3> QED BY <3>1, <3>2, <1>k DEF AccessStripping
  <2>15. ASSUME NEW op \in aDeploy.ops[r], AccessStarts(r, op) PROVE Strips1
    <3>1. "strip" \notin d.done
      BY <2>15, <1>p DEF AccessStarts, AccessTo
    <3> QED BY <3>1
  <2> QED BY <2>1, <2>2, <2>3, <2>4, <2>5, <2>6, <2>7, <2>8, <2>9, <2>10, <2>11, <2>12, <2>13,
       <2>14, <2>15 DEF AccessDoes, AccessStep
<1> QED BY <1>g, <1>h

LEMMA AccessStripsKept ==
  ASSUME AccessBase, AccessRows, NEW r \in Requests, AccessStrips(r), NEW n \in Requests,
         AccessDoes(n)
  PROVE  AccessStrips(r)'
BY AccessStripsBeside, AccessStripsOwn

\* Who is at link comes from the first read of the user, or made it without a transaction.
LEMMA AccessToLink ==
  ASSUME AccessBase, NEW r \in Requests, AccessDoes(r), aCall'[r].at = "link", aDeploy.atomic,
         aDeploy.requireLocal
  PROVE  user = "verified"
<1>1. ASSUME AccessOthers(r), AccessEnters(r) PROVE user = "verified"
  BY <1>1
  DEF AccessEnters, AccessRead, AccessOthers, AccessGoes, AccessSees, AccessTo
<1>2. ASSUME AccessOthers(r), AccessFinds(r) PROVE user = "verified"
  BY <1>2
  DEF AccessFinds, AccessRead, AccessFound, AccessOthers, AccessGoes, AccessSees, AccessTo
<1>3. ASSUME AccessOthers(r), AccessCreates(r) PROVE user = "verified"
  BY <1>3
  DEF AccessCreates, AccessNew, AccessKind, AccessOthers, AccessGoes, AccessSees, AccessTo
<1>4. ASSUME AccessOthers(r), AccessAttaches(r) PROVE user = "verified"
  BY <1>4
  DEF AccessAttaches, AccessNew, AccessKind, AccessOthers, AccessGoes, AccessSees, AccessTo
<1>5. ASSUME AccessOthers(r), AccessSigns(r) PROVE user = "verified"
  BY <1>5
  DEF AccessSigns, AccessOthers, AccessGoes, AccessSees, AccessTo
<1>6. ASSUME AccessOthers(r), AccessRereads(r) PROVE user = "verified"
  BY <1>6
  DEF AccessRereads, AccessRead, AccessOthers, AccessGoes, AccessSees, AccessTo
<1>7. ASSUME AccessOthers(r), AccessReads(r) PROVE user = "verified"
  BY <1>7
  DEF AccessReads, AccessRead, AccessOthers, AccessGoes, AccessSees, AccessTo
<1>8. ASSUME AccessOthers(r), AccessDeletes(r) PROVE user = "verified"
  BY <1>8
  DEF AccessDeletes, AccessOthers, AccessGoes, AccessSees, AccessTo
<1>9. ASSUME AccessOthers(r), AccessRevokes(r) PROVE user = "verified"
  BY <1>9
  DEF AccessRevokes, AccessOthers, AccessGoes, AccessSees, AccessTo
<1>10. ASSUME AccessOthers(r), AccessFlips(r) PROVE user = "verified"
  BY <1>10
  DEF AccessFlips, AccessAfterReset, AccessOthers, AccessGoes, AccessSees, AccessTo
<1>11. ASSUME AccessOthers(r), AccessSets(r) PROVE user = "verified"
  BY <1>11
  DEF AccessSets, AccessNew, AccessKind, AccessPw, AccessAfterReset, AccessOthers,
      AccessGoes, AccessSees, AccessTo
<1>12. ASSUME AccessOthers(r), AccessRewrites(r) PROVE user = "verified"
  BY <1>12
  DEF AccessRewrites, AccessPw, AccessOthers, AccessGoes, AccessSees, AccessTo
<1>13. ASSUME AccessOthers(r), AccessUnlinks(r) PROVE user = "verified"
  BY <1>13
  DEF AccessUnlinks, AccessOthers, AccessGoes, AccessSees, AccessTo
<1>14. ASSUME AccessEnded(r) PROVE user = "verified"
  BY <1>14
  DEF AccessEnded, AccessRead, AccessOthers, AccessGoes, AccessSees, AccessTo
<1>15. ASSUME NEW op \in aDeploy.ops[r], AccessStarts(r, op) PROVE user = "verified"
  BY <1>15
  DEF AccessStarts, AccessRead, AccessTo
<1> QED BY <1>1, <1>2, <1>3, <1>4, <1>5, <1>6, <1>7, <1>8, <1>9, <1>10, <1>11, <1>12, <1>13,
     <1>14, <1>15 DEF AccessDoes, AccessStep

LEMMA AccessLinksKept ==
  ASSUME AccessBase, AccessRows, AccessLinks, NEW n \in Requests, AccessStrips(n), AccessDoes(n)
  PROVE  AccessLinks'
<1>d. /\ aDeploy' = aDeploy /\ \A m : AA!Who(m)' = AA!Who(m)
      /\ user = "verified" => user' = "verified"
      /\ confirmed => confirmed'
  BY AccessSteady
<1>t. /\ user \in {"none", "unverified", "verified"} /\ confirmed \in BOOLEAN
      /\ aDeploy.atomic \in BOOLEAN
  BY AccessTypes, AccessDeployTyped DEF AccessBase
<1>u. AccessUnconfirmed' => AccessUnconfirmed
  BY <1>d DEF AccessUnconfirmed
<1> SUFFICES ASSUME AccessUnconfirmed, AccessUnconfirmed' PROVE AccessLinks'
  BY <1>u DEF AccessLinks
<1>c. /\ aDeploy.atomic /\ aDeploy.requireLocal /\ ~confirmed /\ ~confirmed'
  BY DEF AccessUnconfirmed
<1>l. /\ user = "verified" => \A a \in AA!Credentials(accounts) : AA!Who(a.id) = "owner"
      /\ \A a \in accounts : a.kind = "social" /\ AA!Who(a.id) = "owner" => user = "verified"
      /\ \A q \in Requests : aCall[q].at = "link" /\ AA!Who(q) = "owner" => user = "verified"
  BY DEF AccessLinks
<1>m. user' = user \/ AccessCreates(n) \/ AccessFlips(n)
  BY DEF AccessDoes, AccessStep, AccessStarts, AccessEnded, AccessRead, AccessEnters, AccessFinds,
         AccessAttaches, AccessSigns, AccessRereads, AccessReads, AccessDeletes, AccessRevokes,
         AccessSets, AccessRewrites, AccessUnlinks
<1>1. ASSUME user' = "verified", NEW b \in AA!Credentials(accounts') PROVE AA!Who(b.id) = "owner"
  <2>1. CASE user = "verified"
    <3>1. AA!Who(b.id) = "owner" \/ b.id = n
      BY <1>l, <2>1, AccessNewRow
    <3>2. CASE ~\E a \in AA!Credentials(accounts) : a.id = b.id
      BY <2>1, <3>2, <1>c, AccessNewRow
    <3>3. CASE \E a \in AA!Credentials(accounts) : a.id = b.id
      BY <1>l, <2>1, <3>3
    <3> QED BY <3>2, <3>3
  <2>2. CASE user # "verified" /\ AccessCreates(n)
    <3>1. accounts = {} /\ user = "none"
      BY <1>1, <2>2 DEF AccessCreates, AccessRows
    <3>2. aCall[n].op = "proof" \/ aCall[n].op = "social"
      BY <1>1, <2>2, <3>1 DEF AccessCreates
    <3>3. accounts' = {} \/ (accounts' = {AccessNew(n)} /\ aCall[n].op = "social")
      BY <2>2, <3>1, <3>2 DEF AccessCreates
    <3>4. AccessNew(n).kind = "social" \/ aCall[n].op # "social"
      BY DEF AccessNew, AccessKind
    <3> QED BY <3>3, <3>4 DEF AA!Credentials
  <2>3. CASE user # "verified" /\ AccessFlips(n)
    <3>1. aCall[n].op = "proof" /\ aCall[n].at = "flip" /\ accounts' = accounts
      BY <1>c, <2>3 DEF AccessFlips
    <3>2. "strip" \in aCall[n].done
      BY <2>3, <3>1 DEF AccessBase, AccessPath
    <3>3. \A a \in AA!Credentials(accounts) :
            /\ a.id \notin aCall[n].old
            /\ a.id \in aCall[n].old \/ AA!Who(a.id) = "owner"
      BY <1>c, <3>1, <3>2 DEF AccessStrips, AccessStripping
    <3> QED BY <3>1, <3>3
  <2> QED BY <1>1, <1>m, <2>1, <2>2, <2>3
<1>2. ASSUME NEW b \in accounts', b.kind = "social", AA!Who(b.id) = "owner"
      PROVE  user' = "verified"
  <2>1. CASE b \in accounts \/ AccessChanged(n, b)
    BY <1>2, <1>d, <1>l, <2>1 DEF AccessChanged
  <2>2. CASE AccessAdded(n, b)
    <3>1. b.id = n /\ aCall[n].op = "social"
      BY <1>2, <2>2 DEF AccessAdded, AccessNew, AccessKind
    <3>2. CASE aCall[n].at = "link"
      BY <1>2, <1>d, <1>l, <3>1, <3>2
    <3>3. CASE aCall[n].at = "password"
      BY <3>1, <3>3, AccessOps
    <3>4. CASE aCall[n].at = "createUser" /\ user = "none"
      <4>1. accounts = {}
        BY <3>4 DEF AccessRows
      <4>2. CASE AccessCreates(n)
        BY <1>2, <3>1, <3>4, <4>1, <4>2 DEF AccessCreates, AccessGoes
      <4>3. CASE ~AccessCreates(n)
        <5>1. accounts' = accounts
          BY <3>4, <4>3
         DEF AccessDoes, AccessStep, AccessStarts, AccessEnded, AccessRead, AccessEnters, AccessFinds,
             AccessAttaches, AccessSigns, AccessRereads, AccessReads, AccessDeletes, AccessRevokes,
             AccessFlips, AccessSets, AccessRewrites, AccessUnlinks
        <5> QED BY <4>1, <5>1
      <4> QED BY <4>2, <4>3
    <3> QED BY <2>2, <3>2, <3>3, <3>4 DEF AccessAdded
  <2> QED BY <2>1, <2>2, AccessRowsMove
<1>3. ASSUME NEW q \in Requests, aCall'[q].at = "link", AA!Who(q) = "owner"
      PROVE  user' = "verified"
  <2>1. CASE q = n
    BY <1>3, <1>c, <1>d, <2>1, AccessToLink
  <2>2. CASE q # n
    BY <1>3, <1>d, <1>l, <2>2, AccessFramed DEF AccessFrame
  <2> QED BY <2>1, <2>2
<1> QED BY <1>1, <1>2, <1>3, <1>d DEF AccessLinks, AA!Credentials

\* Whoever is about to sign in had the password of a row when they came to it.
LEMMA AccessEntered ==
  ASSUME AccessBase, NEW r \in Requests, AccessDoes(r), aCall'[r].op = "signIn",
         aCall'[r].at = "session"
  PROVE  \E a \in AA!Credentials(accounts) : aCall'[r].pw = a.pw /\ AA!Who(a.pw) = AA!Who(r)
<1> DEFINE Goal == \E a \in AA!Credentials(accounts) :
                     aCall'[r].pw = a.pw /\ AA!Who(a.pw) = AA!Who(r)
<1>p. LET op == aCall[r].op
          at == aCall[r].at
      IN  /\ at \in {"createUser", "link", "reread", "accounts", "strip", "revoke", "flip",
                     "password", "rewrite", "unlink"} => op # "signIn"
  BY AccessOps
<1>s. aCall'[r].op = "signIn" /\ aCall'[r].at = "session"
  OBVIOUS
<1>g. Goal
  <2>1. ASSUME AccessOthers(r), AccessEnters(r) PROVE Goal
    BY <2>1, <1>p, <1>s
    DEF AccessEnters, AccessRead, AccessOthers, AccessGoes, AccessSees, AccessTo
  <2>2. ASSUME AccessOthers(r), AccessFinds(r) PROVE Goal
    BY <2>2, <1>p, <1>s
    DEF AccessFinds, AccessRead, AccessFound, AccessOthers, AccessGoes, AccessSees, AccessTo
  <2>3. ASSUME AccessOthers(r), AccessCreates(r) PROVE Goal
    BY <2>3, <1>p, <1>s
    DEF AccessCreates, AccessNew, AccessKind, AccessOthers, AccessGoes, AccessSees, AccessTo
  <2>4. ASSUME AccessOthers(r), AccessAttaches(r) PROVE Goal
    BY <2>4, <1>p, <1>s
    DEF AccessAttaches, AccessNew, AccessKind, AccessOthers, AccessGoes, AccessSees, AccessTo
  <2>5. ASSUME AccessOthers(r), AccessSigns(r) PROVE Goal
    BY <2>5, <1>p, <1>s
    DEF AccessSigns, AccessOthers, AccessGoes, AccessSees, AccessTo
  <2>6. ASSUME AccessOthers(r), AccessRereads(r) PROVE Goal
    BY <2>6, <1>p, <1>s
    DEF AccessRereads, AccessRead, AccessOthers, AccessGoes, AccessSees, AccessTo
  <2>7. ASSUME AccessOthers(r), AccessReads(r) PROVE Goal
    BY <2>7, <1>p, <1>s
    DEF AccessReads, AccessRead, AccessOthers, AccessGoes, AccessSees, AccessTo
  <2>8. ASSUME AccessOthers(r), AccessDeletes(r) PROVE Goal
    BY <2>8, <1>p, <1>s
    DEF AccessDeletes, AccessOthers, AccessGoes, AccessSees, AccessTo
  <2>9. ASSUME AccessOthers(r), AccessRevokes(r) PROVE Goal
    BY <2>9, <1>p, <1>s
    DEF AccessRevokes, AccessOthers, AccessGoes, AccessSees, AccessTo
  <2>10. ASSUME AccessOthers(r), AccessFlips(r) PROVE Goal
    BY <2>10, <1>p, <1>s
    DEF AccessFlips, AccessAfterReset, AccessOthers, AccessGoes, AccessSees, AccessTo
  <2>11. ASSUME AccessOthers(r), AccessSets(r) PROVE Goal
    BY <2>11, <1>p, <1>s
    DEF AccessSets, AccessNew, AccessKind, AccessPw, AccessAfterReset, AccessOthers,
        AccessGoes, AccessSees, AccessTo
  <2>12. ASSUME AccessOthers(r), AccessRewrites(r) PROVE Goal
    BY <2>12, <1>p, <1>s
    DEF AccessRewrites, AccessPw, AccessOthers, AccessGoes, AccessSees, AccessTo
  <2>13. ASSUME AccessOthers(r), AccessUnlinks(r) PROVE Goal
    BY <2>13, <1>p, <1>s
    DEF AccessUnlinks, AccessOthers, AccessGoes, AccessSees, AccessTo
  <2>14. ASSUME AccessEnded(r) PROVE Goal
    BY <2>14, <1>p, <1>s
    DEF AccessEnded, AccessRead, AccessOthers, AccessGoes, AccessSees, AccessTo
  <2>15. ASSUME NEW op \in aDeploy.ops[r], AccessStarts(r, op) PROVE Goal
    BY <2>15, <1>p, <1>s
    DEF AccessStarts, AccessRead, AccessTo, AA!NeedSession
  <2> QED BY <2>1, <2>2, <2>3, <2>4, <2>5, <2>6, <2>7, <2>8, <2>9, <2>10, <2>11, <2>12, <2>13,
       <2>14, <2>15 DEF AccessDoes, AccessStep
<1> QED BY <1>g

LEMMA AccessSignsAs ==
  ASSUME AccessBase, NEW r \in Requests, AccessDoes(r), aCall[r].at = "session"
  PROVE  aCall'[r].pw = aCall[r].pw
BY DEF AccessDoes, AccessStep, AccessStarts, AccessEnded, AccessRead, AccessEnters, AccessFinds,
      AccessCreates, AccessAttaches, AccessSigns, AccessRereads, AccessReads, AccessDeletes,
      AccessRevokes, AccessFlips, AccessSets, AccessRewrites, AccessUnlinks, AccessGoes,
      AccessSees, AccessTo

\* What another's step does to a reset: it has no old password.
LEMMA AccessResetBeside ==
  ASSUME AccessBase, AccessRows, NEW r \in Requests, AccessReset(r), NEW n \in Requests,
         AccessDoes(n), n # r
  PROVE  AccessReset(r)'
<1> DEFINE c == aCall[r]
           Sealed == (c.at = "password" /\ AA!Credentials(c.seen) = {}) \/ AccessPast(r)
<1>f. /\ aCall'[r].at = c.at /\ aCall'[r].op = c.op /\ aCall'[r].old = c.old
      /\ aCall'[r].racing = c.racing /\ aCall'[r].seen = c.seen
  BY AccessFramed DEF AccessFrame
<1>d. aDeploy' = aDeploy
  BY AccessSteady
<1> SUFFICES ASSUME c.op \in AccessResets PROVE AccessReset(r)'
  BY <1>f DEF AccessReset
<1>h. /\ r \notin c.old /\ \A m \in c.old : m \in Requests => aCall[m].at = "ok"
      /\ Sealed => \A a \in AA!Credentials(accounts) : a.pw \notin c.old
      /\ AccessPast(r) => \A m \in Requests :
           aCall[m].op = "signIn" /\ aCall[m].at = "session" /\ aCall[m].pw \in c.old => m \in c.racing
      /\ aDeploy.revoke /\ c.at = "ok" => \A m \in aSessions \cap Requests :
           aCall[m].op = "signIn" /\ aCall[m].pw \in c.old => m \in c.racing
  BY DEF AccessReset
<1>n. n \notin c.old
  BY <1>h, AccessAfter DEF AA!Steps
<1>o. \A q \in Requests : q # n =>
        /\ aCall'[q].op = aCall[q].op /\ aCall'[q].at = aCall[q].at /\ aCall'[q].pw = aCall[q].pw
  BY AccessFramed DEF AccessFrame
<1>1. \A m \in c.old : m \in Requests => aCall'[m].at = "ok"
  BY <1>h, AccessOver
<1>2. ASSUME Sealed, NEW b \in AA!Credentials(accounts') PROVE b.pw \notin c.old
  <2>1. CASE b \in accounts
    BY <1>2, <1>h, <2>1 DEF AA!Credentials
  <2>2. CASE AccessAdded(n, b) \/ AccessChanged(n, b)
    BY <1>n, <2>2 DEF AccessAdded, AccessNew, AccessChanged
  <2> QED BY <1>2, <2>1, <2>2, AccessRowsMove DEF AA!Credentials
<1>3. ASSUME AccessPast(r), NEW m \in Requests, aCall'[m].op = "signIn", aCall'[m].at = "session",
             aCall'[m].pw \in c.old
      PROVE  m \in c.racing
  <2>1. CASE m # n
    BY <1>3, <1>h, <1>o, <2>1
  <2>2. CASE m = n
    BY <1>3, <1>h, <2>2, AccessEntered
  <2> QED BY <2>1, <2>2
<1>4. ASSUME aDeploy.revoke, c.at = "ok", NEW m \in aSessions' \cap Requests,
             aCall'[m].op = "signIn", aCall'[m].pw \in c.old
      PROVE  m \in c.racing
  <2>1. CASE m \in aSessions
    <3>1. aCall[m].at = "ok" /\ m # n
      BY <2>1, AccessOver DEF AccessRows
    <3> QED BY <1>4, <1>h, <1>o, <2>1, <3>1
  <2>2. CASE m \notin aSessions
    <3>1. m = n /\ aCall[n].at # "idle"
      BY <2>2, AccessSessions
    <3>2. aCall[n].op = "signIn"
      BY <1>4, <3>1, AccessFramed
    <3>3. aCall[n].at = "session"
      BY <2>2, <3>2, AccessSessions
    <3>4. aCall[n].pw \in c.old
      BY <1>4, <3>1, <3>3, AccessSignsAs
    <3> QED BY <1>4, <1>h, <3>1, <3>2, <3>3, <3>4 DEF AccessPast
  <2> QED BY <2>1, <2>2
<1>c. \A xs : AA!Credentials(xs)' = AA!Credentials(xs')
  BY DEF AA!Credentials
<1> QED BY <1>f, <1>d, <1>h, <1>1, <1>2, <1>3, <1>4 DEF AccessReset, AccessPast, AA!Credentials

\* What its own does.
LEMMA AccessResetOwn ==
  ASSUME AccessBase, AccessRows, NEW r \in Requests, AccessReset(r), AccessDoes(r)
  PROVE  AccessReset(r)'
<1> DEFINE c == aCall[r]
           d == aCall'[r]
           creds == AA!Credentials(accounts)
           creds1 == AA!Credentials(accounts')
           Past1 == d.at \in {"flip", "revoke", "ok"}
           Reset1 == d.op \in AccessResets =>
             /\ r \notin d.old /\ \A m \in d.old : m \in Requests => aCall'[m].at = "ok"
             /\ (d.at = "password" /\ AA!Credentials(d.seen) = {}) \/ Past1 =>
                  \A a \in creds1 : a.pw \notin d.old
             /\ Past1 => \A m \in Requests :
                  aCall'[m].op = "signIn" /\ aCall'[m].at = "session" /\ aCall'[m].pw \in d.old =>
                    m \in d.racing
             /\ aDeploy.revoke /\ d.at = "ok" => \A m \in aSessions' \cap Requests :
                  aCall'[m].op = "signIn" /\ aCall'[m].pw \in d.old => m \in d.racing
<1>d. aDeploy' = aDeploy
  BY AccessSteady
<1>g. Reset1 => AccessReset(r)'
  BY <1>d DEF AccessReset, AccessPast, AA!Credentials
<1>r. aDeploy.revoke \in BOOLEAN
  BY AccessTypes, AccessDeployTyped DEF AccessBase
<1>o. \A q \in Requests : q # r =>
        /\ aCall'[q].op = aCall[q].op /\ aCall'[q].at = aCall[q].at /\ aCall'[q].pw = aCall[q].pw
  BY AccessFramed DEF AccessFrame
<1>k. c.op \in AccessResets =>
        r \notin c.old /\ \A m \in c.old : m \in Requests => aCall'[m].at = "ok"
  BY AccessOver DEF AccessReset
<1>p. /\ c.at \in {"createUser", "link", "session", "reread", "strip", "rewrite", "unlink"} =>
           c.op \notin AccessResets
      /\ c.at = "flip" /\ c.op \in AccessResets => c.op = "resetOtp"
      /\ c.at = "accounts" /\ c.op \in AccessResets => c.op = "resetLink"
      /\ c.at = "find" /\ c.op \in AccessResets => c.op = "resetOtp"
  BY AccessOps DEF AccessResets
<1>h. Reset1
  <2>1. ASSUME AccessOthers(r), AccessEnters(r) PROVE Reset1
    BY <2>1, <1>p
    DEF AccessEnters, AccessOthers, AccessResets
  <2>2. ASSUME AccessOthers(r), AccessFinds(r) PROVE Reset1
    <3>1. c.op \in AccessResets => c.op = "resetOtp"
      BY <2>2, <1>p DEF AccessFinds
    <3>2. /\ d.old = c.old /\ d.op = c.op /\ accounts' = accounts
          /\ c.op = "resetOtp" => d.at = "rejected" \/ (d.at = "password" /\ d.seen = accounts)
      BY <2>2 DEF AccessFinds, AccessFound, AccessRead, AccessOthers, AccessGoes, AccessSees, AccessTo
    <3>3. AA!Credentials(d.seen) = {} /\ d.seen = accounts => creds1 = {}
      BY <3>2
    <3> HIDE DEF creds1
    <3> QED BY <1>k, <3>1, <3>2, <3>3
  <2>3. ASSUME AccessOthers(r), AccessCreates(r) PROVE Reset1
    BY <2>3, <1>p
    DEF AccessCreates, AccessOthers
  <2>4. ASSUME AccessOthers(r), AccessAttaches(r) PROVE Reset1
    BY <2>4, <1>p
    DEF AccessAttaches, AccessOthers
  <2>5. ASSUME AccessOthers(r), AccessSigns(r) PROVE Reset1
    BY <2>5, <1>p
    DEF AccessSigns, AccessOthers
  <2>6. ASSUME AccessOthers(r), AccessRereads(r) PROVE Reset1
    BY <2>6, <1>p
    DEF AccessRereads, AccessOthers
  <2>7. ASSUME AccessOthers(r), AccessReads(r) PROVE Reset1
    <3>1. c.op \in AccessResets => c.op = "resetLink"
      BY <2>7, <1>p DEF AccessReads
    <3>2. /\ d.old = c.old /\ d.op = c.op /\ accounts' = accounts /\ d.seen = accounts
          /\ c.op = "resetLink" => d.at = "password"
      BY <2>7 DEF AccessReads, AccessRead, AccessOthers, AccessSees, AccessTo
    <3>3. AA!Credentials(d.seen) = {} => creds1 = {}
      BY <3>2
    <3> HIDE DEF creds1
    <3> QED BY <1>k, <3>1, <3>2, <3>3
  <2>8. ASSUME AccessOthers(r), AccessDeletes(r) PROVE Reset1
    BY <2>8, <1>p
    DEF AccessDeletes, AccessOthers
  <2>9. ASSUME AccessOthers(r), AccessRevokes(r) PROVE Reset1
    <3>1. /\ c.at = "revoke" /\ d.old = c.old /\ d.op = c.op /\ d.racing = c.racing
          /\ accounts' = accounts /\ aSessions' = {}
          /\ c.op \in AccessResets => d.at = "ok"
      BY <2>9 DEF AccessRevokes, AccessOthers, AccessResets, AccessGoes, AccessSees, AccessTo
    <3>2. c.op \in AccessResets => \A a \in creds1 : a.pw \notin c.old
      BY <3>1 DEF AccessReset, AccessPast
    <3>3. c.op \in AccessResets => \A m \in Requests :
            aCall[m].op = "signIn" /\ aCall[m].at = "session" /\ aCall[m].pw \in c.old => m \in c.racing
      BY <3>1 DEF AccessReset, AccessPast
    <3> HIDE DEF creds1
    <3> QED BY <1>k, <1>o, <3>1, <3>2, <3>3
  <2>10. ASSUME AccessOthers(r), AccessFlips(r) PROVE Reset1
    <3>1. /\ c.at = "flip" /\ d.old = c.old /\ d.op = c.op /\ d.racing = c.racing
          /\ accounts' = accounts
          /\ c.op \in AccessResets => d.at = AccessAfterReset
      BY <2>10, <1>p DEF AccessFlips, AccessOthers, AccessTo
    <3>2. c.op \in AccessResets => \A a \in creds1 : a.pw \notin c.old
      BY <3>1 DEF AccessReset, AccessPast
    <3>3. c.op \in AccessResets => \A m \in Requests :
            aCall[m].op = "signIn" /\ aCall[m].at = "session" /\ aCall[m].pw \in c.old => m \in c.racing
      BY <3>1 DEF AccessReset, AccessPast
    <3>4. c.op \in AccessResets => d.at \in {"revoke", "ok"} /\ ~(aDeploy.revoke /\ d.at = "ok")
      BY <1>r, <3>1 DEF AccessAfterReset
    <3> HIDE DEF creds1
    <3> QED BY <1>k, <1>o, <3>1, <3>2, <3>3, <3>4
  <2>11. ASSUME AccessOthers(r), AccessSets(r) PROVE Reset1
    <3>1. /\ c.at = "password" /\ d.old = c.old /\ d.op = c.op
          /\ d.racing = {q \in Requests : AA!InFlight(q)}
          /\ d.at \in {"revoke", "flip", "ok"} /\ ~(aDeploy.revoke /\ d.at = "ok")
      BY <2>11, <1>r DEF AccessSets, AccessOthers, AccessTo, AccessAfterReset
    <3>2. c.op \in AccessResets => \A a \in creds1 : a.pw \notin c.old
      <4> SUFFICES ASSUME c.op \in AccessResets, NEW a \in creds1 PROVE a.pw \notin c.old
        OBVIOUS
      <4>1. CASE AA!Credentials(c.seen) = {} /\ accounts' = accounts \cup {AccessNew(r)}
        <5>1. a.pw = r \/ a \in creds
          BY <4>1 DEF AA!Credentials, AccessNew
        <5> QED BY <1>k, <3>1, <4>1, <5>1 DEF AccessReset
      <4>2. CASE accounts' = {AccessPw(b, IF b.kind = "credential" THEN r ELSE b.pw) : b \in accounts}
        <5>1. a.pw = r
          BY <4>2 DEF AA!Credentials, AccessPw
        <5> QED BY <1>k, <5>1
      <4> QED BY <2>11, <4>1, <4>2 DEF AccessSets
    <3>3. \A m \in Requests : aCall'[m].at = "session" => m \in d.racing
      <4> SUFFICES ASSUME NEW m \in Requests, aCall'[m].at = "session" PROVE m \in d.racing
        OBVIOUS
      <4>1. aCall[m].at = "session"
        BY <1>o, <3>1
      <4> QED BY <3>1, <4>1 DEF AA!InFlight, AA!Steps
    <3> HIDE DEF creds1
    <3> QED BY <1>k, <3>1, <3>2, <3>3
  <2>12. ASSUME AccessOthers(r), AccessRewrites(r) PROVE Reset1
    BY <2>12, <1>p
    DEF AccessRewrites, AccessOthers
  <2>13. ASSUME AccessOthers(r), AccessUnlinks(r) PROVE Reset1
    BY <2>13, <1>p
    DEF AccessUnlinks, AccessOthers
  <2>14. ASSUME AccessEnded(r) PROVE Reset1
    <3>1. d.old = c.old /\ d.op = c.op /\ d.at = "failed"
      BY <2>14 DEF AccessEnded, AccessOthers, AccessGoes, AccessSees, AccessTo
    <3> QED BY <1>k, <3>1
  <2>15. ASSUME NEW op \in aDeploy.ops[r], AccessStarts(r, op) PROVE Reset1
    <3>1. /\ c.at = "idle" /\ d.at \in {"accounts", "find"}
          /\ d.old = IF d.op \in AccessResets
                       THEN {m \in AA!Makers : m = Past \/ aCall[m].at = "ok"} ELSE {}
      BY <2>15 DEF AccessStarts, AccessTo
    <3>2. Past \notin Requests
      BY AccessTypes DEF AccessBase
    <3>3. r \notin d.old
      BY <3>1, <3>2
    <3>4. \A m \in d.old : m \in Requests => aCall'[m].at = "ok"
      BY <3>1, <3>2, AccessOver
    <3> QED BY <3>1, <3>3, <3>4
  <2> QED BY <2>1, <2>2, <2>3, <2>4, <2>5, <2>6, <2>7, <2>8, <2>9, <2>10, <2>11, <2>12, <2>13,
       <2>14, <2>15 DEF AccessDoes, AccessStep
<1> QED BY <1>g, <1>h

LEMMA AccessResetKept ==
  ASSUME AccessBase, AccessRows, NEW r \in Requests, AccessReset(r), NEW n \in Requests,
         AccessDoes(n)
  PROVE  AccessReset(r)'
BY AccessResetBeside, AccessResetOwn

\* Whoever arrives beside a quiet proof is the same person.
LEMMA AccessArrives ==
  ASSUME AccessBase, NEW r \in Requests, AccessDoes(r), aCall[r].at = "idle", NEW q \in Requests,
         q # r, AA!InFlight(q), aCall'[q].quiet
  PROVE  AA!Who(q) = AA!Who(r)
<1>1. aCall[r].at \notin AA!Steps
  BY DEF AA!Steps
<1>2. PICK op \in aDeploy.ops[r] : AccessStarts(r, op)
  BY <1>1 DEF AccessDoes, AccessStep, AccessEnded, AccessEnters, AccessFinds, AccessCreates,
              AccessAttaches, AccessSigns, AccessRereads, AccessReads, AccessDeletes,
              AccessRevokes, AccessFlips, AccessSets, AccessRewrites, AccessUnlinks, AA!InFlight
<1>3. aCall'[q].quiet = (aCall[q].quiet /\ (AA!InFlight(q) => AA!Who(q) = AA!Who(r)))
  BY <1>2 DEF AccessStarts, AccessTo
<1> QED BY <1>3

\* Where no row has a password of theirs, they get no further than an identity.
LEMMA AccessStaysOut ==
  ASSUME AccessBase, NEW r \in Requests, AccessDoes(r), AA!Who(r) # "owner", user # "none",
         \A a \in AA!Credentials(accounts) : AA!Who(a.pw) = "owner", AccessOut(r)
  PROVE  AccessOut(r)'
<1> DEFINE Goal == /\ aCall'[r].at \in {"link", "session", "flip"} => aCall'[r].op = "social"
                   /\ aCall'[r].at \notin {"rewrite", "revoke"}
<1>m. aCall[r].op \notin {"proof", "confirm", "resetLink", "resetOtp"}
  BY AccessByMail DEF AA!ByMail
<1>a. /\ user # "none" /\ AA!Who(r) # "owner"
      /\ \A a \in AA!Credentials(accounts) : AA!Who(a.pw) = "owner"
      /\ aCall[r].at \in {"link", "session", "flip"} => aCall[r].op = "social"
      /\ aCall[r].at \notin {"rewrite", "revoke"}
  BY DEF AccessOut
<1>p. LET op == aCall[r].op
          at == aCall[r].at
      IN  /\ at \in {"reread", "strip"} => op = "proof"
          /\ at = "password" => op \in {"resetLink", "resetOtp"}
  BY AccessOps
<1>g. Goal
  <2>1. ASSUME AccessOthers(r), AccessEnters(r) PROVE Goal
    BY <2>1, <1>m, <1>a, <1>p
    DEF AccessEnters, AccessRead, AccessOthers, AccessGoes, AccessSees, AccessTo
  <2>2. ASSUME AccessOthers(r), AccessFinds(r) PROVE Goal
    BY <2>2, <1>m, <1>a, <1>p
    DEF AccessFinds, AccessRead, AccessFound, AccessOthers, AccessGoes, AccessSees, AccessTo
  <2>3. ASSUME AccessOthers(r), AccessCreates(r) PROVE Goal
    BY <2>3, <1>m, <1>a, <1>p
    DEF AccessCreates, AccessNew, AccessKind, AccessOthers, AccessGoes, AccessSees, AccessTo
  <2>4. ASSUME AccessOthers(r), AccessAttaches(r) PROVE Goal
    BY <2>4, <1>m, <1>a, <1>p
    DEF AccessAttaches, AccessNew, AccessKind, AccessOthers, AccessGoes, AccessSees, AccessTo
  <2>5. ASSUME AccessOthers(r), AccessSigns(r) PROVE Goal
    BY <2>5, <1>m, <1>a, <1>p
    DEF AccessSigns, AccessOthers, AccessGoes, AccessSees, AccessTo
  <2>6. ASSUME AccessOthers(r), AccessRereads(r) PROVE Goal
    BY <2>6, <1>m, <1>a, <1>p
    DEF AccessRereads, AccessRead, AccessOthers, AccessGoes, AccessSees, AccessTo
  <2>7. ASSUME AccessOthers(r), AccessReads(r) PROVE Goal
    BY <2>7, <1>m, <1>a, <1>p
    DEF AccessReads, AccessRead, AccessOthers, AccessGoes, AccessSees, AccessTo
  <2>8. ASSUME AccessOthers(r), AccessDeletes(r) PROVE Goal
    BY <2>8, <1>m, <1>a, <1>p
    DEF AccessDeletes, AccessOthers, AccessGoes, AccessSees, AccessTo
  <2>9. ASSUME AccessOthers(r), AccessRevokes(r) PROVE Goal
    BY <2>9, <1>m, <1>a, <1>p
    DEF AccessRevokes, AccessOthers, AccessGoes, AccessSees, AccessTo
  <2>10. ASSUME AccessOthers(r), AccessFlips(r) PROVE Goal
    BY <2>10, <1>m, <1>a, <1>p
    DEF AccessFlips, AccessAfterReset, AccessOthers, AccessGoes, AccessSees, AccessTo
  <2>11. ASSUME AccessOthers(r), AccessSets(r) PROVE Goal
    BY <2>11, <1>m, <1>a, <1>p
    DEF AccessSets, AccessNew, AccessKind, AccessPw, AccessAfterReset, AccessOthers,
        AccessGoes, AccessSees, AccessTo
  <2>12. ASSUME AccessOthers(r), AccessRewrites(r) PROVE Goal
    BY <2>12, <1>m, <1>a, <1>p
    DEF AccessRewrites, AccessPw, AccessOthers, AccessGoes, AccessSees, AccessTo
  <2>13. ASSUME AccessOthers(r), AccessUnlinks(r) PROVE Goal
    BY <2>13, <1>m, <1>a, <1>p
    DEF AccessUnlinks, AccessOthers, AccessGoes, AccessSees, AccessTo
  <2>14. ASSUME AccessEnded(r) PROVE Goal
    BY <2>14, <1>m, <1>a, <1>p
    DEF AccessEnded, AccessRead, AccessOthers, AccessGoes, AccessSees, AccessTo
  <2>15. ASSUME NEW op \in aDeploy.ops[r], AccessStarts(r, op) PROVE Goal
    BY <2>15, <1>m, <1>a, <1>p
    DEF AccessStarts, AccessRead, AccessTo
  <2> QED BY <2>1, <2>2, <2>3, <2>4, <2>5, <2>6, <2>7, <2>8, <2>9, <2>10, <2>11, <2>12, <2>13,
       <2>14, <2>15 DEF AccessDoes, AccessStep
<1> QED BY <1>g DEF AccessOut

\* What a quiet proof leaves is the owner's.
LEMMA AccessAlone ==
  ASSUME AccessBase, AccessOwned, NEW r \in Requests, AccessStrips(r), AccessQuiet(r),
         "strip" \in aCall[r].done, aCall[r].quiet
  PROVE  /\ AA!Who(r) = "owner"
         /\ "flip" \in aCall[r].done =>
              user = "verified" /\ \A a \in AA!Credentials(accounts) : AA!Who(a.pw) = "owner"
<1>1. aCall[r].op \in AA!ByMail
  BY DEF AccessBase, AccessPath, AA!ByMail
<1>2. "flip" \in aCall[r].done => user = "verified"
  BY DEF AccessStrips
<1>3. ASSUME "flip" \in aCall[r].done, NEW a \in AA!Credentials(accounts)
      PROVE  AA!Who(a.pw) = "owner"
  <2>1. a.id \notin aCall[r].old
    BY <1>3 DEF AccessStrips
  <2>2. AA!Who(a.id) = "owner"
    BY <1>3, <2>1 DEF AccessQuiet
  <2> QED BY <2>2 DEF AccessOwned, AccessOwn
<1> QED BY <1>1, <1>2, <1>3, AccessByMail

\* What another's step does to a quiet proof.
LEMMA AccessQuietBeside ==
  ASSUME AccessBase, AccessRows, AccessOwned, NEW r \in Requests, AccessStrips(r), AccessQuiet(r),
         NEW n \in Requests, AccessDoes(n), n # r
  PROVE  AccessQuiet(r)'
<1> DEFINE c == aCall[r]
<1>f. /\ aCall'[r].at = c.at /\ aCall'[r].done = c.done /\ aCall'[r].old = c.old
      /\ aCall'[r].quiet => c.quiet
  BY AccessFramed DEF AccessFrame
<1> SUFFICES ASSUME "strip" \in c.done, aCall'[r].quiet PROVE AccessQuiet(r)'
  BY <1>f DEF AccessQuiet
<1>q. c.quiet
  BY <1>f
<1>w. /\ AA!Who(r) = "owner"
      /\ "flip" \in c.done =>
           user = "verified" /\ \A a \in AA!Credentials(accounts) : AA!Who(a.pw) = "owner"
  BY <1>q, AccessAlone
<1>h. /\ AA!InFlight(r) => \A q \in Requests : AA!InFlight(q) => AA!Who(q) = "owner"
      /\ AA!InFlight(r) \/ "flip" \in c.done =>
           \A a \in AA!Credentials(accounts) : a.id \in c.old \/ AA!Who(a.id) = "owner"
      /\ c.at = "flip" \/ "flip" \in c.done =>
           \A m \in aSessions : AA!Who(m) = "owner" \/ (m \in Requests /\ aCall[m].op = "social")
      /\ "flip" \in c.done => \A q \in Requests : AA!Who(q) # "owner" => AccessOut(q)
  BY <1>q DEF AccessQuiet
<1>n. aCall[n].at \in {"idle"} \cup AA!Steps
  BY AccessAfter
<1>o. \A q \in Requests : q # n => aCall'[q].at = aCall[q].at /\ aCall'[q].op = aCall[q].op
  BY AccessFramed DEF AccessFrame
<1>u. AA!InFlight(r) \/ "flip" \in c.done => user # "none"
  <2>1. CASE AA!InFlight(r)
    BY <2>1 DEF AA!InFlight, AA!Steps, AccessBase, AccessPath, AccessStripping, AccessRows, AccessEnds
  <2>2. CASE "flip" \in c.done
    BY <1>w, <2>2
  <2> QED BY <2>1, <2>2
<1>1. ASSUME AA!InFlight(r), NEW q \in Requests, aCall'[q].at \in AA!Steps PROVE AA!Who(q) = "owner"
  <2>1. CASE q # n
    BY <1>1, <1>h, <1>o, <2>1 DEF AA!InFlight
  <2>2. CASE q = n /\ aCall[n].at = "idle"
    <3>1. AA!Who(r) = AA!Who(n)
      BY <1>1, <2>2, AccessArrives
    <3> QED BY <1>w, <2>2, <3>1
  <2>3. CASE q = n /\ aCall[n].at \in AA!Steps
    BY <1>1, <1>h, <2>3 DEF AA!InFlight
  <2> QED BY <1>n, <2>1, <2>2, <2>3
<1>2. ASSUME AA!InFlight(r) \/ "flip" \in c.done, NEW b \in AA!Credentials(accounts')
      PROVE  b.id \in c.old \/ AA!Who(b.id) = "owner"
  <2>1. CASE \E a \in AA!Credentials(accounts) : a.id = b.id
    BY <1>2, <1>h, <2>1
  <2>2. CASE b.id = n /\ aCall[n].at = "link" /\ aCall[n].op # "social"
    <3>1. CASE AA!InFlight(r)
      BY <1>h, <2>2, <3>1 DEF AA!InFlight, AA!Steps
    <3>2. CASE "flip" \in c.done
      BY <1>h, <2>2, <3>2 DEF AccessOut
    <3> QED BY <1>2, <3>1, <3>2
  <2>3. CASE b.id = n /\ AA!Who(n) = "owner"
    BY <2>3
  <2> QED BY <1>2, <1>u, <2>1, <2>2, <2>3, AccessNewRow
<1>3. ASSUME c.at = "flip" \/ "flip" \in c.done, NEW m \in aSessions'
      PROVE  AA!Who(m) = "owner" \/ (m \in Requests /\ aCall'[m].op = "social")
  <2>0. AA!InFlight(r) \/ "flip" \in c.done
    BY <1>3 DEF AA!InFlight, AA!Steps
  <2>1. CASE m \in aSessions
    <3>1. m \in Requests => aCall'[m].op = aCall[m].op
      BY <2>1, AccessOver DEF AccessRows
    <3> QED BY <1>3, <1>h, <2>1, <3>1
  <2>2. CASE m \notin aSessions
    <3>1. m = n /\ aCall[n].at = "session"
      BY <1>u, <2>0, <2>2, AccessSessions
    <3>2. aCall'[n].op = aCall[n].op
      BY <3>1, AccessFramed
    <3>3. CASE AA!InFlight(r)
      BY <1>h, <3>1, <3>3 DEF AA!InFlight, AA!Steps
    <3>4. CASE "flip" \in c.done
      BY <1>h, <3>1, <3>2, <3>4 DEF AccessOut
    <3> QED BY <2>0, <3>3, <3>4
  <2> QED BY <2>1, <2>2
<1>4. ASSUME "flip" \in c.done, NEW q \in Requests, AA!Who(q) # "owner" PROVE AccessOut(q)'
  <2>1. CASE q # n
    BY <1>4, <1>h, <1>o, <2>1 DEF AccessOut
  <2>2. CASE q = n
    BY <1>4, <1>h, <1>u, <1>w, <2>2, AccessStaysOut
  <2> QED BY <2>1, <2>2
<1>d. \A m : AA!Who(m)' = AA!Who(m)
  BY AccessSteady
<1> QED BY <1>f, <1>d, <1>1, <1>2, <1>3, <1>4 DEF AccessQuiet, AA!InFlight, AA!Credentials

\* What its own does.
LEMMA AccessQuietOwn ==
  ASSUME AccessBase, AccessRows, AccessOwned, NEW r \in Requests, AccessStrips(r), AccessQuiet(r),
         AccessDoes(r)
  PROVE  AccessQuiet(r)'
<1> DEFINE c == aCall[r]
           d == aCall'[r]
           Begins == d.at = "accounts" /\ d.done = {"strip"} /\ accounts' = accounts
                       /\ d.old = {a.id : a \in AA!Credentials(accounts)}
                       /\ d.quiet = (AA!OthersInFlight(r) = {}) /\ c.op = "proof" /\ d.op = "proof"
           Goes == "strip" \in c.done /\ d.quiet = c.quiet /\ d.old = c.old /\ d.op = c.op
                     /\ ("flip" \in d.done => "flip" \in c.done \/ (c.at = "flip" /\ aSessions' = aSessions))
                     /\ (d.at = "flip" => aSessions' = {})
           Goal == "strip" \in d.done => Begins \/ Goes
<1>p. /\ c.at \in {"idle", "find", "createUser", "reread"} => c.done = {}
      /\ "strip" \in c.done => c.op = "proof"
           /\ c.at \in {"accounts", "strip", "revoke", "flip", "session", "ok", "failed"}
      /\ c.at \in {"reread", "strip"} => c.op = "proof"
      /\ c.at = "rewrite" => c.op = "changePassword"
      /\ c.at = "password" => c.op \in {"resetLink", "resetOtp"}
  BY AccessOps DEF AccessBase, AccessPath, AccessStripping
<1>m. Goal
  <2>1. ASSUME AccessOthers(r), AccessEnters(r) PROVE Goal
    BY <2>1, <1>p
    DEF AccessEnters, AccessRead, AccessOthers, AccessGoes, AccessSees, AccessTo
  <2>2. ASSUME AccessOthers(r), AccessFinds(r) PROVE Goal
    BY <2>2, <1>p
    DEF AccessFinds, AccessRead, AccessFound, AccessOthers, AccessGoes, AccessSees, AccessTo
  <2>3. ASSUME AccessOthers(r), AccessCreates(r) PROVE Goal
    BY <2>3, <1>p
    DEF AccessCreates, AccessNew, AccessKind, AccessOthers, AccessGoes, AccessSees, AccessTo
  <2>4. ASSUME AccessOthers(r), AccessAttaches(r) PROVE Goal
    BY <2>4, <1>p
    DEF AccessAttaches, AccessNew, AccessKind, AccessOthers, AccessGoes, AccessSees, AccessTo
  <2>5. ASSUME AccessOthers(r), AccessSigns(r) PROVE Goal
    BY <2>5, <1>p
    DEF AccessSigns, AccessOthers, AccessGoes, AccessSees, AccessTo
  <2>6. ASSUME AccessOthers(r), AccessRereads(r) PROVE Goal
    BY <2>6, <1>p
    DEF AccessRereads, AccessRead, AccessOthers, AccessTo
  <2>7. ASSUME AccessOthers(r), AccessReads(r) PROVE Goal
    BY <2>7, <1>p
    DEF AccessReads, AccessRead, AccessOthers, AccessGoes, AccessSees, AccessTo
  <2>8. ASSUME AccessOthers(r), AccessDeletes(r) PROVE Goal
    BY <2>8, <1>p
    DEF AccessDeletes, AccessOthers, AccessGoes, AccessSees, AccessTo
  <2>9. ASSUME AccessOthers(r), AccessRevokes(r) PROVE Goal
    BY <2>9, <1>p
    DEF AccessRevokes, AccessOthers, AccessGoes, AccessSees, AccessTo
  <2>10. ASSUME AccessOthers(r), AccessFlips(r) PROVE Goal
    BY <2>10, <1>p
    DEF AccessFlips, AccessAfterReset, AccessOthers, AccessGoes, AccessSees, AccessTo
  <2>11. ASSUME AccessOthers(r), AccessSets(r) PROVE Goal
    BY <2>11, <1>p
    DEF AccessSets, AccessNew, AccessKind, AccessPw, AccessAfterReset, AccessOthers,
        AccessGoes, AccessSees, AccessTo
  <2>12. ASSUME AccessOthers(r), AccessRewrites(r) PROVE Goal
    BY <2>12, <1>p
    DEF AccessRewrites, AccessPw, AccessOthers, AccessGoes, AccessSees, AccessTo
  <2>13. ASSUME AccessOthers(r), AccessUnlinks(r) PROVE Goal
    BY <2>13, <1>p
    DEF AccessUnlinks, AccessOthers, AccessGoes, AccessSees, AccessTo
  <2>14. ASSUME AccessEnded(r) PROVE Goal
    BY <2>14, <1>p
    DEF AccessEnded, AccessRead, AccessOthers, AccessGoes, AccessSees, AccessTo
  <2>15. ASSUME NEW op \in aDeploy.ops[r], AccessStarts(r, op) PROVE Goal
    BY <2>15, <1>p
    DEF AccessStarts, AccessRead, AccessTo
  <2> QED BY <2>1, <2>2, <2>3, <2>4, <2>5, <2>6, <2>7, <2>8, <2>9, <2>10, <2>11, <2>12, <2>13,
       <2>14, <2>15 DEF AccessDoes, AccessStep
<1>o. \A q \in Requests : q # r => aCall'[q].at = aCall[q].at /\ aCall'[q].op = aCall[q].op
  BY AccessFramed DEF AccessFrame
<1>w. \A m : AA!Who(m)' = AA!Who(m)
  BY AccessSteady
<1>n. c.at \in {"idle"} \cup AA!Steps
  BY AccessAfter
<1>l. c.op = "proof" => AA!Who(r) = "owner"
  BY AccessByMail DEF AA!ByMail
<1> SUFFICES ASSUME "strip" \in d.done, d.quiet PROVE AccessQuiet(r)'
  BY DEF AccessQuiet
<1>1. CASE Begins
  <2>1. ASSUME NEW q \in Requests, aCall'[q].at \in AA!Steps PROVE AA!Who(q) = "owner"
    <3>1. CASE q = r
      BY <1>1, <1>l, <3>1
    <3>2. CASE q # r
      BY <1>1, <1>l, <1>o, <2>1, <3>2 DEF AA!OthersInFlight, AA!InFlight
    <3> QED BY <3>1, <3>2
  <2>2. \A a \in AA!Credentials(accounts') : a.id \in d.old
    BY <1>1
  <2>3. d.at # "flip" /\ "flip" \notin d.done
    BY <1>1
  <2> HIDE DEF Begins
  <2> QED BY <1>w, <2>1, <2>2, <2>3 DEF AccessQuiet, AA!InFlight, AA!Credentials
<1>2. CASE Goes
  <2>0. /\ c.op = "proof" /\ c.quiet /\ AA!Who(r) = "owner" /\ c.at \in AA!Steps /\ d.old = c.old
        /\ c.at \notin {"idle", "find", "createUser", "ok", "rejected", "failed"}
    BY <1>2, <1>l, <1>n, <1>p DEF AA!Steps
  <2>h. /\ \A q \in Requests : AA!InFlight(q) => AA!Who(q) = "owner"
        /\ \A a \in AA!Credentials(accounts) : a.id \in c.old \/ AA!Who(a.id) = "owner"
        /\ c.at = "flip" \/ "flip" \in c.done =>
             \A m \in aSessions : AA!Who(m) = "owner" \/ (m \in Requests /\ aCall[m].op = "social")
    BY <1>2, <2>0 DEF AccessQuiet, AA!InFlight
  <2>u. user # "none"
    BY <2>0 DEF AccessRows, AccessEnds
  <2>1. ASSUME NEW q \in Requests, aCall'[q].at \in AA!Steps PROVE AA!Who(q) = "owner"
    BY <1>o, <2>0, <2>1, <2>h DEF AA!InFlight
  <2>2. ASSUME NEW b \in AA!Credentials(accounts') PROVE b.id \in c.old \/ AA!Who(b.id) = "owner"
    <3>1. (\E a \in AA!Credentials(accounts) : a.id = b.id) \/ b.id = r
      BY AccessNewRow
    <3> QED BY <2>0, <2>h, <3>1
  <2>3. ASSUME d.at = "flip" \/ "flip" \in d.done, NEW m \in aSessions'
        PROVE  AA!Who(m) = "owner" \/ (m \in Requests /\ aCall'[m].op = "social")
    <3>1. CASE m \notin aSessions
      BY <2>0, <3>1, AccessSessions
    <3>2. CASE m \in aSessions
      <4>1. c.at = "flip" \/ "flip" \in c.done
        BY <1>2, <2>3
      <4>2. m \in Requests => aCall'[m].op = aCall[m].op
        BY <3>2, AccessOver DEF AccessRows
      <4> QED BY <2>h, <3>2, <4>1, <4>2
    <3> QED BY <3>1, <3>2
  <2>4. ASSUME "flip" \in d.done, NEW q \in Requests, AA!Who(q) # "owner" PROVE AccessOut(q)'
    <3>1. q # r /\ ~AA!InFlight(q)
      BY <2>0, <2>4, <2>h
    <3>2. aCall'[q].at \notin AA!Steps
      BY <1>o, <3>1 DEF AA!InFlight
    <3> QED BY <3>2 DEF AccessOut, AA!Steps
  <2> HIDE DEF Goes
  <2> QED BY <1>w, <2>0, <2>1, <2>2, <2>3, <2>4 DEF AccessQuiet, AA!InFlight, AA!Credentials
<1> QED BY <1>m, <1>1, <1>2

LEMMA AccessQuietKept ==
  ASSUME AccessBase, AccessRows, AccessOwned, NEW r \in Requests, AccessStrips(r), AccessQuiet(r),
         NEW n \in Requests, AccessDoes(n)
  PROVE  AccessQuiet(r)'
BY AccessQuietBeside, AccessQuietOwn

LEMMA AccessInit ==
  ASSUME AA!Init
  PROVE  AccessInv
<1>i. /\ aDeploy \in Accesses /\ user = aDeploy.user /\ confirmed = FALSE
      /\ accounts = (IF aDeploy.user # "none" /\ aDeploy.password
                       THEN {AA!Credential(Past)} ELSE {})
      /\ aSessions = (IF aDeploy.user # "none" THEN {Past} ELSE {})
      /\ aCall = [r \in Requests |-> AA!NoCall]
  BY DEF AA!Init
<1>d. /\ aDeploy.user \in {"none", "unverified", "verified"} /\ Past \notin Requests
  BY <1>i, AccessDeployTyped
<1>n. /\ AA!NoCall.op = "none" /\ AA!NoCall.at = "idle" /\ AA!NoCall.seen = {}
      /\ AA!NoCall.done = {} /\ AA!NoCall \in AA!Call
  BY DEF AA!NoCall, AA!Call, AA!Makers
<1>c. \A q \in Requests :
        /\ aCall[q].op = "none" /\ aCall[q].at = "idle" /\ aCall[q].seen = {} /\ aCall[q].done = {}
  BY <1>i, <1>n
<1>p. /\ AA!Credential(Past).id = Past /\ AA!Credential(Past).pw = Past
      /\ AA!Credential(Past).kind = "credential" /\ AA!Credential(Past) \in AA!AccountRow
  BY DEF AA!Credential, AA!AccountRow, AA!Makers
<1>a. \A a \in accounts : a = AA!Credential(Past) /\ user # "none"
  BY <1>i
<1>s. \A m \in aSessions : m = Past /\ user # "none"
  BY <1>i
<1>1. AccessBase
  <2>1. AA!TypeOK
    <3>1. accounts \subseteq AA!AccountRow
      BY <1>a, <1>p
    <3>2. aSessions \subseteq AA!Makers
      BY <1>s DEF AA!Makers
    <3>3. aCall \in [Requests -> AA!Call]
      BY <1>i, <1>n
    <3> QED BY <1>i, <1>d, <3>1, <3>2, <3>3 DEF AA!TypeOK
  <2>2. ASSUME NEW q \in Requests PROVE AccessPath(q)
    BY <1>c DEF AccessPath, AccessPlaces
  <2> QED BY <2>1, <2>2 DEF AccessBase
<1>2. AccessRows
  BY <1>a, <1>c, <1>d, <1>p, <1>s DEF AccessRows
<1>3. AccessOwned
  <2>1. AccessOwn(accounts)
    BY <1>a, <1>p DEF AccessOwn, AA!Credentials
  <2> QED BY <1>c, <2>1 DEF AccessOwned, AccessOwn, AA!Credentials
<1>4. AccessLinks
  BY <1>a, <1>c, <1>i, <1>p DEF AccessLinks, AccessUnconfirmed
<1>5. ASSUME NEW r \in Requests PROVE AccessStrips(r) /\ AccessQuiet(r) /\ AccessReset(r)
  BY <1>c DEF AccessStrips, AccessQuiet, AccessReset, AccessResets
<1> QED BY <1>1, <1>2, <1>3, <1>4, <1>5 DEF AccessInv

LEMMA AccessStepKeeps ==
  ASSUME AccessInv, [AA!Next]_AA!vars
  PROVE  AccessInv'
<1>i. /\ AccessBase /\ AccessRows /\ AccessOwned /\ AccessLinks
      /\ \A r \in Requests : AccessStrips(r) /\ AccessQuiet(r) /\ AccessReset(r)
  BY DEF AccessInv
<1>1. ASSUME NEW n \in Requests, AccessDoes(n) PROVE AccessInv'
  <2>1. AccessBase'
    BY <1>1, <1>i, AccessBaseKept
  <2>2. AccessRows'
    BY <1>1, <1>i, AccessRowsKept
  <2>3. AccessOwned'
    BY <1>1, <1>i, AccessOwnedKept
  <2>4. AccessLinks'
    BY <1>1, <1>i, AccessLinksKept
  <2>5. ASSUME NEW r \in Requests PROVE AccessStrips(r)'
    BY <1>1, <1>i, AccessStripsKept
  <2>6. ASSUME NEW r \in Requests PROVE AccessQuiet(r)'
    BY <1>1, <1>i, AccessQuietKept
  <2>7. ASSUME NEW r \in Requests PROVE AccessReset(r)'
    BY <1>1, <1>i, AccessResetKept
  <2> QED BY <2>1, <2>2, <2>3, <2>4, <2>5, <2>6, <2>7 DEF AccessInv
<1>2. CASE UNCHANGED AA!vars
  <2>1. /\ aDeploy' = aDeploy /\ user' = user /\ accounts' = accounts /\ aSessions' = aSessions
        /\ aCall' = aCall /\ confirmed' = confirmed
    BY <1>2 DEF AA!vars
  <2>2. AccessBase'
    BY <1>i, <2>1 DEF AccessBase, AA!TypeOK, AccessPath
  <2>3. AccessRows' /\ AccessOwned' /\ AccessLinks'
    BY <1>i, <2>1
    DEF AccessRows, AccessAdds, AccessOwned, AccessOwn, AccessLinks, AccessUnconfirmed,
        AA!Credentials, AA!Who
  <2>4. ASSUME NEW r \in Requests PROVE AccessStrips(r)'
    BY <1>i, <2>1 DEF AccessStrips, AccessAdds, AA!Credentials, AA!Who
  <2>5. ASSUME NEW r \in Requests PROVE AccessQuiet(r)'
    BY <1>i, <2>1 DEF AccessQuiet, AccessOut, AA!InFlight, AA!Credentials, AA!Who
  <2>6. ASSUME NEW r \in Requests PROVE AccessReset(r)'
    BY <1>i, <2>1 DEF AccessReset, AccessPast, AA!Credentials
  <2> QED BY <2>2, <2>3, <2>4, <2>5, <2>6 DEF AccessInv
<1> QED BY <1>1, <1>2, <1>i, AccessNext

LEMMA AccessInvHolds == AA!Spec => []AccessInv
<1>1. AA!Init => AccessInv
  BY AccessInit
<1>2. AccessInv /\ [AA!Next]_AA!vars => AccessInv'
  BY AccessStepKeeps
<1> QED BY <1>1, <1>2, PTL DEF AA!Spec

\* Whoever proves the mailbox of an account that was not verified inherits no password and
\* no session from before, whatever else runs and fails; and a provider identity does not
\* join somebody else's password before the owner has confirmed the address.
THEOREM OnePersonsAccountAlways == AllSpec => []OnePersonsAccount
<1>1. ASSUME AccessInv PROVE AA!ProofInheritsNothing
  <2>i. /\ AccessBase /\ AccessRows /\ AccessOwned
        /\ \A r \in Requests : AccessStrips(r) /\ AccessQuiet(r)
    BY <1>1 DEF AccessInv
  <2>p. Past \notin Requests
    BY <2>i, AccessTypes DEF AccessBase
  <2> SUFFICES ASSUME NEW r \in Requests, aCall[r].done = {"strip", "flip"}
               PROVE  /\ aCall[r].had \cap aSessions = {}
                      /\ aCall[r].old \cap {a.id : a \in AA!Credentials(accounts)} = {}
                      /\ aCall[r].quiet =>
                           /\ \A a \in AA!Credentials(accounts) : AA!Who(a.pw) = AA!Who(r)
                           /\ \A m \in aSessions :
                                AA!Who(m) = AA!Who(r) \/ (m # Past /\ AA!Op(m) = "social")
    BY DEF AA!ProofInheritsNothing
  <2>1. "strip" \in aCall[r].done /\ "flip" \in aCall[r].done
    OBVIOUS
  <2>2. /\ aCall[r].had \cap aSessions = {}
        /\ \A a \in AA!Credentials(accounts) : a.id \notin aCall[r].old
    BY <2>i, <2>1 DEF AccessStrips
  <2>3. ASSUME aCall[r].quiet
        PROVE  /\ \A a \in AA!Credentials(accounts) : AA!Who(a.pw) = AA!Who(r)
               /\ \A m \in aSessions : AA!Who(m) = AA!Who(r) \/ (m # Past /\ AA!Op(m) = "social")
    <3>1. /\ AA!Who(r) = "owner"
          /\ \A a \in AA!Credentials(accounts) : AA!Who(a.pw) = "owner"
      BY <2>i, <2>1, <2>3, AccessAlone
    <3>2. \A m \in aSessions : AA!Who(m) = "owner" \/ (m \in Requests /\ aCall[m].op = "social")
      BY <2>i, <2>1, <2>3 DEF AccessQuiet
    <3> QED BY <2>p, <3>1, <3>2 DEF AA!Op
  <2> QED BY <2>2, <2>3
<1>2. ASSUME AccessInv PROVE AA!LinkedToConfirmed
  <2>i. AccessOwned /\ AccessLinks
    BY <1>2 DEF AccessInv
  <2> SUFFICES ASSUME AccessUnconfirmed, NEW a \in accounts, NEW b \in accounts,
                      a.kind = "social", b.kind = "credential", AA!Who(a.id) = "owner"
               PROVE  AA!Who(b.pw) = AA!Who(a.id)
    BY DEF AA!LinkedToConfirmed, AccessUnconfirmed, AA!Vouched
  <2>1. user = "verified" /\ b \in AA!Credentials(accounts)
    BY <2>i DEF AccessLinks, AA!Credentials
  <2>2. AA!Who(b.id) = "owner"
    BY <2>i, <2>1 DEF AccessLinks
  <2> QED BY <2>i, <2>1, <2>2 DEF AccessOwned, AccessOwn
<1>3. AccessInv => OnePersonsAccount
  BY <1>1, <1>2 DEF OnePersonsAccount, AA!OnePersonsAccount
<1> QED BY <1>3, AccessInvHolds, Parts, PTL

\* A reset that was answered leaves no password from before it in any credential row; and
\* where it revokes sessions, one made with an old password belongs to a sign-in it overtook.
THEOREM ResetEndsOldAccessAlways == AllSpec => []ResetEndsOldAccess
<1>1. ASSUME AccessInv PROVE AA!ResetEndsOldAccess
  <2> SUFFICES ASSUME NEW r \in Requests, aCall[r].op \in AccessResets, aCall[r].at = "ok"
               PROVE  /\ \A a \in AA!Credentials(accounts) : a.pw \notin aCall[r].old
                      /\ aDeploy.revoke => \A m \in aSessions \cap Requests :
                           aCall[m].op = "signIn" /\ aCall[m].pw \in aCall[r].old =>
                             m \in aCall[r].racing
    BY DEF AA!ResetEndsOldAccess, AccessResets, AA!Op, AA!At
  <2>1. AccessReset(r)
    BY <1>1 DEF AccessInv
  <2> QED BY <2>1 DEF AccessReset, AccessPast
<1>2. AccessInv => ResetEndsOldAccess
  BY <1>1 DEF ResetEndsOldAccess
<1> QED BY <1>2, AccessInvHolds, Parts, PTL

\* The state of every component has its type, for any constants.
THEOREM AllTypeCorrect == AllSpec => []AllTypeOK
<1> DEFINE Parted == part \in {"SessionStore", "TwoFactor", "OneTimeCodes", "AccountAccess",
                               "UserBans"}
<1>1. AllInit => Parted
  BY DEF AllInit
<1>2. Parted /\ [AllNext]_allVars => Parted'
  BY DEF AllNext, allVars
<1>3. AllSpec => Spec
  <2>1. AllInit => Init
    BY DEF AllInit
  <2>2. [AllNext]_allVars => [Next]_vars
    BY DEF AllNext, allVars
  <2> QED BY <2>1, <2>2, PTL DEF AllSpec, Spec
<1>4. UB!Spec => []UB!TypeOK
  BY BansInitTyped, BansStepTyped, PTL DEF UB!Spec
<1>5. OC!Spec => []OC!TypeOK
  <2>1. OC!TypeOK /\ [OC!Next]_OC!vars => OC!TypeOK'
    BY CodesStepTyped
  <2> QED BY <2>1, CodesInitTyped, PTL DEF OC!Spec
<1>6. FactorInv => TF!TypeOK
  BY DEF FactorInv, FactorBase, FactorTyped
<1>7. AccessInv => AA!TypeOK
  BY DEF AccessInv, AccessBase
<1>8. Parted /\ TypeOK /\ TF!TypeOK /\ OC!TypeOK /\ AA!TypeOK /\ UB!TypeOK => AllTypeOK
  BY DEF AllTypeOK
<1> QED BY <1>1, <1>2, <1>3, <1>4, <1>5, <1>6, <1>7, <1>8, TypeCorrect, FactorInvHolds,
           AccessInvHolds, Parts, PTL DEF AllSpec

=============================================================================
