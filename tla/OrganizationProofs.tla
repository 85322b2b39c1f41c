------------------------- MODULE OrganizationProofs -------------------------
(***************************************************************************)
(* Theorems about Organization, for any requests, users, limits and        *)
(* failures: the state has its type, an invitation is answered once and    *)
(* given back when its accept fails, and the organization keeps an owner,  *)
(* its limit and a team of its members.                                    *)
(***************************************************************************)
EXTENDS Organization, FiniteSetTheorems, TLAPS

-----------------------------------------------------------------------------
(* Where requests are *)

\* The operation that a request at a place is of.
Path(r) == LET c == call[r] IN
  /\ c.at = "idle" <=> c.op = "none"
  /\ c.at \in {"pending", "extend", "cancelOld", "vacancy", "create"} => c.op = "invite"
  /\ c.at = "status" => c.op \in {"reject", "cancel"}
  /\ c.at = "count" => c.op \in {"accept", "addMember"}
  /\ c.at \in {"claim", "active", "release"} => c.op = "accept"
  /\ c.at \in {"team", "teamAdd"} => c.op \in {"accept", "addMember", "addToTeam"}
  /\ c.at = "member" => c.op \in {"accept", "addMember"}
  /\ c.at = "owners" => c.op \in Demotes
  /\ c.at \in {"delete", "teamDelete"} => c.op \in {"removeMember", "leave"}
  /\ c.at = "update" => c.op = "updateRole"
  /\ c.at \in {"listTeam", "dropTeam", "strip"} => c.op = "removeTeam"
  /\ c.at \in {"owners", "delete", "teamDelete", "update"} => c.row # <<>>
  /\ c.at = "teamDelete" => ~deploy.atomic
Base == TypeOK /\ \A r \in Requests : Path(r)

-----------------------------------------------------------------------------
(* The rows of members *)

\* The request may have made a member.
HasJoined(r) ==
  \/ Op(r) \in {"accept", "addMember"} /\ At(r, "ok")
  \/ ~deploy.atomic /\ Op(r) = "accept" /\ call[r].at \in {"active", "release", "rejected", "failed"}

\* A row has the name of who made it, which makes one and does not come back to it.
MembersNamed ==
  /\ \A m, n \in members : m.id = n.id => m = n
  /\ \A m \in members : m.id \in Requests => HasJoined(m.id)
  /\ \A r \in Requests : \A q \in call[r].joined : HasJoined(q)
  /\ \A r \in Requests : call[r].row # <<>> =>
       /\ call[r].row.id \in Requests => HasJoined(call[r].row.id)
       /\ \A m \in members : m.id = call[r].row.id => m.user = call[r].row.user
  /\ IsFiniteSet(members) /\ \A r \in Requests : IsFiniteSet(call[r].joined)

\* Who has counted the members has room for one, but for those that joined since.
Size == Cardinality(members)
Extra(r) == Cardinality(call[r].joined)
Counted(r) ==
  \/ Op(r) \in {"accept", "addMember"} /\ call[r].at \in {"claim", "team", "teamAdd", "member"}
  \/ deploy.atomic /\ At(r, "active")
Room ==
  /\ \A r \in Requests : Counted(r) => Size < deploy.limit + Extra(r)
  /\ \/ Size <= deploy.limit
     \/ \E r \in Requests : /\ call[r].at \notin {"idle", "find", "count"}
                            /\ Size <= deploy.limit + Extra(r)

-----------------------------------------------------------------------------
(* Invitations *)

Held(r) ==
  Op(r) = "accept" /\ call[r].at \in {"team", "teamAdd", "member", "active", "release", "ok"}
Found(r) ==
  \/ call[r].at \in {"extend", "cancelOld", "status"}
  \/ Op(r) = "accept" /\ call[r].at \in {"count", "claim", "team", "teamAdd", "member", "active",
                                         "release", "ok"}
\* An invitation is held by one accept, and nobody makes it pending beside it; one
\* that is accepted is held, or its accept died.
HeldOnce ==
  /\ \A r, q \in Requests : Held(r) /\ Held(q) /\ call[r].inv = call[q].inv => r = q
  /\ \A r \in Requests : Held(r) => invitations[call[r].inv].status # "pending"
  /\ \A r \in Requests : Found(r) => invitations[call[r].inv].status # "none"
  /\ \A r \in Requests : invitations[r].status # "none" => At(r, "ok")
  /\ \A i \in Invitations : invitations[i].status = "accepted" =>
       \E r \in Requests : /\ Op(r) = "accept" /\ call[r].inv = i
                           /\ Held(r) \/ At(r, "failed")

-----------------------------------------------------------------------------
(* Owners *)

Demoting(r) == InFlight(r) /\ Op(r) \in Demotes
\* There is an owner beside the row that r is to change.
Another(r) == \E n \in Owners : n.id # call[r].row.id
OneDemotes == ~raced =>
  /\ Owners # {}
  /\ \A r, q \in Requests : Demoting(r) /\ Demoting(q) => r = q
  /\ \A r \in Requests :
       /\ At(r, "delete") => Another(r)
       /\ At(r, "update") => call[r].role = "owner" \/ Another(r)

-----------------------------------------------------------------------------
(* The team *)

IsMember(u) == \E m \in members : m.user = u
TeamNamed == deploy.atomic /\ ~deploy.manyTeams =>
  /\ \A t \in teamRows :
       /\ t.id \in Requests
       /\ t.user = Target(t.id) /\ call[t.id].at \in {"member", "ok", "failed"}
       /\ call[t.id].at \in {"member", "failed"} => Op(t.id) = "addMember"
       /\ At(t.id, "ok") => IsMember(t.user) \/ t.user \in call[t.id].gone
  /\ \A r \in Requests :
       /\ \A t \in call[r].adds : t.id = r /\ t.user = Target(r)
       /\ Op(r) = "addToTeam" /\ call[r].at \in {"team", "teamAdd"} =>
            IsMember(Target(r)) \/ Target(r) \in call[r].gone

\* Whose fault it is that the invitation i names a team that is gone.
Excused(i) ==
  \E r \in Requests : /\ call[r].beside
                      /\ r = i \/ (Op(r) \in {"accept", "invite"} /\ call[r].inv = i)
FailedRemoval == \E q \in Requests : Op(q) = "removeTeam" /\ At(q, "failed")
\* The removal q has dropped the team, and has yet to strip its invitations.
StillToStrip(q) ==
  Op(q) = "removeTeam" /\ ~deploy.atomic /\ call[q].at \in {"listTeam", "strip"}
\* Requests are beside a removal where they overlap it.
BesideSeen ==
  /\ \A r \in Requests : At(r, "idle") => ~call[r].beside
  /\ \A r \in Requests : Op(r) = "invite" /\ call[r].at \in {"find", "pending"} => call[r].inv = r
  /\ \A r, q \in Requests :
       r # q /\ InFlight(r) /\ InFlight(q) /\ Op(q) = "removeTeam" => call[r].beside
  /\ \A r \in Requests : At(r, "create") /\ deploy.teams /\ ~team => call[r].beside
\* The removal q will not strip what it has not listed: those are excused.
Listed(q) ==
  Op(q) = "removeTeam" /\ call[q].at \in {IF deploy.atomic THEN "dropTeam" ELSE "strip"}
StripsSeen ==
  \A q \in Requests : \A i \in Invitations :
    Listed(q) /\ NamesTeam(i) /\ i \notin call[q].strip => Excused(i)
\* The request has found an invitation that it may make pending or live again.
Accepting == {"count", "claim", "team", "teamAdd", "member", "active", "release"}
Revives(r) == At(r, "extend") \/ (Op(r) = "accept" /\ call[r].at \in Accepting)
RemovalSeen ==
  /\ BesideSeen /\ StripsSeen
  /\ \A i \in Invitations : ~team /\ NamesTeam(i) =>
       Excused(i) \/ FailedRemoval \/ \E q \in Requests : StillToStrip(q)
  /\ \A r \in Requests : Revives(r) /\ ~team /\ invitations[call[r].inv].team =>
       Excused(call[r].inv) \/ FailedRemoval \/ call[r].beside

OrganizationInv ==
  /\ Base /\ MembersNamed /\ Room /\ HeldOnce /\ OneDemotes /\ TeamNamed
  /\ cut \/ RemovalSeen

-----------------------------------------------------------------------------
(* What a step does, without the records it is written with. *)

LEMMA DeployTyped ==
  ASSUME ConstantsOK, deploy \in Deployments
  PROVE  /\ deploy.ops \in [Requests -> SUBSET Operations]
         /\ deploy.actor \in [Requests -> Users] /\ deploy.target \in [Requests -> Users]
         /\ deploy.atomic \in BOOLEAN /\ deploy.members \in [Users -> Roles \cup {"none"}]
         /\ deploy.invited \in Users /\ deploy.teams \in BOOLEAN /\ deploy.limit \in Nat
         /\ deploy.short \in SUBSET Invitations
         /\ Requests \cap Users = {} /\ Past \notin Requests
         /\ \E u \in Users : deploy.members[u] = "owner"
         /\ IsFiniteSet({u \in Users : deploy.members[u] # "none"})
         /\ Cardinality({u \in Users : deploy.members[u] # "none"}) <= deploy.limit
  BY DEF ConstantsOK, Deployment, Invitations

\* The fields of a call after a step of its request.
To(r, pc, i, w, t, a, s, j) ==
  /\ call'[r].at = pc /\ call'[r].inv = i /\ call'[r].row = w /\ call'[r].team = t
  /\ call'[r].adds = a /\ call'[r].strip = s /\ call'[r].joined = j
Goes(r, pc) == LET c == call[r] IN To(r, pc, c.inv, c.row, c.team, c.adds, c.strip, c.joined)
Keeps(r) ==
  /\ call'[r].op = call[r].op /\ call'[r].role = call[r].role
  /\ call'[r].gone = call[r].gone /\ call'[r].beside = call[r].beside
Typed(c) ==
  /\ c.at \in {"idle"} \cup Steps \cup Ended /\ c.inv \in Invitations
  /\ c.row \in MemberRow \cup {<<>>} /\ c.team \in BOOLEAN /\ c.adds \in SUBSET TeamRow
  /\ c.strip \in SUBSET Invitations /\ c.joined \in SUBSET Requests
Alone(r) ==
  /\ \A q \in Requests : q # r => call'[q] = call[q]
  /\ Keeps(r)
  /\ Typed(call'[r]) => call' \in [Requests -> Call]

\* What a step makes of a call, field by field.
LEMMA Fields ==
  ASSUME TypeOK, NEW r \in Requests, NEW pc
  PROVE  LET c == call[r] IN
         /\ Goto(r, pc) => Alone(r) /\ Goes(r, pc)
         /\ \A w : Become(r, [call[r] EXCEPT !.at = pc, !.row = w]) =>
              Alone(r) /\ To(r, pc, c.inv, w, c.team, c.adds, c.strip, c.joined)
         /\ \A i : Become(r, [call[r] EXCEPT !.at = pc, !.inv = i]) =>
              Alone(r) /\ To(r, pc, i, c.row, c.team, c.adds, c.strip, c.joined)
         /\ \A t : Become(r, [call[r] EXCEPT !.at = pc, !.team = t]) =>
              Alone(r) /\ To(r, pc, c.inv, c.row, t, c.adds, c.strip, c.joined)
         /\ \A a : Become(r, [call[r] EXCEPT !.at = pc, !.adds = a]) =>
              Alone(r) /\ To(r, pc, c.inv, c.row, c.team, a, c.strip, c.joined)
         /\ \A s : Become(r, [call[r] EXCEPT !.at = pc, !.strip = s]) =>
              Alone(r) /\ To(r, pc, c.inv, c.row, c.team, c.adds, s, c.joined)
         /\ \A j : Become(r, [call[r] EXCEPT !.at = pc, !.joined = j]) =>
              Alone(r) /\ To(r, pc, c.inv, c.row, c.team, c.adds, c.strip, j)
         /\ \A s : Become(r, [call[r] EXCEPT !.strip = s]) =>
              Alone(r) /\ To(r, c.at, c.inv, c.row, c.team, c.adds, s, c.joined)
<1> DEFINE c == call[r]
           D(x, i, w, t, a, s, j) ==
             [op |-> c.op, at |-> x, inv |-> i, row |-> w, role |-> c.role, team |-> t,
              adds |-> a, strip |-> s, joined |-> j, gone |-> c.gone, beside |-> c.beside]
           g == [c EXCEPT !.at = pc]
<1>0. call \in [Requests -> Call] /\ c \in Call
  BY DEF TypeOK
<1>1. ASSUME NEW x, NEW i, NEW w, NEW t, NEW a, NEW s, NEW j,
             Become(r, D(x, i, w, t, a, s, j))
      PROVE  Alone(r) /\ To(r, x, i, w, t, a, s, j)
  <2> DEFINE d == D(x, i, w, t, a, s, j)
  <2>1. /\ d.op = c.op /\ d.at = x /\ d.inv = i /\ d.row = w /\ d.role = c.role /\ d.team = t
        /\ d.adds = a /\ d.strip = s /\ d.joined = j /\ d.gone = c.gone /\ d.beside = c.beside
    OBVIOUS
  <2>2. Typed(d) => d \in Call
    BY <1>0 DEF Typed, Call
  <2>3. call' = [call EXCEPT ![r] = d]
    BY <1>1 DEF Become
  <2> HIDE DEF d, D
  <2>4. call'[r] = d /\ \A q \in Requests : q # r => call'[q] = call[q]
    BY <1>0, <2>3
  <2>5. d \in Call => call' \in [Requests -> Call]
    BY <1>0, <2>3
  <2> QED BY <2>1, <2>2, <2>4, <2>5 DEF Alone, Keeps, To
<1>2. g = D(pc, c.inv, c.row, c.team, c.adds, c.strip, c.joined)
  BY <1>0 DEF Call
<1>3. ASSUME NEW w
      PROVE  [c EXCEPT !.at = pc, !.row = w] =
               D(pc, c.inv, w, c.team, c.adds, c.strip, c.joined)
  <2>1. [c EXCEPT !.at = pc, !.row = w] = [g EXCEPT !.row = w]
    BY <1>0 DEF Call
  <2> HIDE DEF g
  <2> QED BY <1>2, <2>1
<1>4. ASSUME NEW i
      PROVE  [c EXCEPT !.at = pc, !.inv = i] =
               D(pc, i, c.row, c.team, c.adds, c.strip, c.joined)
  <2>1. [c EXCEPT !.at = pc, !.inv = i] = [g EXCEPT !.inv = i]
    BY <1>0 DEF Call
  <2> HIDE DEF g
  <2> QED BY <1>2, <2>1
<1>5. ASSUME NEW t
      PROVE  [c EXCEPT !.at = pc, !.team = t] =
               D(pc, c.inv, c.row, t, c.adds, c.strip, c.joined)
  <2>1. [c EXCEPT !.at = pc, !.team = t] = [g EXCEPT !.team = t]
    BY <1>0 DEF Call
  <2> HIDE DEF g
  <2> QED BY <1>2, <2>1
<1>6. ASSUME NEW a
      PROVE  [c EXCEPT !.at = pc, !.adds = a] =
               D(pc, c.inv, c.row, c.team, a, c.strip, c.joined)
  <2>1. [c EXCEPT !.at = pc, !.adds = a] = [g EXCEPT !.adds = a]
    BY <1>0 DEF Call
  <2> HIDE DEF g
  <2> QED BY <1>2, <2>1
<1>7. ASSUME NEW s
      PROVE  [c EXCEPT !.at = pc, !.strip = s] =
               D(pc, c.inv, c.row, c.team, c.adds, s, c.joined)
  <2>1. [c EXCEPT !.at = pc, !.strip = s] = [g EXCEPT !.strip = s]
    BY <1>0 DEF Call
  <2> HIDE DEF g
  <2> QED BY <1>2, <2>1
<1>8. ASSUME NEW j
      PROVE  [c EXCEPT !.at = pc, !.joined = j] =
               D(pc, c.inv, c.row, c.team, c.adds, c.strip, j)
  <2>1. [c EXCEPT !.at = pc, !.joined = j] = [g EXCEPT !.joined = j]
    BY <1>0 DEF Call
  <2> HIDE DEF g
  <2> QED BY <1>2, <2>1
<1>9. ASSUME NEW s
      PROVE  [c EXCEPT !.strip = s] = D(c.at, c.inv, c.row, c.team, c.adds, s, c.joined)
  BY <1>0 DEF Call
<1> HIDE DEF D
<1>10. Goto(r, pc) => Alone(r) /\ Goes(r, pc)
  BY <1>1, <1>2 DEF Goto, Goes
<1>11. ASSUME NEW w, Become(r, [call[r] EXCEPT !.at = pc, !.row = w])
       PROVE  Alone(r) /\ To(r, pc, c.inv, w, c.team, c.adds, c.strip, c.joined)
  <2>1. Become(r, D(pc, c.inv, w, c.team, c.adds, c.strip, c.joined))
    BY <1>3, <1>11
  <2> QED BY <1>1, <2>1
<1>12. ASSUME NEW i, Become(r, [call[r] EXCEPT !.at = pc, !.inv = i])
       PROVE  Alone(r) /\ To(r, pc, i, c.row, c.team, c.adds, c.strip, c.joined)
  <2>1. Become(r, D(pc, i, c.row, c.team, c.adds, c.strip, c.joined))
    BY <1>4, <1>12
  <2> QED BY <1>1, <2>1
<1>13. ASSUME NEW t, Become(r, [call[r] EXCEPT !.at = pc, !.team = t])
       PROVE  Alone(r) /\ To(r, pc, c.inv, c.row, t, c.adds, c.strip, c.joined)
  <2>1. Become(r, D(pc, c.inv, c.row, t, c.adds, c.strip, c.joined))
    BY <1>5, <1>13
  <2> QED BY <1>1, <2>1
<1>14. ASSUME NEW a, Become(r, [call[r] EXCEPT !.at = pc, !.adds = a])
       PROVE  Alone(r) /\ To(r, pc, c.inv, c.row, c.team, a, c.strip, c.joined)
  <2>1. Become(r, D(pc, c.inv, c.row, c.team, a, c.strip, c.joined))
    BY <1>6, <1>14
  <2> QED BY <1>1, <2>1
<1>15. ASSUME NEW s, Become(r, [call[r] EXCEPT !.at = pc, !.strip = s])
       PROVE  Alone(r) /\ To(r, pc, c.inv, c.row, c.team, c.adds, s, c.joined)
  <2>1. Become(r, D(pc, c.inv, c.row, c.team, c.adds, s, c.joined))
    BY <1>7, <1>15
  <2> QED BY <1>1, <2>1
<1>16. ASSUME NEW j, Become(r, [call[r] EXCEPT !.at = pc, !.joined = j])
       PROVE  Alone(r) /\ To(r, pc, c.inv, c.row, c.team, c.adds, c.strip, j)
  <2>1. Become(r, D(pc, c.inv, c.row, c.team, c.adds, c.strip, j))
    BY <1>8, <1>16
  <2> QED BY <1>1, <2>1
<1>17. ASSUME NEW s, Become(r, [call[r] EXCEPT !.strip = s])
       PROVE  Alone(r) /\ To(r, c.at, c.inv, c.row, c.team, c.adds, s, c.joined)
  <2>1. Become(r, D(c.at, c.inv, c.row, c.team, c.adds, s, c.joined))
    BY <1>9, <1>17
  <2> QED BY <1>1, <2>1
<1> QED BY <1>10, <1>11, <1>12, <1>13, <1>14, <1>15, <1>16, <1>17

-----------------------------------------------------------------------------
(* The steps *)

ReadsOnly == UNCHANGED <<deploy, members, invitations, team, teamRows, raced>>
\* The invitation i gets a status, is live or not, and names the team or not.
Marks(i, status, live, named) ==
  /\ i \in Invitations /\ invitations' \in [Invitations -> Invitation]
  /\ \A j \in Invitations : j # i => invitations'[j] = invitations[j]
  /\ invitations'[i].status = status /\ invitations'[i].live = live
  /\ invitations'[i].team = named
MarksOnly(i, status, live, named) ==
  Marks(i, status, live, named) /\ UNCHANGED <<deploy, members, team, teamRows, raced>>

Finds(r) == LET c == call[r] IN
  /\ c.at = "find" /\ ReadsOnly /\ Alone(r)
  /\ \/ Goes(r, "rejected")
     \/ \E m, t \in members, pc \in {"rejected", "owners", "delete", "update"} :
          /\ To(r, pc, c.inv, t, c.team, c.adds, c.strip, c.joined) /\ c.op \in Demotes
          /\ pc = "delete" => c.op \in {"leave", "removeMember"} /\ t.role # "owner"
          /\ pc = "update" => c.op = "updateRole" /\ m.role = "owner" /\ m # t
     \/ /\ c.op = "accept" /\ Goes(r, "count")
        /\ invitations[c.inv].status = "pending" /\ invitations[c.inv].live
     \/ c.op = "reject" /\ Goes(r, "status") /\ invitations[c.inv].status = "pending"
     \/ c.op = "cancel" /\ Goes(r, "status") /\ invitations[c.inv].status # "none"
     \/ c.op = "invite" /\ Goes(r, "pending")
     \/ c.op = "addMember" /\ Goes(r, "count")
     \/ c.op = "addToTeam" /\ Goes(r, "team") /\ IsMember(Target(r))
     \/ c.op = "removeTeam" /\ Goes(r, IF deploy.atomic THEN "listTeam" ELSE "dropTeam")
Looks(r) == LET c == call[r] IN
  /\ c.at = "pending" /\ ReadsOnly /\ Alone(r)
  /\ \/ Goes(r, "vacancy")
     \/ \E i \in Invitations, pc \in {"extend", "cancelOld", "rejected"} :
          /\ invitations[i].status = "pending" /\ invitations[i].live
          /\ To(r, pc, i, c.row, c.team, c.adds, c.strip, c.joined)
Vacates(r) ==
  /\ At(r, "vacancy") /\ ReadsOnly /\ Alone(r)
  /\ Goes(r, "rejected") \/ (Goes(r, "create") /\ (deploy.teams => team))
\* inviteMember, rejectInvitation and cancelInvitation write an invitation.
Answers(r) == LET c == call[r]
                  i == invitations[c.inv]
              IN
  /\ Alone(r)
  /\ \/ /\ c.at = "extend" /\ Goes(r, "ok")
        /\ MarksOnly(c.inv, i.status, TRUE, i.team)
     \/ /\ c.at = "cancelOld" /\ Goes(r, "vacancy")
        /\ MarksOnly(c.inv, "canceled", i.live, i.team)
     \/ /\ c.at = "create" /\ Goes(r, "ok")
        /\ MarksOnly(r, "pending", TRUE, deploy.teams)
     \/ /\ c.at = "status" /\ Goes(r, "ok")
        /\ \E status \in {"rejected", "canceled"} : MarksOnly(c.inv, status, i.live, i.team)
Counts(r) == LET c == call[r] IN
  /\ c.at = "count" /\ ReadsOnly /\ Alone(r)
  /\ \E pc \in {"rejected", "claim", "team", "member"} :
       /\ To(r, pc, c.inv, c.row, c.team, c.adds, c.strip, {})
       /\ pc # "rejected" => ~(Cardinality(members) >= deploy.limit)
       /\ pc = "claim" => c.op = "accept"
       /\ pc \in {"team", "member"} => c.op = "addMember"
Claims(r) == LET c == call[r]
                 i == invitations[c.inv]
             IN
  /\ c.at = "claim" /\ Alone(r)
  /\ \/ ReadsOnly /\ Goes(r, "rejected")
     \/ /\ i.status = "pending" /\ MarksOnly(c.inv, "accepted", i.live, i.team)
        /\ \E pc \in {"team", "member"} :
             To(r, pc, c.inv, c.row, i.team, c.adds, c.strip, c.joined)
Teams(r) == LET op == Op(r) IN
  /\ At(r, "team") /\ ReadsOnly /\ Alone(r)
  /\ \E pc \in {"release", "rejected", "teamAdd", "ok", "member"} :
       /\ Goes(r, pc)
       /\ pc = "release" => op = "accept"
       /\ pc = "rejected" => op # "accept"
       /\ pc = "ok" => op = "addToTeam" /\ \E t \in teamRows : t.user = Target(r)
       /\ pc = "member" => op # "addToTeam"
NewTeamRow(r) == [id |-> r, user |-> Target(r)]
TeamAdds(r) == LET c == call[r] IN
  /\ c.at = "teamAdd" /\ Alone(r)
  /\ UNCHANGED <<deploy, members, invitations, team, raced>>
  /\ \E adds \in {{}, {NewTeamRow(r)}}, pc \in {"ok", "member"} :
       /\ To(r, pc, c.inv, c.row, c.team, adds, c.strip, c.joined)
       /\ pc = "ok" <=> c.op = "addToTeam"
       /\ IF deploy.atomic /\ c.op = "accept"
            THEN teamRows' = teamRows ELSE teamRows' = teamRows \cup {NewTeamRow(r)} /\ adds = {}
NewMember(r) == [id |-> r, user |-> Target(r), role |-> "member"]
\* The request makes a member, and those in flight can see it.
Joins(r, pc) == LET c == call[r] IN
  /\ members' = members \cup {NewMember(r)}
  /\ To(r, pc, c.inv, c.row, c.team, {}, c.strip, c.joined) /\ Keeps(r)
  /\ \A q \in Requests : q # r => LET d == call[q] IN
       /\ Keeps(q) /\ call'[q].at = d.at
       /\ To(q, d.at, d.inv, d.row, d.team, d.adds, d.strip,
             IF InFlight(q) THEN d.joined \cup {r} ELSE d.joined)
  /\ Typed(call'[r]) => call' \in [Requests -> Call]
Enters(r) == LET c == call[r] IN
  /\ UNCHANGED <<deploy, invitations, team, raced>>
  /\ \/ c.at = "member" /\ c.op = "addMember" /\ Joins(r, "ok") /\ teamRows' = teamRows
     \/ c.at = "member" /\ c.op = "accept" /\ ~deploy.atomic /\ Joins(r, "active") /\ teamRows' = teamRows
     \/ /\ c.at = "member" /\ c.op = "accept" /\ deploy.atomic /\ Goes(r, "active") /\ Alone(r)
        /\ UNCHANGED <<members, teamRows>>
     \/ c.at = "active" /\ deploy.atomic /\ Joins(r, "ok") /\ teamRows' = teamRows \cup c.adds
     \/ /\ c.at = "active" /\ ~deploy.atomic /\ Goes(r, "ok") /\ Alone(r)
        /\ UNCHANGED <<members, teamRows>>
Releases(r) == LET c == call[r]
                   i == invitations[c.inv]
               IN
  /\ c.at = "release" /\ Alone(r)
  /\ MarksOnly(c.inv, "pending", i.live, i.team)
  /\ To(r, "rejected", c.inv, c.row, c.team, {}, c.strip, c.joined)
CountsOwners(r) == LET c == call[r] IN
  /\ c.at = "owners" /\ ReadsOnly /\ Alone(r)
  /\ \E pc \in {"rejected", "update", "delete"} :
       /\ Goes(r, pc)
       /\ pc = "rejected" \/ (c.op = "updateRole" /\ c.role = "owner") \/ ~(Cardinality(Owners) <= 1)
       /\ pc = "update" => c.op = "updateRole"
       /\ pc = "delete" => c.op \in {"removeMember", "leave"}
\* The request takes members out, and those in flight can see it.
TakesOut(r, pc) ==
  /\ Goes(r, pc) /\ Keeps(r)
  /\ \A q \in Requests : q # r => LET d == call[q] IN
       /\ To(q, d.at, d.inv, d.row, d.team, d.adds, d.strip, d.joined)
       /\ call'[q].op = d.op /\ call'[q].role = d.role /\ call'[q].beside = d.beside
       /\ call'[q].gone = IF InFlight(q) THEN d.gone \cup {call[r].row.user} ELSE d.gone
  /\ call' \in [Requests -> Call]
Deletes(r) == LET w == call[r].row IN
  /\ At(r, "delete") /\ UNCHANGED <<deploy, invitations, team, raced>>
  /\ members' = {m \in members : m.id # w.id}
  /\ \/ /\ deploy.atomic /\ TakesOut(r, "ok") /\ teamRows' \subseteq teamRows
        /\ ~deploy.manyTeams => \A t \in teamRows' : t.user # w.user
     \/ ~deploy.atomic /\ TakesOut(r, "teamDelete") /\ teamRows' = teamRows
TeamDeletes(r) ==
  /\ At(r, "teamDelete") /\ UNCHANGED <<deploy, members, invitations, team, raced>>
  /\ teamRows' \subseteq teamRows /\ Alone(r) /\ Goes(r, "ok")
WithRole(m, role) == [id |-> m.id, user |-> m.user, role |-> role]
UpdatesRole(r) == LET c == call[r] IN
  /\ c.at = "update" /\ UNCHANGED <<deploy, invitations, team, teamRows, raced>>
  /\ Alone(r)
  /\ members' = {WithRole(m, IF m.id = c.row.id THEN c.role ELSE m.role) : m \in members}
  /\ \E pc \in {"ok", "rejected"} : Goes(r, pc)
ListsTeam(r) == LET c == call[r] IN
  /\ c.at = "listTeam" /\ ReadsOnly /\ Alone(r)
  /\ \E s \in SUBSET Invitations :
       /\ To(r, IF deploy.atomic THEN "dropTeam" ELSE "strip", c.inv, c.row, c.team, c.adds, s,
             c.joined)
       /\ cut' \/ s = {i \in Invitations : NamesTeam(i)}
\* Invitations that name the team may no longer do so.
Strips(is) ==
  /\ invitations' \in [Invitations -> Invitation]
  /\ \A i \in Invitations :
       /\ invitations'[i].status = invitations[i].status
       /\ invitations'[i].live = invitations[i].live
       /\ invitations'[i].team <=> invitations[i].team /\ i \notin is
DropsTeam(r) ==
  /\ At(r, "dropTeam") /\ Alone(r) /\ UNCHANGED <<deploy, members, raced>>
  /\ team' = FALSE /\ teamRows' = {}
  /\ \/ deploy.atomic /\ Goes(r, "ok") /\ Strips(call[r].strip)
     \/ ~deploy.atomic /\ Goes(r, "listTeam") /\ invitations' = invitations
StripsTeam(r) == LET c == call[r] IN
  /\ c.at = "strip" /\ Alone(r) /\ UNCHANGED <<deploy, members, team, teamRows, raced>>
  /\ \/ c.strip = {} /\ Goes(r, "ok") /\ invitations' = invitations
     \/ \E i \in c.strip :
          /\ Strips({i})
          /\ To(r, "strip", c.inv, c.row, c.team, c.adds, c.strip \ {i}, c.joined)
Fails(r) == LET c == call[r] IN
  /\ InFlight(r) /\ ReadsOnly /\ Alone(r)
  /\ \E pc \in {"failed", "release"} :
       /\ To(r, pc, c.inv, c.row, c.team, {}, c.strip, c.joined)
       /\ pc = "release" => c.op = "accept" /\ c.at \in {"team", "teamAdd", "member", "active"}
Starts(r, op) ==
  /\ At(r, "idle") /\ UNCHANGED <<deploy, members, invitations, team, teamRows>>
  /\ op \in deploy.ops[r] /\ call' \in [Requests -> Call]
  /\ \A q \in Requests : q # r => LET d == call[q] IN
       /\ To(q, d.at, d.inv, d.row, d.team, d.adds, d.strip, d.joined)
       /\ call'[q].op = d.op /\ call'[q].role = d.role /\ call'[q].gone = d.gone
       /\ call'[q].beside <=> d.beside \/ (InFlight(q) /\ op = "removeTeam")
  /\ call'[r].op = op
  /\ \E i \in Invitations :
       /\ op \in {"accept", "reject", "cancel"} \/ i = r
       /\ To(r, "find", i, <<>>, FALSE, {}, {}, {})
  /\ call'[r].gone = {}
  /\ call'[r].beside <=> \E p \in Requests : InFlight(p) /\ Op(p) = "removeTeam"
  /\ raced' = (raced \/ (op \in Demotes /\ \E q \in Requests : Demoting(q)))
Expires(i) ==
  /\ UNCHANGED <<deploy, members, team, teamRows, call, raced>>
  /\ Marks(i, invitations[i].status, FALSE, invitations[i].team)

Does(r) ==
  \/ Finds(r) \/ Looks(r) \/ Vacates(r) \/ Answers(r) \/ Counts(r) \/ Claims(r) \/ Teams(r)
  \/ TeamAdds(r) \/ Enters(r) \/ Releases(r) \/ CountsOwners(r) \/ Deletes(r) \/ TeamDeletes(r)
  \/ UpdatesRole(r) \/ ListsTeam(r) \/ DropsTeam(r) \/ StripsTeam(r) \/ Fails(r)
  \/ \E op \in Operations : Starts(r, op)
Moves ==
  \/ \E r \in Requests : Does(r)
  \/ \E i \in Invitations : Expires(i)
  \/ UNCHANGED vars

LEMMA Types ==
  ASSUME TypeOK, NEW r \in Requests
  PROVE  LET c == call[r] IN
         /\ c \in Call /\ c.op \in Operations \cup {"none"}
         /\ c.at \in {"idle"} \cup Steps \cup Ended /\ c.inv \in Invitations
         /\ c.row \in MemberRow \cup {<<>>} /\ c.role \in Roles /\ c.team \in BOOLEAN
         /\ c.adds \in SUBSET TeamRow /\ c.strip \in SUBSET Invitations
         /\ c.joined \in SUBSET Requests /\ c.gone \in SUBSET Users /\ c.beside \in BOOLEAN
         /\ Typed(c)
<1>1. call[r] \in Call
  BY DEF TypeOK
<1> QED BY <1>1 DEF Call, Typed

LEMMA Placed ==
  ASSUME Base, NEW r \in Requests
  PROVE  Op(r) = call[r].op /\ (At(r, "idle") <=> call[r].op = "none") /\ Path(r)
  BY DEF Base, Path, At, Op

LEMMA Marked ==
  ASSUME TypeOK, NEW i \in Invitations
  PROVE  LET v == invitations[i] IN
         /\ v \in Invitation
         /\ \A s \in {"none", "pending", "accepted", "rejected", "canceled"} :
              invitations' = [invitations EXCEPT ![i].status = s] => Marks(i, s, v.live, v.team)
         /\ \A l \in BOOLEAN :
              invitations' = [invitations EXCEPT ![i].live = l] => Marks(i, v.status, l, v.team)
<1> DEFINE v == invitations[i]
<1>1. invitations \in [Invitations -> Invitation] /\ v \in Invitation
  BY DEF TypeOK
<1>2. ASSUME NEW x \in Invitation, invitations' = [invitations EXCEPT ![i] = x]
      PROVE  Marks(i, x.status, x.live, x.team)
  <2>1. invitations'[i] = x /\ \A j \in Invitations : j # i => invitations'[j] = invitations[j]
    BY <1>1, <1>2
  <2>2. invitations' \in [Invitations -> Invitation]
    BY <1>1, <1>2
  <2> QED BY <2>1, <2>2 DEF Marks
<1>3. ASSUME NEW s \in {"none", "pending", "accepted", "rejected", "canceled"},
             invitations' = [invitations EXCEPT ![i].status = s]
      PROVE  Marks(i, s, v.live, v.team)
  <2> DEFINE x == [v EXCEPT !.status = s]
  <2>1. x \in Invitation /\ x.status = s /\ x.live = v.live /\ x.team = v.team
    BY <1>1 DEF Invitation
  <2>2. invitations' = [invitations EXCEPT ![i] = x]
    BY <1>3
  <2> HIDE DEF x
  <2> QED BY <1>2, <2>1, <2>2
<1>4. ASSUME NEW l \in BOOLEAN, invitations' = [invitations EXCEPT ![i].live = l]
      PROVE  Marks(i, v.status, l, v.team)
  <2> DEFINE x == [v EXCEPT !.live = l]
  <2>1. x \in Invitation /\ x.status = v.status /\ x.live = l /\ x.team = v.team
    BY <1>1 DEF Invitation
  <2>2. invitations' = [invitations EXCEPT ![i] = x]
    BY <1>4
  <2> HIDE DEF x
  <2> QED BY <1>2, <2>1, <2>2
<1> QED BY <1>1, <1>3, <1>4

\* What a request reads first.
LEMMA FindDoes ==
  ASSUME ConstantsOK, Base, NEW r \in Requests, Find(r)
  PROVE  Finds(r)
<1> DEFINE c == call[r]
<1>t. TypeOK
  BY DEF Base
<1>0. c.at = "find" /\ ReadsOnly /\ c.op \in Operations
  BY <1>t, Types, Placed DEF Find, At, ReadsOnly, rows
<1>1. CASE c.op \in Demotes
  <2>1. CASE Goto(r, "rejected")
    BY <1>0, <1>t, <2>1, Fields DEF Finds
  <2>2. CASE ~Goto(r, "rejected")
    <3>1. PICK m \in RowsOf(Actor(r)) :
            \E t \in IF Op(r) = "leave" THEN {m} ELSE RowsOf(Target(r)) :
               Become(r, [call[r] EXCEPT !.at = Change(r, m, t), !.row = t])
      BY <1>1, <2>2 DEF Find, FindRow, Op
    <3>2. PICK t \in IF Op(r) = "leave" THEN {m} ELSE RowsOf(Target(r)) :
               Become(r, [call[r] EXCEPT !.at = Change(r, m, t), !.row = t])
      BY <3>1
    <3> DEFINE pc == Change(r, m, t)
    <3>3. m \in members /\ t \in members
      BY <3>1, <3>2 DEF RowsOf
    <3>4. /\ pc \in {"rejected", "owners", "delete", "update"}
          /\ pc = "delete" => c.op \in {"leave", "removeMember"} /\ t.role # "owner"
          /\ pc = "update" => c.op = "updateRole" /\ m.role = "owner" /\ m # t
      <4>1. CASE c.op = "leave"
        <5>1. t = m /\ pc = IF m.role = "owner" THEN "owners" ELSE "delete"
          BY <3>2, <4>1 DEF Change, Op
        <5> QED BY <4>1, <5>1
      <4>2. CASE c.op = "removeMember"
        <5>1. pc = IF m.role # "owner" THEN "rejected"
                   ELSE IF t.role = "owner" THEN "owners" ELSE "delete"
          BY <4>2 DEF Change, Op
        <5> QED BY <4>2, <5>1
      <4>3. CASE c.op = "updateRole"
        <5>1. pc = IF m.role # "owner" THEN "rejected" ELSE IF m = t THEN "owners" ELSE "update"
          BY <4>3 DEF Change, Op
        <5> QED BY <4>3, <5>1
      <4> QED BY <1>1, <4>1, <4>2, <4>3 DEF Demotes
    <3> HIDE DEF pc
    <3>5. Alone(r) /\ To(r, pc, c.inv, t, c.team, c.adds, c.strip, c.joined)
      BY <1>t, <3>2, Fields DEF pc
    <3> QED BY <1>0, <1>1, <3>3, <3>4, <3>5 DEF Finds
  <2> QED BY <2>1, <2>2
<1>2. CASE c.op \notin Demotes
  <2> DEFINE pc == AfterFind(r)
             i == invitations[c.inv]
  <2>1. Goto(r, pc)
    BY <1>2 DEF Find, Op
  <2> HIDE DEF pc
  <2>2. Alone(r) /\ Goes(r, pc)
    BY <1>t, <2>1, Fields
  <2>3. CASE pc = "rejected"
    BY <1>0, <2>2, <2>3 DEF Finds
  <2>4. CASE pc # "rejected"
    <3>1. CASE c.op = "accept"
      <4>1. pc = IF i.status = "pending" /\ i.user = Actor(r) /\ i.live THEN "count" ELSE "rejected"
        BY <3>1 DEF pc, AfterFind, Op
      <4> QED BY <1>0, <2>2, <2>4, <3>1, <4>1 DEF Finds
    <3>2. CASE c.op = "reject"
      <4>1. pc = IF i.status = "pending" /\ i.user = Actor(r) THEN "status" ELSE "rejected"
        BY <3>2 DEF pc, AfterFind, Op
      <4> QED BY <1>0, <2>2, <2>4, <3>2, <4>1 DEF Finds
    <3>3. CASE c.op = "cancel"
      <4>1. pc = IF i.status # "none" /\ Permitted(r) THEN "status" ELSE "rejected"
        BY <3>3 DEF pc, AfterFind, Op
      <4> QED BY <1>0, <2>2, <2>4, <3>3, <4>1 DEF Finds
    <3>4. CASE c.op = "invite"
      <4>1. pc \in {"pending", "rejected"}
        BY <3>4 DEF pc, AfterFind, Op
      <4> QED BY <1>0, <2>2, <2>4, <3>4, <4>1 DEF Finds
    <3>5. CASE c.op = "addMember"
      <4>1. pc \in {"count", "rejected"}
        BY <3>5 DEF pc, AfterFind, Op
      <4> QED BY <1>0, <2>2, <2>4, <3>5, <4>1 DEF Finds
    <3>6. CASE c.op = "addToTeam"
      <4>1. pc = IF Permitted(r) /\ RowsOf(Target(r)) # {} /\ team THEN "team" ELSE "rejected"
        BY <3>6 DEF pc, AfterFind, Op
      <4>2. IsMember(Target(r))
        BY <2>4, <4>1 DEF IsMember, RowsOf
      <4> QED BY <1>0, <2>2, <2>4, <3>6, <4>1, <4>2 DEF Finds
    <3>7. CASE c.op = "removeTeam"
      <4>1. pc = IF ~Permitted(r) \/ ~team THEN "rejected"
                 ELSE IF deploy.atomic THEN "listTeam" ELSE "dropTeam"
        BY <3>7 DEF pc, AfterFind, Op
      <4>2. pc = IF deploy.atomic THEN "listTeam" ELSE "dropTeam"
        BY <2>4, <4>1
      <4> QED BY <1>0, <2>2, <3>7, <4>2 DEF Finds
    <3> QED BY <1>0, <1>2, <3>1, <3>2, <3>3, <3>4, <3>5, <3>6, <3>7 DEF Operations, Demotes
  <2> QED BY <2>3, <2>4
<1> QED BY <1>1, <1>2

\* inviteMember, rejectInvitation, cancelInvitation.
LEMMA InviteDoes ==
  ASSUME ConstantsOK, Base, NEW r \in Requests
  PROVE  /\ LookPending(r) => Looks(r)
         /\ Vacancy(r) => Vacates(r)
         /\ Extend(r) \/ CancelOld(r) \/ Create(r) \/ Status(r) => Answers(r)
<1> DEFINE c == call[r]
           i == invitations[c.inv]
<1>t. TypeOK /\ c.inv \in Invitations /\ r \in Invitations /\ invitations \in [Invitations -> Invitation]
  BY Types DEF Base, Invitations, TypeOK
<1>i. i \in Invitation
  BY <1>t
<1>d. deploy.teams \in BOOLEAN /\ Target(r) \in Users
  BY <1>t, DeployTyped DEF TypeOK, Target, Actor
<1>1. ASSUME LookPending(r) PROVE Looks(r)
  <2>1. c.at = "pending" /\ ReadsOnly
    BY <1>1 DEF LookPending, At, ReadsOnly, rows
  <2>2. CASE Goto(r, "vacancy")
    BY <1>t, <2>1, <2>2, Fields DEF Looks
  <2>3. CASE ~Goto(r, "vacancy")
    <3> DEFINE S == PendingOf({Target(r)})
    <3>0. PICK T \in Page(S) :
            \E n \in Live(T) :
            \E next \in {"extend", IF deploy.cancelOld THEN "cancelOld" ELSE "rejected"} :
              Become(r, [call[r] EXCEPT !.at = next, !.inv = n])
      BY <1>1, <2>3 DEF LookPending
    <3>1. PICK n \in Live(T) :
            \E next \in {"extend", IF deploy.cancelOld THEN "cancelOld" ELSE "rejected"} :
              Become(r, [call[r] EXCEPT !.at = next, !.inv = n])
      BY <3>0
    <3>2. PICK pc \in {"extend", "cancelOld", "rejected"} :
              Become(r, [call[r] EXCEPT !.at = pc, !.inv = n])
      BY <3>1
    <3>3. n \in Invitations /\ invitations[n].status = "pending" /\ invitations[n].live
      <4>1. T \subseteq S
        BY DEF Page
      <4> QED BY <4>1 DEF Live, PendingOf
    <3>4. Alone(r) /\ To(r, pc, n, c.row, c.team, c.adds, c.strip, c.joined)
      BY <1>t, <3>2, Fields
    <3> QED BY <2>1, <3>3, <3>4 DEF Looks
  <2> QED BY <2>2, <2>3
<1>2. ASSUME Vacancy(r) PROVE Vacates(r)
  <2>1. At(r, "vacancy") /\ ReadsOnly
    BY <1>2 DEF Vacancy, ReadsOnly, rows
  <2>2. Goto(r, "rejected") \/ (Goto(r, "create") /\ (deploy.teams => team))
    BY <1>2, <1>d DEF Vacancy
  <2> QED BY <1>t, <2>1, <2>2, Fields DEF Vacates
<1>3. ASSUME Extend(r) PROVE Answers(r)
  <2>1. Alone(r) /\ Goes(r, "ok")
    BY <1>t, <1>3, Fields DEF Extend
  <2>2. Marks(c.inv, i.status, TRUE, i.team)
    BY <1>t, <1>3, Marked DEF Extend
  <2> QED BY <1>3, <2>1, <2>2 DEF Extend, Answers, MarksOnly, At
<1>4. ASSUME CancelOld(r) PROVE Answers(r)
  <2>1. Alone(r) /\ Goes(r, "vacancy")
    BY <1>t, <1>4, Fields DEF CancelOld
  <2>2. Marks(c.inv, "canceled", i.live, i.team)
    BY <1>t, <1>4, Marked DEF CancelOld
  <2> QED BY <1>4, <2>1, <2>2 DEF CancelOld, Answers, MarksOnly, At
<1>5. ASSUME Create(r) PROVE Answers(r)
  <2> DEFINE x == [status |-> "pending", user |-> Target(r), team |-> deploy.teams, live |-> TRUE]
  <2>1. Alone(r) /\ Goes(r, "ok")
    BY <1>t, <1>5, Fields DEF Create
  <2>2. x \in Invitation /\ x.status = "pending" /\ x.live = TRUE /\ x.team = deploy.teams
    BY <1>d DEF Invitation
  <2>3. invitations' = [invitations EXCEPT ![r] = x]
    BY <1>5 DEF Create
  <2> HIDE DEF x
  <2>4. /\ invitations'[r] = x /\ invitations' \in [Invitations -> Invitation]
        /\ \A j \in Invitations : j # r => invitations'[j] = invitations[j]
    BY <1>t, <2>2, <2>3
  <2>5. Marks(r, "pending", TRUE, deploy.teams)
    BY <1>t, <2>2, <2>4 DEF Marks
  <2> QED BY <1>5, <2>1, <2>5 DEF Create, Answers, MarksOnly, At
<1>6. ASSUME Status(r) PROVE Answers(r)
  <2>1. Alone(r) /\ Goes(r, "ok")
    BY <1>t, <1>6, Fields DEF Status
  <2>2. PICK s \in {"rejected", "canceled"} : invitations' = [invitations EXCEPT ![c.inv].status = s]
    BY <1>6 DEF Status
  <2>3. Marks(c.inv, s, i.live, i.team)
    BY <1>t, <2>2, Marked
  <2> QED BY <1>6, <2>1, <2>3 DEF Status, Answers, MarksOnly, At
<1> QED BY <1>1, <1>2, <1>3, <1>4, <1>5, <1>6

\* acceptInvitation, addMember, addTeamMember.
LEMMA JoinFields ==
  ASSUME TypeOK, NEW r \in Requests, NEW pc, Joined(r, pc)
  PROVE  Joins(r, pc)
<1> DEFINE c == call[r]
           x == [c EXCEPT !.at = pc]
           d == [x EXCEPT !.adds = {}]
           y(q) == [call[q] EXCEPT !.joined = IF InFlight(q) THEN @ \cup {r} ELSE @]
<1>0. call \in [Requests -> Call] /\ c \in Call
  BY DEF TypeOK
<1>1. call' = [q \in Requests |-> IF q = r THEN d ELSE y(q)]
  BY <1>0 DEF Joined, Call
<1>2. /\ x.at = pc /\ x.op = c.op /\ x.role = c.role /\ x.gone = c.gone /\ x.beside = c.beside
      /\ x.inv = c.inv /\ x.row = c.row /\ x.team = c.team /\ x.strip = c.strip
      /\ x.joined = c.joined /\ x.adds = c.adds
      /\ x = [op |-> c.op, at |-> pc, inv |-> c.inv, row |-> c.row, role |-> c.role,
              team |-> c.team, adds |-> c.adds, strip |-> c.strip, joined |-> c.joined,
              gone |-> c.gone, beside |-> c.beside]
  BY <1>0 DEF Call
<1> HIDE DEF x
<1>3. d = [op |-> c.op, at |-> pc, inv |-> c.inv, row |-> c.row, role |-> c.role,
              team |-> c.team, adds |-> {}, strip |-> c.strip, joined |-> c.joined,
              gone |-> c.gone, beside |-> c.beside]
  BY <1>2
<1>4. /\ d.at = pc /\ d.op = c.op /\ d.role = c.role /\ d.gone = c.gone /\ d.beside = c.beside
      /\ d.inv = c.inv /\ d.row = c.row /\ d.team = c.team /\ d.strip = c.strip
      /\ d.joined = c.joined /\ d.adds = {}
  BY <1>3
<1>5. Typed(d) => d \in Call
  <2>1. c.op \in Operations \cup {"none"} /\ c.role \in Roles /\ c.gone \in SUBSET Users
        /\ c.beside \in BOOLEAN
    BY <1>0, Types
  <2> QED BY <1>3, <1>4, <2>1 DEF Typed, Call
<1> HIDE DEF d
<1>6. ASSUME NEW q \in Requests
      PROVE  /\ y(q).at = call[q].at /\ y(q).op = call[q].op /\ y(q).role = call[q].role
             /\ y(q).gone = call[q].gone /\ y(q).beside = call[q].beside
             /\ y(q).inv = call[q].inv /\ y(q).row = call[q].row /\ y(q).team = call[q].team
             /\ y(q).strip = call[q].strip /\ y(q).adds = call[q].adds
             /\ y(q).joined = IF InFlight(q) THEN call[q].joined \cup {r} ELSE call[q].joined
             /\ y(q) \in Call
  <2>1. call[q] \in Call
    BY <1>0
  <2> DEFINE j == IF InFlight(q) THEN call[q].joined \cup {r} ELSE call[q].joined
  <2>2. y(q) = [call[q] EXCEPT !.joined = j]
    OBVIOUS
  <2>3. j \in SUBSET Requests
    BY <2>1, Types DEF TypeOK
  <2> HIDE DEF j, y
  <2>4. y(q) \in Call
    BY <2>1, <2>2, <2>3 DEF Call
  <2>5. /\ y(q).at = call[q].at /\ y(q).op = call[q].op /\ y(q).role = call[q].role
        /\ y(q).gone = call[q].gone /\ y(q).beside = call[q].beside
        /\ y(q).inv = call[q].inv /\ y(q).row = call[q].row /\ y(q).team = call[q].team
        /\ y(q).strip = call[q].strip /\ y(q).adds = call[q].adds /\ y(q).joined = j
    BY <2>1, <2>2 DEF Call
  <2> QED BY <2>4, <2>5 DEF j
<1> HIDE DEF y
<1>7. call'[r] = d /\ \A q \in Requests : q # r => call'[q] = y(q)
  BY <1>1
<1>8. d \in Call => call' \in [Requests -> Call]
  BY <1>1, <1>6
<1>9. members' = members \cup {NewMember(r)}
  BY DEF Joined, NewMember
<1>10. To(r, pc, c.inv, c.row, c.team, {}, c.strip, c.joined) /\ Keeps(r)
  BY <1>4, <1>7 DEF To, Keeps
<1>11. \A q \in Requests : q # r => LET e == call[q] IN
         /\ Keeps(q) /\ call'[q].at = e.at
         /\ To(q, e.at, e.inv, e.row, e.team, e.adds, e.strip,
               IF InFlight(q) THEN e.joined \cup {r} ELSE e.joined)
  BY <1>6, <1>7 DEF To, Keeps
<1> QED BY <1>5, <1>7, <1>8, <1>9, <1>10, <1>11 DEF Joins

LEMMA AcceptDoes ==
  ASSUME ConstantsOK, Base, NEW r \in Requests
  PROVE  /\ Count(r) => Counts(r)
         /\ Claim(r) => Claims(r)
         /\ Team(r) => Teams(r)
         /\ TeamAdd(r) => TeamAdds(r)
         /\ Member(r) \/ Active(r) => Enters(r)
         /\ Release(r) => Releases(r)
<1> DEFINE c == call[r]
           i == invitations[c.inv]
<1>t. /\ TypeOK /\ c.inv \in Invitations /\ invitations \in [Invitations -> Invitation]
      /\ c \in Call /\ c.op \in Operations \cup {"none"}
  BY Types DEF Base, Invitations, TypeOK
<1>i. i \in Invitation
  BY <1>t
<1>d. deploy.teams \in BOOLEAN /\ deploy.atomic \in BOOLEAN
  BY <1>t, DeployTyped DEF TypeOK
<1>1. ASSUME Count(r) PROVE Counts(r)
  <2> DEFINE pc == IF Cardinality(members) >= deploy.limit THEN "rejected"
                   ELSE IF Op(r) = "accept" THEN "claim"
                   ELSE IF deploy.teams THEN "team" ELSE "member"
  <2>1. c.at = "count" /\ ReadsOnly /\ c.op \in {"accept", "addMember"}
    BY <1>1, Placed DEF Count, At, ReadsOnly, rows, Path
  <2>2. /\ pc \in {"rejected", "claim", "team", "member"}
        /\ pc # "rejected" => ~(Cardinality(members) >= deploy.limit)
        /\ pc = "claim" => c.op = "accept"
        /\ pc \in {"team", "member"} => c.op = "addMember"
    <3> QED BY <2>1 DEF Op
  <2> HIDE DEF pc
  <2>3. Alone(r) /\ To(r, pc, c.inv, c.row, c.team, c.adds, c.strip, {})
    BY <1>1, <1>t, Fields DEF Count, pc
  <2> QED BY <2>1, <2>2, <2>3 DEF Counts
<1>2. ASSUME Claim(r) PROVE Claims(r)
  <2>1. CASE i.status = "pending"
    <3> DEFINE pc == IF i.team THEN "team" ELSE "member"
    <3>1. Become(r, [call[r] EXCEPT !.at = pc, !.team = i.team])
      BY <1>2, <2>1 DEF Claim
    <3>2. invitations' = [invitations EXCEPT ![c.inv].status = "accepted"]
      BY <1>2, <2>1 DEF Claim
    <3>3. pc \in {"team", "member"}
      OBVIOUS
    <3> HIDE DEF pc
    <3>4. Alone(r) /\ To(r, pc, c.inv, c.row, i.team, c.adds, c.strip, c.joined)
      BY <1>t, <3>1, Fields
    <3>5. Marks(c.inv, "accepted", i.live, i.team)
      BY <1>t, <3>2, Marked
    <3> QED BY <1>2, <2>1, <3>3, <3>4, <3>5 DEF Claim, Claims, MarksOnly, At
  <2>2. CASE i.status # "pending"
    <3>1. Goto(r, "rejected") /\ ReadsOnly
      BY <1>2, <2>2 DEF Claim, ReadsOnly
    <3> QED BY <1>2, <1>t, <3>1, Fields DEF Claim, Claims, At
  <2> QED BY <2>1, <2>2
<1>3. ASSUME Team(r) PROVE Teams(r)
  <2> DEFINE there == \E t \in teamRows : t.user = Target(r)
             lost == Op(r) = "accept" /\ ~team
             full == lost \/ (~there /\ Cardinality(teamRows) >= deploy.teamLimit)
             pc == IF full THEN Abort(r)
                   ELSE IF ~there THEN "teamAdd"
                   ELSE IF Op(r) = "addToTeam" THEN "ok" ELSE "member"
  <2>1. At(r, "team") /\ ReadsOnly
    BY <1>3 DEF Team, ReadsOnly, rows
  <2>2. Goto(r, pc)
    BY <1>3 DEF Team
  <2>3. /\ pc \in {"release", "rejected", "teamAdd", "ok", "member"}
        /\ pc = "release" => Op(r) = "accept"
        /\ pc = "rejected" => Op(r) # "accept"
        /\ pc = "ok" => Op(r) = "addToTeam" /\ there
        /\ pc = "member" => Op(r) # "addToTeam"
    <3> HIDE DEF there, full
    <3> QED BY DEF Abort
  <2> HIDE DEF pc
  <2>4. Alone(r) /\ Goes(r, pc)
    BY <1>t, <2>2, Fields
  <2> QED BY <2>1, <2>3, <2>4 DEF Teams
<1>4. ASSUME TeamAdd(r) PROVE TeamAdds(r)
  <2> DEFINE held == deploy.atomic /\ Op(r) = "accept"
             pc == IF Op(r) = "addToTeam" THEN "ok" ELSE "member"
             adds == IF held THEN {NewTeamRow(r)} ELSE {}
  <2>1. Become(r, [call[r] EXCEPT !.at = pc, !.adds = adds])
    BY <1>4 DEF TeamAdd, NewTeamRow
  <2>2. teamRows' = IF held THEN teamRows ELSE teamRows \cup {NewTeamRow(r)}
    BY <1>4 DEF TeamAdd, NewTeamRow
  <2>3. /\ pc \in {"ok", "member"} /\ (pc = "ok" <=> Op(r) = "addToTeam")
        /\ adds \in {{}, {NewTeamRow(r)}} /\ (~held => adds = {})
    OBVIOUS
  <2> HIDE DEF pc, adds
  <2>4. Alone(r) /\ To(r, pc, c.inv, c.row, c.team, adds, c.strip, c.joined)
    BY <1>t, <2>1, Fields
  <2>5. IF deploy.atomic /\ c.op = "accept"
          THEN teamRows' = teamRows
          ELSE teamRows' = teamRows \cup {NewTeamRow(r)} /\ adds = {}
    BY <2>2, <2>3 DEF Op
  <2>6. pc \in {"ok", "member"} /\ (pc = "ok" <=> c.op = "addToTeam")
    BY <2>3 DEF Op
  <2> QED BY <1>4, <2>3, <2>4, <2>5, <2>6 DEF TeamAdd, TeamAdds, At
<1>5. ASSUME Member(r) PROVE Enters(r)
  <2>1. c.at = "member" /\ c.op \in {"accept", "addMember"}
    BY <1>5, Placed DEF Member, At, Path
  <2>2. CASE c.op = "addMember"
    <3>1. Joined(r, "ok") \/ (Goto(r, "active") /\ FALSE)
      BY <1>5, <2>2 DEF Member, Op
    <3>2. Joins(r, "ok")
      BY <1>t, <3>1, JoinFields
    <3> QED BY <1>5, <2>1, <2>2, <3>2 DEF Member, Enters
  <2>3. CASE c.op = "accept" /\ ~deploy.atomic
    <3>1. Joined(r, "active")
      BY <1>5, <2>3 DEF Member, Op
    <3>2. Joins(r, "active")
      BY <1>t, <3>1, JoinFields
    <3> QED BY <1>5, <2>1, <2>3, <3>2 DEF Member, Enters
  <2>4. CASE c.op = "accept" /\ deploy.atomic
    <3>1. Goto(r, "active") /\ UNCHANGED members
      BY <1>5, <2>4 DEF Member, Op
    <3>2. Goes(r, "active") /\ Alone(r)
      BY <1>t, <3>1, Fields
    <3> QED BY <1>5, <2>1, <2>4, <3>1, <3>2 DEF Member, Enters
  <2> QED BY <2>1, <2>2, <2>3, <2>4
<1>6. ASSUME Active(r) PROVE Enters(r)
  <2>1. CASE deploy.atomic
    <3>1. Joins(r, "ok")
      BY <1>t, <1>6, <2>1, JoinFields DEF Active
    <3> QED BY <1>6, <2>1, <3>1 DEF Active, Enters, At
  <2>2. CASE ~deploy.atomic
    <3>1. Goes(r, "ok") /\ Alone(r)
      BY <1>t, <1>6, <2>2, Fields DEF Active
    <3> QED BY <1>6, <2>2, <3>1 DEF Active, Enters, At
  <2> QED BY <2>1, <2>2
<1>7. ASSUME Release(r) PROVE Releases(r)
  <2>1. Alone(r) /\ To(r, "rejected", c.inv, c.row, c.team, {}, c.strip, c.joined)
    BY <1>t, <1>7, Fields DEF Release
  <2>2. Marks(c.inv, "pending", i.live, i.team)
    BY <1>t, <1>7, Marked DEF Release
  <2> QED BY <1>7, <2>1, <2>2 DEF Release, Releases, MarksOnly, At
<1> QED BY <1>1, <1>2, <1>3, <1>4, <1>5, <1>6, <1>7

\* removeMember, leaveOrganization, updateMemberRole.
LEMMA TakeOutFields ==
  ASSUME TypeOK, NEW r \in Requests, NEW pc \in Steps \cup Ended, TakeOut(r, pc),
         call[r].row \in MemberRow
  PROVE  TakesOut(r, pc)
<1> DEFINE c == call[r]
           d == [c EXCEPT !.at = pc]
           y(q) == [call[q] EXCEPT !.gone = IF InFlight(q) THEN @ \cup {call[r].row.user} ELSE @]
<1>0. call \in [Requests -> Call] /\ c \in Call /\ c.row.user \in Users
  BY DEF TypeOK, MemberRow
<1>1. call' = [q \in Requests |-> IF q = r THEN d ELSE y(q)]
  BY DEF TakeOut
<1>2. /\ d.at = pc /\ d.op = c.op /\ d.role = c.role /\ d.gone = c.gone /\ d.beside = c.beside
      /\ d.inv = c.inv /\ d.row = c.row /\ d.team = c.team /\ d.strip = c.strip
      /\ d.joined = c.joined /\ d.adds = c.adds /\ d \in Call
  BY <1>0 DEF Call
<1> HIDE DEF d
<1>6. ASSUME NEW q \in Requests
      PROVE  /\ y(q).at = call[q].at /\ y(q).op = call[q].op /\ y(q).role = call[q].role
             /\ y(q).joined = call[q].joined /\ y(q).beside = call[q].beside
             /\ y(q).inv = call[q].inv /\ y(q).row = call[q].row /\ y(q).team = call[q].team
             /\ y(q).strip = call[q].strip /\ y(q).adds = call[q].adds
             /\ y(q).gone = IF InFlight(q) THEN call[q].gone \cup {call[r].row.user}
                            ELSE call[q].gone
             /\ y(q) \in Call
  <2>1. call[q] \in Call
    BY <1>0
  <2> DEFINE j == IF InFlight(q) THEN call[q].gone \cup {call[r].row.user} ELSE call[q].gone
  <2>2. y(q) = [call[q] EXCEPT !.gone = j]
    OBVIOUS
  <2>3. j \in SUBSET Users
    BY <1>0, <2>1, Types DEF TypeOK
  <2> HIDE DEF j, y
  <2>4. y(q) \in Call
    BY <2>1, <2>2, <2>3 DEF Call
  <2>5. /\ y(q).at = call[q].at /\ y(q).op = call[q].op /\ y(q).role = call[q].role
        /\ y(q).joined = call[q].joined /\ y(q).beside = call[q].beside
        /\ y(q).inv = call[q].inv /\ y(q).row = call[q].row /\ y(q).team = call[q].team
        /\ y(q).strip = call[q].strip /\ y(q).adds = call[q].adds /\ y(q).gone = j
    BY <2>1, <2>2 DEF Call
  <2> QED BY <2>4, <2>5 DEF j
<1> HIDE DEF y
<1>7. /\ call'[r] = d /\ \A q \in Requests : q # r => call'[q] = y(q)
      /\ call' \in [Requests -> Call]
  BY <1>1, <1>2, <1>6
<1>8. Goes(r, pc) /\ Keeps(r)
  BY <1>2, <1>7 DEF Goes, To, Keeps
<1>9. \A q \in Requests : q # r => LET e == call[q] IN
        /\ To(q, e.at, e.inv, e.row, e.team, e.adds, e.strip, e.joined)
        /\ call'[q].op = e.op /\ call'[q].role = e.role /\ call'[q].beside = e.beside
        /\ call'[q].gone = IF InFlight(q) THEN e.gone \cup {call[r].row.user} ELSE e.gone
  BY <1>6, <1>7 DEF To
<1> QED BY <1>7, <1>8, <1>9 DEF TakesOut

LEMMA DemoteDoes ==
  ASSUME ConstantsOK, Base, NEW r \in Requests
  PROVE  /\ CountOwners(r) => CountsOwners(r)
         /\ Delete(r) => Deletes(r)
         /\ TeamDelete(r) => TeamDeletes(r)
         /\ Update(r) => UpdatesRole(r)
<1> DEFINE c == call[r]
<1>t. TypeOK /\ c \in Call /\ c.op \in Operations \cup {"none"} /\ members \subseteq MemberRow
  BY Types DEF Base, TypeOK
<1>1. ASSUME CountOwners(r) PROVE CountsOwners(r)
  <2> DEFINE pc == IF Cardinality(Owners) <= 1 /\ ~(Op(r) = "updateRole" /\ call[r].role = "owner")
                     THEN "rejected"
                   ELSE IF Op(r) = "updateRole" THEN "update" ELSE "delete"
  <2>1. c.at = "owners" /\ ReadsOnly /\ c.op \in Demotes
    BY <1>1, Placed DEF CountOwners, At, ReadsOnly, rows, Path
  <2>2. Goto(r, pc)
    BY <1>1 DEF CountOwners
  <2>3. /\ pc \in {"rejected", "update", "delete"}
        /\ \/ pc = "rejected" \/ (c.op = "updateRole" /\ c.role = "owner")
           \/ ~(Cardinality(Owners) <= 1)
        /\ pc = "update" => c.op = "updateRole"
        /\ pc = "delete" => c.op \in {"removeMember", "leave"}
    BY <2>1 DEF Op, Demotes
  <2> HIDE DEF pc
  <2>4. Alone(r) /\ Goes(r, pc)
    BY <1>t, <2>2, Fields
  <2> QED BY <2>1, <2>3, <2>4 DEF CountsOwners
<1>2. ASSUME Delete(r) PROVE Deletes(r)
  <2>1. c.row \in MemberRow
    BY <1>2, <1>t, Placed, Types DEF Delete, At, Path
  <2>2. CASE deploy.atomic
    <3>1. TakesOut(r, "ok") /\ LeaveTeam(c.row.user)
      BY <1>2, <1>t, <2>1, <2>2, TakeOutFields DEF Delete, Ended
    <3>2. /\ teamRows' \subseteq teamRows
          /\ ~deploy.manyTeams => \A t \in teamRows' : t.user # c.row.user
      BY <3>1 DEF LeaveTeam
    <3> QED BY <1>2, <2>2, <3>1, <3>2 DEF Delete, Deletes
  <2>3. CASE ~deploy.atomic
    <3>1. TakesOut(r, "teamDelete") /\ teamRows' = teamRows
      BY <1>2, <1>t, <2>1, <2>3, TakeOutFields DEF Delete, Steps
    <3> QED BY <1>2, <2>3, <3>1 DEF Delete, Deletes
  <2> QED BY <2>2, <2>3
<1>3. ASSUME TeamDelete(r) PROVE TeamDeletes(r)
  <2>1. Alone(r) /\ Goes(r, "ok")
    BY <1>3, <1>t, Fields DEF TeamDelete
  <2>2. teamRows' \subseteq teamRows
    BY <1>3 DEF TeamDelete, LeaveTeam
  <2> QED BY <1>3, <2>1, <2>2 DEF TeamDelete, TeamDeletes
<1>4. ASSUME Update(r) PROVE UpdatesRole(r)
  <2> DEFINE there == {m \in members : m.id = c.row.id}
             pc == IF there = {} THEN "rejected" ELSE "ok"
             new(m) == WithRole(m, IF m.id = c.row.id THEN c.role ELSE m.role)
  <2>1. Goto(r, pc)
    BY <1>4 DEF Update
  <2>2. Alone(r) /\ Goes(r, pc) /\ pc \in {"ok", "rejected"}
    BY <1>t, <2>1, Fields
  <2>3. \A m \in members : IF m \in there THEN [m EXCEPT !.role = c.role] = new(m) ELSE new(m) = m
    BY <1>t DEF MemberRow, WithRole
  <2>4. members' = (members \ there) \cup {[m EXCEPT !.role = c.role] : m \in there}
    BY <1>4 DEF Update
  <2>5. members' = {new(m) : m \in members}
    <3> HIDE DEF new
    <3>1. \A m \in there : m \in members
      OBVIOUS
    <3> HIDE DEF there
    <3> QED BY <2>3, <2>4, <3>1
  <2> QED BY <1>4, <2>2, <2>5 DEF Update, UpdatesRole, At
<1> QED BY <1>1, <1>2, <1>3, <1>4

\* removeTeam, failures, and the start of a request.
LEMMA StripMade ==
  ASSUME TypeOK, NEW is, invitations' = Stripped(is)
  PROVE  Strips(is)
<1>1. invitations \in [Invitations -> Invitation]
  BY DEF TypeOK
<1>2. ASSUME NEW i \in Invitations
      PROVE  LET x == [invitations[i] EXCEPT !.team = @ /\ i \notin is] IN
             /\ x \in Invitation /\ x.status = invitations[i].status
             /\ x.live = invitations[i].live
             /\ x.team <=> invitations[i].team /\ i \notin is
  <2> DEFINE b == invitations[i].team /\ i \notin is
             x == [invitations[i] EXCEPT !.team = b]
  <2>1. invitations[i] \in Invitation
    BY <1>1
  <2>2. b \in BOOLEAN
    OBVIOUS
  <2> HIDE DEF b
  <2>3. x \in Invitation /\ x.status = invitations[i].status /\ x.live = invitations[i].live
        /\ x.team = b
    BY <2>1, <2>2 DEF Invitation
  <2> QED BY <2>3 DEF b
<1>3. invitations' = [i \in Invitations |-> [invitations[i] EXCEPT !.team = @ /\ i \notin is]]
  BY DEF Stripped
<1> QED BY <1>2, <1>3 DEF Strips

LEMMA RemovalDoes ==
  ASSUME ConstantsOK, Base, NEW r \in Requests
  PROVE  /\ ListTeam(r) => ListsTeam(r)
         /\ DropTeam(r) => DropsTeam(r)
         /\ Strip(r) => StripsTeam(r)
         /\ Fail(r) => Fails(r)
<1> DEFINE c == call[r]
<1>t. TypeOK /\ c \in Call
  BY Types DEF Base
<1>1. ASSUME ListTeam(r) PROVE ListsTeam(r)
  <2> DEFINE pc == IF deploy.atomic THEN "dropTeam" ELSE "strip"
             S == PendingOf(Users)
  <2>1. ReadsOnly /\ c.at = "listTeam"
    BY <1>1 DEF ListTeam, ReadsOnly, rows, At
  <2>2. PICK T \in Page(S) :
          /\ Become(r, [call[r] EXCEPT !.at = pc, !.strip = {i \in T : NamesTeam(i)}])
          /\ cut' = (cut \/ Cardinality(T) = deploy.page)
    BY <1>1 DEF ListTeam
  <2>3. PICK s : s = {i \in T : NamesTeam(i)}
    OBVIOUS
  <2>4. Become(r, [call[r] EXCEPT !.at = pc, !.strip = s])
    BY <2>2, <2>3
  <2>5. Alone(r) /\ To(r, pc, c.inv, c.row, c.team, c.adds, s, c.joined)
    <3> HIDE DEF pc
    <3> QED BY <1>t, <2>4, Fields
  <2>6. T \subseteq S /\ (cut' \/ T = S)
    BY <2>2 DEF Page
  <2>7. S \subseteq Invitations /\ \A i \in Invitations : NamesTeam(i) => i \in S
    <3>1. \A i \in Invitations : invitations[i].user \in Users
      BY <1>t DEF TypeOK, Invitation
    <3> QED BY <3>1 DEF PendingOf, NamesTeam
  <2>8. s \in SUBSET Invitations /\ (cut' \/ s = {i \in Invitations : NamesTeam(i)})
    <3> HIDE DEF S
    <3> QED BY <2>3, <2>6, <2>7
  <2> QED BY <2>1, <2>5, <2>8 DEF ListsTeam
<1>2. ASSUME DropTeam(r) PROVE DropsTeam(r)
  <2>1. CASE deploy.atomic
    <3>1. Alone(r) /\ Goes(r, "ok")
      BY <1>2, <1>t, <2>1, Fields DEF DropTeam
    <3>2. Strips(call[r].strip)
      BY <1>2, <1>t, <2>1, StripMade DEF DropTeam
    <3> QED BY <1>2, <2>1, <3>1, <3>2 DEF DropTeam, DropsTeam
  <2>2. CASE ~deploy.atomic
    <3>1. Alone(r) /\ Goes(r, "listTeam")
      BY <1>2, <1>t, <2>2, Fields DEF DropTeam
    <3> QED BY <1>2, <2>2, <3>1 DEF DropTeam, DropsTeam
  <2> QED BY <2>1, <2>2
<1>3. ASSUME Strip(r) PROVE StripsTeam(r)
  <2>1. CASE c.strip = {}
    <3>1. Alone(r) /\ Goes(r, "ok")
      BY <1>3, <1>t, <2>1, Fields DEF Strip
    <3> QED BY <1>3, <2>1, <3>1 DEF Strip, StripsTeam, At
  <2>2. CASE c.strip # {}
    <3>1. PICK i \in c.strip : /\ invitations' = Stripped({i})
                               /\ Become(r, [call[r] EXCEPT !.strip = @ \ {i}])
      BY <1>3, <2>2 DEF Strip
    <3> DEFINE s == c.strip \ {i}
    <3>2. Become(r, [call[r] EXCEPT !.strip = s])
      BY <3>1
    <3> HIDE DEF s
    <3>3. Alone(r) /\ To(r, c.at, c.inv, c.row, c.team, c.adds, s, c.joined)
      BY <1>t, <3>2, Fields
    <3>4. Strips({i})
      BY <1>t, <3>1, StripMade
    <3> QED BY <1>3, <3>3, <3>4 DEF Strip, StripsTeam, At, s
  <2> QED BY <2>1, <2>2
<1>4. ASSUME Fail(r) PROVE Fails(r)
  <2>1. PICK pc \in {"failed"} \cup
                 (IF Op(r) = "accept" /\ call[r].at \in {"team", "teamAdd", "member", "active"}
                    THEN {"release"} ELSE {}) :
          Become(r, [call[r] EXCEPT !.at = pc, !.adds = {}])
    BY <1>4 DEF Fail
  <2>2. Alone(r) /\ To(r, pc, c.inv, c.row, c.team, {}, c.strip, c.joined)
    BY <1>t, <2>1, Fields
  <2>3. InFlight(r) /\ ReadsOnly
    BY <1>4 DEF Fail, ReadsOnly, rows
  <2>4. /\ pc \in {"failed", "release"}
        /\ pc = "release" => c.op = "accept" /\ c.at \in {"team", "teamAdd", "member", "active"}
    BY <2>1 DEF Op
  <2> QED BY <2>2, <2>3, <2>4 DEF Fails
<1> QED BY <1>1, <1>2, <1>3, <1>4

LEMMA StartDoes ==
  ASSUME ConstantsOK, Base, NEW r \in Requests, NEW op \in deploy.ops[r], Start(r, op)
  PROVE  op \in Operations /\ Starts(r, op)
<1>t. TypeOK /\ call \in [Requests -> Call] /\ deploy \in Deployments
  BY DEF Base, TypeOK
<1>1. op \in Operations
  BY <1>t, DeployTyped
<1> DEFINE b == \E p \in Requests : InFlight(p) /\ Op(p) = "removeTeam"
           x(q) == [call[q] EXCEPT !.beside = @ \/ (InFlight(q) /\ op = "removeTeam")]
<1>2. PICK i \in IF op \in {"accept", "reject", "cancel"} THEN Invitations ELSE {r} :
        \E role \in IF op = "updateRole" THEN Roles ELSE {"member"} :
          call' = [q \in Requests |->
            IF q = r THEN [NoCall EXCEPT !.op = op, !.at = "find", !.inv = i, !.role = role,
                             !.beside = b]
            ELSE x(q)]
  BY DEF Start
<1>3. PICK role \in IF op = "updateRole" THEN Roles ELSE {"member"} :
          call' = [q \in Requests |->
            IF q = r THEN [NoCall EXCEPT !.op = op, !.at = "find", !.inv = i, !.role = role,
                             !.beside = b]
            ELSE x(q)]
  BY <1>2
<1>4. i \in Invitations /\ role \in Roles /\ (op \in {"accept", "reject", "cancel"} \/ i = r)
  BY <1>2, <1>3 DEF Invitations, Roles
<1> DEFINE n == NoCall
           d == [n EXCEPT !.op = op, !.at = "find", !.inv = i, !.role = role, !.beside = b]
<1>5. /\ n \in Call /\ n.row = <<>> /\ n.team = FALSE /\ n.adds = {} /\ n.strip = {}
      /\ n.joined = {} /\ n.gone = {}
  BY DEF NoCall, Call, Invitations, Roles
<1>6. b \in BOOLEAN
  OBVIOUS
<1> HIDE DEF b, n
<1>7. /\ d \in Call /\ d.op = op /\ d.at = "find" /\ d.inv = i /\ d.row = <<>> /\ d.team = FALSE
      /\ d.adds = {} /\ d.strip = {} /\ d.joined = {} /\ d.gone = {} /\ d.beside = b
  <2> DEFINE n1 == [n EXCEPT !.op = op]
             n2 == [n1 EXCEPT !.at = "find"]
             n3 == [n2 EXCEPT !.inv = i]
             n4 == [n3 EXCEPT !.role = role]
             n5 == [n4 EXCEPT !.beside = b]
             Same(u, v) == /\ u.row = v.row /\ u.team = v.team /\ u.adds = v.adds
                           /\ u.strip = v.strip /\ u.joined = v.joined /\ u.gone = v.gone
  <2>1. n1 \in Call /\ Same(n1, n) /\ n1.op = op
    BY <1>1, <1>5 DEF Call
  <2>2. d = [n1 EXCEPT !.at = "find", !.inv = i, !.role = role, !.beside = b]
    BY <1>5 DEF Call
  <2> HIDE DEF n1, d
  <2>3. n2 \in Call /\ Same(n2, n1) /\ n2.op = op /\ n2.at = "find"
    BY <2>1 DEF Call, Steps
  <2>4. d = [n2 EXCEPT !.inv = i, !.role = role, !.beside = b]
    BY <2>1, <2>2 DEF Call
  <2> HIDE DEF n2
  <2>5. n3 \in Call /\ Same(n3, n2) /\ n3.op = op /\ n3.at = "find" /\ n3.inv = i
    BY <1>4, <2>3 DEF Call
  <2>6. d = [n3 EXCEPT !.role = role, !.beside = b]
    BY <2>3, <2>4 DEF Call
  <2> HIDE DEF n3
  <2>7. n4 \in Call /\ Same(n4, n3) /\ n4.op = op /\ n4.at = "find" /\ n4.inv = i
    BY <1>4, <2>5 DEF Call
  <2>8. d = [n4 EXCEPT !.beside = b]
    BY <2>5, <2>6 DEF Call
  <2> HIDE DEF n4
  <2>9. n5 \in Call /\ Same(n5, n4) /\ n5.op = op /\ n5.at = "find" /\ n5.inv = i /\ n5.beside = b
    BY <1>6, <2>7 DEF Call
  <2> QED BY <1>5, <2>1, <2>3, <2>5, <2>7, <2>8, <2>9
<1> HIDE DEF d
<1>8. ASSUME NEW q \in Requests
      PROVE  /\ x(q).at = call[q].at /\ x(q).op = call[q].op /\ x(q).role = call[q].role
             /\ x(q).joined = call[q].joined /\ x(q).gone = call[q].gone
             /\ x(q).inv = call[q].inv /\ x(q).row = call[q].row /\ x(q).team = call[q].team
             /\ x(q).strip = call[q].strip /\ x(q).adds = call[q].adds
             /\ x(q).beside <=> call[q].beside \/ (InFlight(q) /\ op = "removeTeam")
             /\ x(q) \in Call
  <2>1. call[q] \in Call
    BY <1>t
  <2> DEFINE j == call[q].beside \/ (InFlight(q) /\ op = "removeTeam")
  <2>2. x(q) = [call[q] EXCEPT !.beside = j]
    OBVIOUS
  <2>3. j \in BOOLEAN
    OBVIOUS
  <2> HIDE DEF j, x
  <2>4. x(q) \in Call
    BY <2>1, <2>2, <2>3 DEF Call
  <2>5. /\ x(q).at = call[q].at /\ x(q).op = call[q].op /\ x(q).role = call[q].role
        /\ x(q).joined = call[q].joined /\ x(q).gone = call[q].gone
        /\ x(q).inv = call[q].inv /\ x(q).row = call[q].row /\ x(q).team = call[q].team
        /\ x(q).strip = call[q].strip /\ x(q).adds = call[q].adds /\ x(q).beside = j
    BY <2>1, <2>2 DEF Call
  <2> QED BY <2>4, <2>5 DEF j
<1> HIDE DEF x
<1>9. /\ call'[r] = d /\ \A q \in Requests : q # r => call'[q] = x(q)
      /\ call' \in [Requests -> Call]
  BY <1>3, <1>7, <1>8 DEF d, n
<1>10. \A q \in Requests : q # r => LET e == call[q] IN
         /\ To(q, e.at, e.inv, e.row, e.team, e.adds, e.strip, e.joined)
         /\ call'[q].op = e.op /\ call'[q].role = e.role /\ call'[q].gone = e.gone
         /\ call'[q].beside <=> e.beside \/ (InFlight(q) /\ op = "removeTeam")
  BY <1>8, <1>9 DEF To
<1>11. To(r, "find", i, <<>>, FALSE, {}, {}, {})
  BY <1>7, <1>9 DEF To
<1>12. call'[r].beside <=> \E p \in Requests : InFlight(p) /\ Op(p) = "removeTeam"
  BY <1>7, <1>9 DEF b
<1>13. raced' = (raced \/ (op \in Demotes /\ \E q \in Requests : Demoting(q)))
  BY <1>t DEF Start, Demoting, TypeOK
<1>14. At(r, "idle") /\ UNCHANGED <<deploy, members, invitations, team, teamRows>>
  BY DEF Start, rows
<1> QED BY <1>1, <1>4, <1>7, <1>9, <1>10, <1>11, <1>12, <1>13, <1>14 DEF Starts

LEMMA NextMoves ==
  ASSUME ConstantsOK, Base, [Next]_vars
  PROVE  Moves
<1>t. TypeOK
  BY DEF Base
<1>1. ASSUME NEW r \in Requests, Step(r) PROVE Does(r)
  <2>1. CASE Find(r)
    BY <2>1, FindDoes DEF Does
  <2>2. CASE LookPending(r) \/ Vacancy(r) \/ Extend(r) \/ CancelOld(r) \/ Create(r) \/ Status(r)
    BY <2>2, InviteDoes DEF Does
  <2>3. CASE Count(r) \/ Claim(r) \/ Team(r) \/ TeamAdd(r) \/ Member(r) \/ Active(r) \/ Release(r)
    BY <2>3, AcceptDoes DEF Does
  <2>4. CASE CountOwners(r) \/ Delete(r) \/ TeamDelete(r) \/ Update(r)
    BY <2>4, DemoteDoes DEF Does
  <2>5. CASE ListTeam(r) \/ DropTeam(r) \/ Strip(r)
    BY <2>5, RemovalDoes DEF Does
  <2> QED BY <1>1, <2>1, <2>2, <2>3, <2>4, <2>5 DEF Step
<1>2. ASSUME NEW r \in Requests, Fail(r) PROVE Does(r)
  BY <1>2, RemovalDoes DEF Does
<1>3. ASSUME NEW r \in Requests, NEW op \in deploy.ops[r], Start(r, op) PROVE Does(r)
  BY <1>3, StartDoes DEF Does
<1>4. ASSUME NEW i \in deploy.short, Expire(i) PROVE i \in Invitations /\ Expires(i)
  <2>1. i \in Invitations
    BY <1>t, DeployTyped DEF TypeOK
  <2>2. Marks(i, invitations[i].status, FALSE, invitations[i].team)
    BY <1>4, <1>t, <2>1, Marked DEF Expire
  <2> QED BY <1>4, <2>1, <2>2 DEF Expire, Expires
<1>5. CASE Next
  BY <1>1, <1>2, <1>3, <1>4, <1>5 DEF Next, Moves, Idle
<1>6. CASE UNCHANGED vars
  BY <1>6 DEF Moves
<1> QED BY <1>5, <1>6

\* A removal that could not list every invitation is remembered.
LEMMA CutGrows ==
  ASSUME TypeOK, [Next]_vars
  PROVE  cut' \in BOOLEAN /\ (cut => cut')
<1>t. cut \in BOOLEAN
  BY DEF TypeOK
<1>1. ASSUME NEW r \in Requests, Step(r) PROVE cut' \in BOOLEAN /\ (cut => cut')
  <2>1. CASE ListTeam(r)
    BY <1>t, <2>1 DEF ListTeam
  <2>2. CASE ~ListTeam(r)
    BY <1>t, <1>1, <2>2 DEF Step, Find, LookPending, Extend, CancelOld, Vacancy, Create, Status,
      Count, Claim, Team, TeamAdd, Member, Active, Release, CountOwners, Delete, TeamDelete,
      Update, DropTeam, Strip
  <2> QED BY <2>1, <2>2
<1>2. ASSUME Next, \A r \in Requests : ~Step(r) PROVE cut' = cut
  BY <1>2 DEF Next, Start, Fail, Expire, Idle, vars
<1>3. CASE UNCHANGED vars
  BY <1>t, <1>3 DEF vars
<1> QED BY <1>t, <1>1, <1>2, <1>3

-----------------------------------------------------------------------------
(* What a step leaves alone *)

\* The request of another step: only its history grows.
Same(q) ==
  /\ call'[q].op = call[q].op /\ call'[q].role = call[q].role
  /\ LET d == call[q] IN
       /\ call'[q].at = d.at /\ call'[q].inv = d.inv /\ call'[q].row = d.row
       /\ call'[q].team = d.team /\ call'[q].adds = d.adds /\ call'[q].strip = d.strip
  /\ call[q].joined \subseteq call'[q].joined /\ call[q].gone \subseteq call'[q].gone
  /\ call[q].beside => call'[q].beside
\* The request of the step, once it has started.
Going(r) ==
  /\ call'[r].op = call[r].op /\ call'[r].role = call[r].role
  /\ call'[r].gone = call[r].gone /\ call'[r].beside = call[r].beside

LEMMA Frame ==
  ASSUME Base, NEW r \in Requests, Does(r)
  PROVE  /\ deploy' = deploy
         /\ \A q \in Requests : q # r => Same(q)
         /\ ~At(r, "idle") => Going(r)
<1>1. CASE Alone(r)
  <2>1. /\ \A q \in Requests : q # r => Same(q)
        /\ Going(r)
    BY <1>1 DEF Alone, Keeps, Same, Going
  <2>2. deploy' = deploy
    BY DEF Does, Finds, Looks, Vacates, Answers, Counts, Claims, Teams, TeamAdds, Enters, Releases,
      CountsOwners, Deletes, TeamDeletes, UpdatesRole, ListsTeam, DropsTeam, StripsTeam, Fails,
      Starts, ReadsOnly, MarksOnly
  <2> QED BY <2>1, <2>2
<1>2. ASSUME NEW pc, Joins(r, pc), deploy' = deploy
      PROVE  Going(r) /\ \A q \in Requests : q # r => Same(q)
  BY <1>2 DEF Joins, Keeps, To, Same, Going
<1>3. ASSUME NEW pc, TakesOut(r, pc), deploy' = deploy
      PROVE  Going(r) /\ \A q \in Requests : q # r => Same(q)
  BY <1>3 DEF TakesOut, Keeps, To, Same, Going
<1>4. ASSUME NEW op, Starts(r, op)
      PROVE  deploy' = deploy /\ At(r, "idle") /\ \A q \in Requests : q # r => Same(q)
  BY <1>4 DEF Starts, To, Same
<1> QED
  BY <1>1, <1>2, <1>3, <1>4 DEF Does, Finds, Looks, Vacates, Answers, Counts, Claims, Teams,
    TeamAdds, Enters, Releases, CountsOwners, Deletes, TeamDeletes, UpdatesRole, ListsTeam,
    DropsTeam, StripsTeam, Fails

\* The types of what the step writes in its own record.
LEMMA CallTyped ==
  ASSUME ConstantsOK, Base, NEW r \in Requests, Does(r)
  PROVE  call' \in [Requests -> Call]
<1> DEFINE c == call[r]
<1>t. TypeOK /\ Typed(c) /\ invitations[c.inv].team \in BOOLEAN
  <2>1. TypeOK /\ Typed(c) /\ c.inv \in Invitations
    BY Types DEF Base
  <2> QED BY <2>1 DEF TypeOK, Invitation
<1>n. NewTeamRow(r) \in TeamRow
  <2>1. Target(r) \in Users
    BY <1>t, DeployTyped DEF TypeOK, Target, Actor
  <2> QED BY <2>1 DEF NewTeamRow, TeamRow, Makers
<1>1. CASE \/ Vacates(r) \/ Answers(r) \/ Counts(r) \/ Teams(r) \/ Releases(r)
           \/ CountsOwners(r) \/ TeamDeletes(r) \/ UpdatesRole(r) \/ DropsTeam(r) \/ Fails(r)
  <2>1. Alone(r) /\ Typed(call'[r])
    BY <1>1, <1>t DEF Vacates, Answers, Counts, Teams, Releases, CountsOwners, TeamDeletes,
      UpdatesRole, DropsTeam, Fails, Typed, Goes, To, Steps, Ended
  <2> QED BY <2>1 DEF Alone
<1>2. CASE Finds(r)
  <2>1. members \subseteq MemberRow
    BY <1>t DEF TypeOK
  <2>2. Alone(r) /\ Typed(call'[r])
    BY <1>2, <1>t, <2>1 DEF Finds, Typed, Goes, To, Steps, Ended
  <2> QED BY <2>2 DEF Alone
<1>3. CASE Looks(r) \/ Claims(r) \/ TeamAdds(r) \/ ListsTeam(r) \/ StripsTeam(r)
  <2>1. Alone(r) /\ Typed(call'[r])
    <3>1. CASE Looks(r)
      BY <1>t, <3>1 DEF Looks, Typed, Goes, To, Steps, Ended
    <3>2. CASE Claims(r)
      BY <1>t, <3>2 DEF Claims, Typed, Goes, To, Steps, Ended
    <3>3. CASE TeamAdds(r)
      <4>1. PICK adds \in {{}, {NewTeamRow(r)}}, pc \in {"ok", "member"} :
              To(r, pc, c.inv, c.row, c.team, adds, c.strip, c.joined)
        BY <3>3 DEF TeamAdds
      <4>2. adds \in SUBSET TeamRow
        BY <1>n, <4>1
      <4> QED BY <1>t, <3>3, <4>1, <4>2 DEF TeamAdds, Typed, To, Steps, Ended
    <3>4. CASE ListsTeam(r)
      BY <1>t, <3>4 DEF ListsTeam, Typed, To, Steps, Ended
    <3>5. CASE StripsTeam(r)
      BY <1>t, <3>5 DEF StripsTeam, Typed, Goes, To, Steps, Ended
    <3> QED BY <1>3, <3>1, <3>2, <3>3, <3>4, <3>5
  <2> QED BY <2>1 DEF Alone
<1>4. CASE Enters(r)
  <2>1. CASE Alone(r)
    BY <1>t, <1>4, <2>1 DEF Enters, Joins, Alone, Typed, Goes, To, Steps, Ended
  <2>2. CASE ~Alone(r)
    <3>1. PICK pc \in {"ok", "active"} : Joins(r, pc)
      BY <1>4, <2>2 DEF Enters
    <3>2. Typed(call'[r])
      BY <1>t, <3>1 DEF Joins, Typed, To, Steps, Ended
    <3> QED BY <3>1, <3>2 DEF Joins
  <2> QED BY <2>1, <2>2
<1>5. CASE Deletes(r)
  BY <1>5 DEF Deletes, TakesOut
<1>6. CASE \E op \in Operations : Starts(r, op)
  BY <1>6 DEF Starts
<1> QED BY <1>1, <1>2, <1>3, <1>4, <1>5, <1>6 DEF Does

-----------------------------------------------------------------------------
(* Types, and where requests are *)

LEMMA RowsTyped ==
  ASSUME ConstantsOK, Base, NEW r \in Requests, Does(r)
  PROVE  /\ members' \subseteq MemberRow /\ teamRows' \subseteq TeamRow
         /\ invitations' \in [Invitations -> Invitation]
         /\ team' \in BOOLEAN /\ raced' \in BOOLEAN
<1> DEFINE c == call[r]
<1>t. /\ TypeOK /\ members \subseteq MemberRow /\ teamRows \subseteq TeamRow
      /\ invitations \in [Invitations -> Invitation] /\ team \in BOOLEAN /\ raced \in BOOLEAN
      /\ c.adds \in SUBSET TeamRow /\ c.role \in Roles
  BY Types DEF Base, TypeOK
<1>n. NewTeamRow(r) \in TeamRow /\ NewMember(r) \in MemberRow
  <2>1. Target(r) \in Users
    BY <1>t, DeployTyped DEF TypeOK, Target, Actor
  <2> QED BY <2>1 DEF NewTeamRow, NewMember, TeamRow, MemberRow, Makers, Roles
<1>1. members' \subseteq MemberRow
  <2>1. CASE members' \subseteq members \cup {NewMember(r)}
    BY <1>t, <1>n, <2>1
  <2>2. CASE UpdatesRole(r)
    <3>1. \A m \in members : WithRole(m, IF m.id = c.row.id THEN c.role ELSE m.role) \in MemberRow
      BY <1>t DEF MemberRow, WithRole
    <3> QED BY <2>2, <3>1 DEF UpdatesRole
  <2> QED
    BY <2>1, <2>2 DEF Does, Finds, Looks, Vacates, Answers, Counts, Claims, Teams, TeamAdds, Enters,
      Releases, CountsOwners, Deletes, TeamDeletes, ListsTeam, DropsTeam, StripsTeam, Fails, Starts,
      ReadsOnly, MarksOnly, Joins
<1>2. teamRows' \subseteq TeamRow
  <2>1. teamRows' \subseteq teamRows \cup {NewTeamRow(r)} \cup c.adds
    BY DEF Does, Finds, Looks, Vacates, Answers, Counts, Claims, Teams, TeamAdds, Enters,
      Releases, CountsOwners, Deletes, TeamDeletes, UpdatesRole, ListsTeam, DropsTeam, StripsTeam,
      Fails, Starts, ReadsOnly, MarksOnly
  <2> QED BY <1>t, <1>n, <2>1
<1>3. invitations' \in [Invitations -> Invitation]
  BY <1>t DEF Does, Finds, Looks, Vacates, Answers, Counts, Claims, Teams, TeamAdds, Enters,
    Releases, CountsOwners, Deletes, TeamDeletes, UpdatesRole, ListsTeam, DropsTeam, StripsTeam,
    Fails, Starts, ReadsOnly, MarksOnly, Marks, Strips
<1>4. team' \in BOOLEAN /\ raced' \in BOOLEAN
  BY <1>t DEF Does, Finds, Looks, Vacates, Answers, Counts, Claims, Teams, TeamAdds, Enters,
    Releases, CountsOwners, Deletes, TeamDeletes, UpdatesRole, ListsTeam, DropsTeam, StripsTeam,
    Fails, Starts, ReadsOnly, MarksOnly
<1> QED BY <1>1, <1>2, <1>3, <1>4

LEMMA PathKept ==
  ASSUME ConstantsOK, Base, NEW r \in Requests, Does(r)
  PROVE  Path(r)'
<1> DEFINE c == call[r]
<1>t. TypeOK /\ Path(r) /\ c.op \in Operations \cup {"none"}
  BY Types DEF Base
<1>f. deploy' = deploy /\ (c.at # "idle" => call'[r].op = c.op)
  BY Frame DEF At, Going
<1>m. \A m \in members : m # <<>>
  <2>1. \A m \in members : m \in [id : Makers, user : Users, role : Roles]
    BY <1>t DEF TypeOK, MemberRow
  <2>2. ASSUME NEW m \in members, m = <<>> PROVE FALSE
    <3>1. DOMAIN m = {"id", "user", "role"}
      BY <2>1
    <3>2. DOMAIN m = {}
      BY <2>2
    <3> QED BY <3>1, <3>2
  <2> QED BY <2>2
<1>1. CASE Looks(r) \/ Vacates(r) \/ Answers(r) \/ Counts(r) \/ Claims(r) \/ Teams(r) \/ Releases(r)
  BY <1>1, <1>t, <1>f DEF Looks, Vacates, Answers, Counts, Claims, Teams, Releases, Path, Goes, To,
    At, Op
<1>2. CASE Finds(r)
  BY <1>2, <1>t, <1>f, <1>m DEF Finds, Path, Goes, To, At, Op, Demotes
<1>3. CASE TeamAdds(r) \/ Enters(r)
  BY <1>3, <1>t, <1>f DEF TeamAdds, Enters, Joins, Path, Goes, To, At, Op
<1>4. CASE CountsOwners(r) \/ Deletes(r) \/ TeamDeletes(r) \/ UpdatesRole(r)
  BY <1>4, <1>t, <1>f DEF CountsOwners, Deletes, TakesOut, TeamDeletes, UpdatesRole, Path, Goes, To,
    At, Op
<1>5. CASE ListsTeam(r) \/ DropsTeam(r) \/ StripsTeam(r) \/ Fails(r)
  BY <1>5, <1>t, <1>f DEF ListsTeam, DropsTeam, StripsTeam, Fails, Path, Goes, To, At, Op, InFlight,
    Steps
<1>6. CASE \E op \in Operations : Starts(r, op)
  BY <1>6, <1>t, <1>f DEF Starts, Path, To, Operations
<1> QED BY <1>1, <1>2, <1>3, <1>4, <1>5, <1>6 DEF Does

LEMMA BaseKept ==
  ASSUME ConstantsOK, Base, [Next]_vars
  PROVE  Base'
<1>0. Moves /\ cut' \in BOOLEAN
  BY NextMoves, CutGrows DEF Base
<1>1. CASE \E r \in Requests : Does(r)
  <2>1. PICK r \in Requests : Does(r)
    BY <1>1
  <2>2. deploy' \in Deployments
    BY <2>1, Frame DEF Base, TypeOK
  <2>3. TypeOK'
    BY <1>0, <2>1, <2>2, CallTyped, RowsTyped DEF TypeOK
  <2>4. ASSUME NEW q \in Requests PROVE Path(q)'
    <3>1. CASE q = r
      BY <2>1, <3>1, PathKept
    <3>2. CASE q # r
      BY <2>1, <3>2, Frame DEF Base, Path, Same
    <3> QED BY <3>1, <3>2
  <2> QED BY <2>3, <2>4 DEF Base
<1>2. CASE \E i \in Invitations : Expires(i)
  BY <1>0, <1>2 DEF Base, TypeOK, Path, Expires, Marks
<1>3. CASE UNCHANGED vars
  BY <1>3 DEF Base, TypeOK, Path, vars
<1> QED BY <1>0, <1>1, <1>2, <1>3 DEF Moves

LEMMA BaseStart ==
  ASSUME ConstantsOK, Init
  PROVE  Base
<1>1. deploy \in Deployments
  BY DEF Init
<1>2. members \subseteq MemberRow
  BY <1>1, DeployTyped DEF Init, MemberRow, Makers, Roles
<1>3. invitations \in [Invitations -> Invitation]
  <2>1. deploy.invited \in Users /\ deploy.teams \in BOOLEAN
    BY <1>1, DeployTyped
  <2>2. ASSUME NEW i \in Invitations
        PROVE  [status |-> IF i = Past THEN "pending" ELSE "none", user |-> deploy.invited,
                team |-> i = Past /\ deploy.teams, live |-> i = Past] \in Invitation
    BY <2>1 DEF Invitation
  <2> QED BY <2>2 DEF Init
<1>4. NoCall \in Call
  BY DEF NoCall, Call, Invitations, Roles
<1>5. \A r \in Requests : call[r] = NoCall
  BY DEF Init
<1>6. TypeOK
  BY <1>1, <1>2, <1>3, <1>4 DEF Init, TypeOK
<1>7. NoCall.at = "idle" /\ NoCall.op = "none"
  BY DEF NoCall
<1>8. \A r \in Requests : Path(r)
  BY <1>5, <1>7 DEF Path
<1> QED BY <1>6, <1>8 DEF Base

-----------------------------------------------------------------------------
(* The rows of members have names *)

LEMMA JoinedStays ==
  ASSUME ConstantsOK, Base, NEW r \in Requests, Does(r), NEW q \in Requests, HasJoined(q)
  PROVE  HasJoined(q)'
<1>f. deploy' = deploy /\ (r # q => Same(q)) /\ (~At(r, "idle") => Going(r)) /\ Path(r)
  BY Frame DEF Base
<1>1. CASE q # r
  BY <1>1, <1>f DEF Same, HasJoined, At, Op
<1>2. CASE q = r
  <2>1. call[r].at \in {"ok", "active", "release", "rejected", "failed"}
    BY <1>2 DEF HasJoined, At
  <2>2. Enters(r) \/ Releases(r) \/ Fails(r)
    BY <2>1 DEF Does, Finds, Looks, Vacates, Answers, Counts, Claims, Teams, TeamAdds, CountsOwners,
      Deletes, TeamDeletes, UpdatesRole, ListsTeam, DropsTeam, StripsTeam, Starts, At
  <2>3. call[r].at \in {"active", "release"}
    BY <2>1, <2>2 DEF Enters, Releases, Fails, InFlight, Steps
  <2>4. ~deploy.atomic /\ Op(r) = "accept" /\ call'[r].op = "accept"
    BY <1>2, <1>f, <2>3 DEF HasJoined, At, Op, Going
  <2>5. call'[r].at \in {"ok", "rejected", "failed", "release"}
    BY <2>2, <2>3, <2>4 DEF Enters, Releases, Fails, Goes, To
  <2> QED BY <1>2, <1>f, <2>4, <2>5 DEF HasJoined, At, Op
<1> QED BY <1>1, <1>2

\* A step that makes a member, at place pc.
Admits(r, pc) ==
  /\ Joins(r, pc) /\ UNCHANGED <<deploy, invitations, team, raced>>
  /\ call[r].at \in {"member", "active"} /\ pc \in {"ok", "active"}
  /\ call[r].at = "active" <=> deploy.atomic /\ call[r].op = "accept"
  /\ pc = "active" <=> ~deploy.atomic /\ call[r].op = "accept"
  /\ IF call[r].at = "active" THEN teamRows' = teamRows \cup call[r].adds ELSE teamRows' = teamRows

\* How members change, and what others see of it.
LEMMA MembersChange ==
  ASSUME ConstantsOK, Base, NEW r \in Requests, Does(r)
  PROVE  \/ /\ members' = members
            /\ \A q \in Requests : /\ call'[q].joined \in {call[q].joined, {}}
                                   /\ q # r => call'[q].joined = call[q].joined
         \/ \E pc \in {"ok", "active"} : Admits(r, pc)
         \/ Deletes(r) \/ UpdatesRole(r)
<1>f. Path(r) /\ call[r].op \in Operations \cup {"none"}
  BY Types DEF Base
<1>1. CASE Enters(r)
  BY <1>1, <1>f DEF Enters, Admits, Alone, Goes, To, Path
<1>2. CASE TeamAdds(r) \/ (\E op \in Operations : Starts(r, op))
  BY <1>2 DEF TeamAdds, Starts, Alone, To
<1> QED
  BY <1>1, <1>2 DEF Does, Finds, Looks, Vacates, Answers, Counts, Claims, Teams, Releases,
    CountsOwners, TeamDeletes, ListsTeam, DropsTeam, StripsTeam, Fails, ReadsOnly, MarksOnly,
    Alone, Goes, To

\* Who makes a member has not made one before.
LEMMA JoinerNew ==
  ASSUME ConstantsOK, Base, MembersNamed, NEW r \in Requests, NEW pc \in {"ok", "active"},
         Admits(r, pc)
  PROVE  /\ ~HasJoined(r) /\ HasJoined(r)'
         /\ \A m \in members : m.id # r
         /\ \A q \in Requests : r \notin call[q].joined /\ (call[q].row # <<>> => call[q].row.id # r)
         /\ NewMember(r).id = r /\ NewMember(r).user = Target(r) /\ NewMember(r).role = "member"
<1>f. deploy' = deploy /\ Path(r) /\ call'[r].op = call[r].op /\ deploy.atomic \in BOOLEAN
  BY DeployTyped DEF Base, TypeOK, Admits, Joins, Keeps
<1>1. call[r].at = "member" => call[r].op \in {"accept", "addMember"}
  BY <1>f DEF Path
<1>2. ~HasJoined(r)
  BY <1>1 DEF Admits, HasJoined, At, Op
<1>3. HasJoined(r)'
  BY <1>f, <1>1 DEF Admits, HasJoined, At, Op, Joins, To
<1>4. /\ \A m \in members : m.id \in Requests => HasJoined(m.id)
      /\ \A q \in Requests : \A p \in call[q].joined : HasJoined(p)
      /\ \A q \in Requests : call[q].row # <<>> =>
           (call[q].row.id \in Requests => HasJoined(call[q].row.id))
  BY DEF MembersNamed
<1> QED BY <1>2, <1>3, <1>4 DEF NewMember

LEMMA NamesKept ==
  ASSUME ConstantsOK, Base, MembersNamed, NEW r \in Requests, Does(r)
  PROVE  /\ \A m, n \in members' : m.id = n.id => m = n
         /\ \A m \in members' : m.id \in Requests => HasJoined(m.id)'
         /\ \A w \in Requests \cup MemberRow :
              (\A m \in members : m.id = w.id => m.user = w.user)
              /\ (\A q \in Requests : w.id = q => HasJoined(q))
              => \A m \in members' : m.id = w.id => m.user = w.user
<1>i. /\ \A m, n \in members : m.id = n.id => m = n
      /\ \A m \in members : m.id \in Requests => HasJoined(m.id)
  BY DEF MembersNamed
<1>j. \A q \in Requests : HasJoined(q) => HasJoined(q)'
  BY JoinedStays
<1>1. CASE members' \subseteq members
  BY <1>1, <1>i, <1>j
<1>2. CASE \E pc \in {"ok", "active"} : Admits(r, pc)
  <2>1. PICK pc \in {"ok", "active"} : Admits(r, pc)
    BY <1>2
  <2>2. /\ ~HasJoined(r) /\ HasJoined(r)' /\ NewMember(r).id = r
        /\ \A m \in members : m.id # r
    BY <2>1, JoinerNew
  <2>3. members' = members \cup {NewMember(r)}
    BY <2>1 DEF Admits, Joins
  <2> QED BY <1>i, <1>j, <2>2, <2>3
<1>3. CASE UpdatesRole(r)
  <2> DEFINE f(m) == WithRole(m, IF m.id = call[r].row.id THEN call[r].role ELSE m.role)
  <2>1. members' = {f(m) : m \in members}
    BY <1>3 DEF UpdatesRole
  <2>2. \A m \in members : f(m).id = m.id /\ f(m).user = m.user
    BY DEF WithRole
  <2> HIDE DEF f
  <2> QED BY <1>i, <1>j, <2>1, <2>2
<1>4. CASE Deletes(r)
  BY <1>1, <1>4 DEF Deletes
<1> QED BY <1>1, <1>2, <1>3, <1>4, MembersChange

LEMMA MembersFinite ==
  ASSUME ConstantsOK, Base, MembersNamed, NEW r \in Requests, Does(r)
  PROVE  /\ IsFiniteSet(members') /\ \A q \in Requests : IsFiniteSet(call'[q].joined)
         /\ Cardinality(members) \in Nat /\ Cardinality(members') \in Nat
         /\ \A q \in Requests : /\ Cardinality(call[q].joined) \in Nat
                                /\ Cardinality(call'[q].joined) \in Nat
         /\ \/ Cardinality(members') <= Cardinality(members)
            \/ /\ \E pc \in {"ok", "active"} : Admits(r, pc)
               /\ Cardinality(members') = Cardinality(members) + 1
         /\ \A pc \in {"ok", "active"} : Admits(r, pc) =>
              \A q \in Requests : q # r /\ InFlight(q) =>
                Cardinality(call'[q].joined) = Cardinality(call[q].joined) + 1
<1>i. IsFiniteSet(members) /\ \A q \in Requests : IsFiniteSet(call[q].joined)
  BY DEF MembersNamed
<1>0. Cardinality(members) \in Nat /\ \A q \in Requests : Cardinality(call[q].joined) \in Nat
  BY <1>i, FS_CardinalityType
<1> DEFINE Fine ==
         /\ IsFiniteSet(members') /\ \A q \in Requests : IsFiniteSet(call'[q].joined)
         /\ \/ Cardinality(members') <= Cardinality(members)
            \/ /\ \E pc \in {"ok", "active"} : Admits(r, pc)
               /\ Cardinality(members') = Cardinality(members) + 1
<1>1. ASSUME members' = members,
             \A q \in Requests : call'[q].joined \in {call[q].joined, {}}
      PROVE  Fine
  <2>1. IsFiniteSet({})
    BY FS_EmptySet
  <2>2. \A q \in Requests : IsFiniteSet(call'[q].joined)
    BY <1>i, <1>1, <2>1
  <2> QED BY <1>0, <1>i, <1>1, <2>2
<1>2. ASSUME NEW pc \in {"ok", "active"}, Admits(r, pc)
      PROVE  /\ Fine
             /\ \A q \in Requests : q # r /\ InFlight(q) =>
                  Cardinality(call'[q].joined) = Cardinality(call[q].joined) + 1
  <2>1. /\ members' = members \cup {NewMember(r)}
        /\ call'[r].joined = call[r].joined
        /\ \A q \in Requests : q # r => call'[q].joined =
             IF InFlight(q) THEN call[q].joined \cup {r} ELSE call[q].joined
    BY <1>2 DEF Admits, Joins, To
  <2>2. NewMember(r) \notin members /\ \A q \in Requests : r \notin call[q].joined
    BY <1>2, JoinerNew
  <2>3. IsFiniteSet(members') /\ Cardinality(members') = Cardinality(members) + 1
    BY <1>i, <2>1, <2>2, FS_AddElement
  <2>4. ASSUME NEW q \in Requests, q # r
        PROVE  /\ IsFiniteSet(call'[q].joined)
               /\ InFlight(q) => Cardinality(call'[q].joined) = Cardinality(call[q].joined) + 1
    <3> DEFINE j == call[q].joined
    <3>1. IsFiniteSet(j) /\ r \notin j
      BY <1>i, <2>2
    <3>2. IsFiniteSet(j \cup {r}) /\ Cardinality(j \cup {r}) = Cardinality(j) + 1
      BY <3>1, FS_AddElement
    <3>3. call'[q].joined = IF InFlight(q) THEN j \cup {r} ELSE j
      BY <2>1, <2>4
    <3> QED BY <3>1, <3>2, <3>3
  <2> QED BY <1>2, <1>i, <2>1, <2>3, <2>4
<1>3. ASSUME Deletes(r) PROVE Fine
  <2>1. members' \in SUBSET members
    BY <1>3 DEF Deletes
  <2>2. IsFiniteSet(members') /\ Cardinality(members') <= Cardinality(members)
    BY <1>i, <2>1, FS_Subset
  <2>3. \A q \in Requests : call'[q].joined = call[q].joined
    BY <1>3 DEF Deletes, TakesOut, Goes, To
  <2> QED BY <1>i, <2>2, <2>3
<1>4. ASSUME UpdatesRole(r) PROVE Fine
  <2> DEFINE f == [m \in members |->
                     WithRole(m, IF m.id = call[r].row.id THEN call[r].role ELSE m.role)]
  <2>1. members' = {f[m] : m \in members}
    BY <1>4 DEF UpdatesRole
  <2>2. f \in [members -> members']
    BY <2>1
  <2>3. \A n \in members' : \E m \in members : f[m] = n
    BY <2>1
  <2> HIDE DEF f
  <2>4. f \in Surjection(members, members')
    BY <2>2, <2>3 DEF Surjection
  <2>5. IsFiniteSet(members') /\ Cardinality(members') <= Cardinality(members)
    BY <1>i, <2>4, FS_Surjection
  <2>6. \A q \in Requests : call'[q].joined = call[q].joined
    BY <1>4 DEF UpdatesRole, Alone, Goes, To
  <2> QED BY <1>i, <2>5, <2>6
<1> HIDE DEF Fine
<1>5. Fine
  BY <1>1, <1>2, <1>3, <1>4, MembersChange DEF Fine
<1>6. /\ Cardinality(members') \in Nat
      /\ \A q \in Requests : Cardinality(call'[q].joined) \in Nat
  BY <1>5, FS_CardinalityType DEF Fine
<1> QED BY <1>0, <1>2, <1>5, <1>6 DEF Fine

LEMMA MembersNamedKept ==
  ASSUME ConstantsOK, Base, MembersNamed, NEW r \in Requests, Does(r)
  PROVE  MembersNamed'
<1>t. /\ \A q \in Requests : call[q].row \in MemberRow \cup {<<>>}
      /\ members \subseteq MemberRow /\ TypeOK
  BY Types DEF Base, TypeOK
<1>i. MembersNamed
  OBVIOUS
<1>j. \A q \in Requests : HasJoined(q) => HasJoined(q)'
  BY JoinedStays
<1>1. \A q \in Requests : \A p \in call'[q].joined : HasJoined(p)'
  <2>1. CASE \A q \in Requests : call'[q].joined \in {call[q].joined, {}}
    BY <1>i, <1>j, <1>t, <2>1, Types DEF MembersNamed
  <2>2. ASSUME NEW pc \in {"ok", "active"}, Admits(r, pc)
        PROVE  \A q \in Requests : \A p \in call'[q].joined : HasJoined(p)'
    <3>1. \A q \in Requests : call'[q].joined \subseteq call[q].joined \cup {r}
      BY <2>2 DEF Admits, Joins, To
    <3>2. HasJoined(r)'
      BY <2>2, JoinerNew
    <3> QED BY <1>i, <1>j, <1>t, <3>1, <3>2, Types DEF MembersNamed
  <2>3. CASE Deletes(r) \/ UpdatesRole(r)
    BY <2>1, <2>3 DEF Deletes, UpdatesRole, TakesOut, Alone, Goes, To
  <2> QED BY <2>1, <2>2, <2>3, MembersChange
<1>2. ASSUME NEW q \in Requests, call'[q].row # <<>>
      PROVE  /\ \A p \in Requests : call'[q].row.id = p => HasJoined(p)'
             /\ \A m \in members' : m.id = call'[q].row.id => m.user = call'[q].row.user
  <2>1. CASE call'[q].row = call[q].row
    <3>1. /\ call[q].row \in MemberRow
          /\ call[q].row.id \in Requests => HasJoined(call[q].row.id)
          /\ \A m \in members : m.id = call[q].row.id => m.user = call[q].row.user
      BY <1>2, <1>t, <2>1 DEF MembersNamed
    <3> QED BY <1>j, <2>1, <3>1, NamesKept
  <2>2. CASE Finds(r) /\ q = r /\ \E t \in members : call'[r].row = t
    <3>1. members' = members
      BY <2>2 DEF Finds, ReadsOnly
    <3> QED BY <1>i, <1>j, <2>2, <3>1 DEF MembersNamed
  <2>3. call'[q].row = call[q].row \/ (Finds(r) /\ q = r /\ \E t \in members : call'[r].row = t)
    <3>1. CASE q # r
      BY <3>1, Frame DEF Same
    <3>2. CASE q = r
      BY <1>2, <3>2 DEF Does, Finds, Looks, Vacates, Answers, Counts, Claims, Teams, TeamAdds, Enters,
        Releases, CountsOwners, Deletes, TeamDeletes, UpdatesRole, ListsTeam, DropsTeam,
        StripsTeam, Fails, Starts, Joins, TakesOut, Goes, To
    <3> QED BY <3>1, <3>2
  <2> QED BY <2>1, <2>2, <2>3
<1>3. (\A m \in members : m.id \in Requests => HasJoined(m.id))'
  BY NamesKept
<1> QED BY <1>1, <1>2, <1>3, NamesKept, MembersFinite DEF MembersNamed

-----------------------------------------------------------------------------
(* The limit of members *)

\* What a request that makes no member knows of their number.
LEMMA CountedBefore ==
  ASSUME ConstantsOK, Base, NEW r \in Requests, Does(r)
  PROVE  /\ call[r].at \notin {"idle", "count"} /\ ~(\E pc \in {"ok", "active"} : Admits(r, pc)) =>
              call'[r].joined = call[r].joined
         /\ call[r].at \notin {"idle", "find", "count"} =>
              call'[r].at \notin {"idle", "find", "count"}
         /\ Counted(r)' => \/ Counted(r)
                           \/ /\ call[r].at = "count" /\ call'[r].joined = {}
                              /\ ~(Cardinality(members) >= deploy.limit)
<1>f. Path(r) /\ deploy' = deploy /\ call[r].op \in Operations \cup {"none"}
  BY Frame, Types DEF Base
<1>1. CASE Finds(r) \/ Looks(r) \/ Vacates(r) \/ Answers(r) \/ Counts(r) \/ Claims(r) \/ Teams(r)
  BY <1>1, <1>f DEF Finds, Looks, Vacates, Answers, Counts, Claims, Teams, Alone, Keeps, Goes, To,
    Path, Counted, At, Op
<1>2. CASE TeamAdds(r) \/ Enters(r) \/ Releases(r) \/ Fails(r)
  BY <1>2, <1>f DEF TeamAdds, Enters, Joins, Releases, Fails, Alone, Keeps, Goes, To, Path,
    Counted, Admits, At, Op, InFlight
<1>3. CASE \/ CountsOwners(r) \/ Deletes(r) \/ TeamDeletes(r) \/ UpdatesRole(r) \/ ListsTeam(r)
           \/ DropsTeam(r) \/ StripsTeam(r)
  BY <1>3, <1>f DEF CountsOwners, Deletes, TakesOut, TeamDeletes, UpdatesRole, ListsTeam,
    DropsTeam, StripsTeam, Alone, Keeps, Goes, To, Path, Counted, At, Op
<1>4. CASE \E op \in Operations : Starts(r, op)
  BY <1>4, <1>f DEF Starts, To, Counted, At, Op
<1> QED BY <1>1, <1>2, <1>3, <1>4 DEF Does

LEMMA RoomKept ==
  ASSUME ConstantsOK, Base, MembersNamed, Room, NEW r \in Requests, Does(r)
  PROVE  Room'
<1>l. deploy' = deploy /\ deploy.limit \in Nat
  BY Frame, DeployTyped DEF Base, TypeOK
<1>n. /\ Size \in Nat /\ Size' \in Nat
      /\ \A q \in Requests : Extra(q) \in Nat /\ Extra(q)' \in Nat
  BY MembersFinite DEF Size, Extra
<1>i. /\ \A q \in Requests : Counted(q) => Size < deploy.limit + Extra(q)
      /\ \/ Size <= deploy.limit
         \/ \E q \in Requests : /\ call[q].at \notin {"idle", "find", "count"}
                                /\ Size <= deploy.limit + Extra(q)
  BY DEF Room
<1>o. \A q \in Requests : q # r =>
        /\ call'[q].at = call[q].at /\ call'[q].op = call[q].op
        /\ Counted(q)' <=> Counted(q)
  BY <1>l, Frame DEF Same, Counted, At, Op
<1>1. CASE \E pc \in {"ok", "active"} : Admits(r, pc)
  <2>1. PICK pc \in {"ok", "active"} : Admits(r, pc)
    BY <1>1
  <2>2. /\ Size' <= Size + 1
        /\ \A q \in Requests : q # r /\ InFlight(q) => Extra(q)' = Extra(q) + 1
    BY <1>n, <2>1, MembersFinite DEF Size, Extra
  <2>3. /\ Counted(r) /\ ~Counted(r)' /\ call'[r].joined = call[r].joined
        /\ call'[r].at \notin {"idle", "find", "count"}
    <3>1. Path(r) /\ call'[r].op = call[r].op /\ deploy.atomic \in BOOLEAN
      BY <2>1, DeployTyped DEF Base, TypeOK, Admits, Joins, Keeps
    <3> QED BY <1>l, <2>1, <3>1 DEF Admits, Joins, To, Path, Counted, At, Op
  <2>4. Extra(r)' = Extra(r) /\ Size < deploy.limit + Extra(r)
    BY <1>i, <2>3 DEF Extra
  <2>5. \A q \in Requests : Counted(q) => InFlight(q)
    BY DEF Counted, InFlight, Steps, At
  <2>6. \A q \in Requests : Counted(q)' => Size' < (deploy.limit)' + Extra(q)'
    <3> SUFFICES ASSUME NEW q \in Requests, Counted(q)'
                 PROVE  Size' < deploy.limit + Extra(q)'
      BY <1>l
    <3>1. q # r /\ Counted(q) /\ InFlight(q)
      BY <1>o, <2>3, <2>5
    <3> QED BY <1>i, <1>l, <1>n, <2>2, <3>1
  <2>7. Size' <= deploy.limit + Extra(r)'
    BY <1>l, <1>n, <2>2, <2>4
  <2> QED BY <1>l, <2>3, <2>6, <2>7 DEF Room
<1>2. CASE ~(\E pc \in {"ok", "active"} : Admits(r, pc))
  <2>1. Size' <= Size
    BY <1>2, MembersFinite DEF Size
  <2>2. \A q \in Requests : q # r => call'[q].joined = call[q].joined
    BY <1>2, MembersChange DEF Deletes, UpdatesRole, TakesOut, Alone, To
  <2>3. \A q \in Requests : q # r => Extra(q)' = Extra(q)
    BY <2>2 DEF Extra
  <2>4. ASSUME NEW q \in Requests, Counted(q)' PROVE Size' < deploy.limit + Extra(q)'
    <3>1. CASE q # r
      BY <1>i, <1>l, <1>n, <1>o, <2>1, <2>3, <2>4, <3>1
    <3>2. CASE q = r /\ Counted(r)
      <4>1. call'[r].joined = call[r].joined
        BY <1>2, <3>2, CountedBefore DEF Counted, At
      <4>2. Extra(r)' = Extra(r)
        BY <4>1 DEF Extra
      <4> QED BY <1>i, <1>l, <1>n, <2>1, <3>2, <4>2
    <3>3. CASE q = r /\ ~Counted(r)
      <4>1. call'[r].joined = {} /\ ~(Size >= deploy.limit)
        BY <2>4, <3>3, CountedBefore DEF Size
      <4>2. Extra(r)' = 0
        BY <4>1, FS_EmptySet DEF Extra
      <4> QED BY <1>l, <1>n, <2>1, <3>3, <4>1, <4>2
    <3> QED BY <3>1, <3>2, <3>3
  <2>5. \/ Size' <= deploy.limit
        \/ \E q \in Requests : /\ call'[q].at \notin {"idle", "find", "count"}
                               /\ Size' <= deploy.limit + Extra(q)'
    <3>1. CASE Size <= deploy.limit
      BY <1>l, <1>n, <2>1, <3>1
    <3>2. CASE \E q \in Requests : /\ call[q].at \notin {"idle", "find", "count"}
                                   /\ Size <= deploy.limit + Extra(q)
      <4>1. PICK q \in Requests : /\ call[q].at \notin {"idle", "find", "count"}
                                  /\ Size <= deploy.limit + Extra(q)
        BY <3>2
      <4>2. Extra(q)' = Extra(q) /\ call'[q].at \notin {"idle", "find", "count"}
        <5>1. CASE q # r
          BY <1>o, <2>3, <4>1, <5>1
        <5>2. CASE q = r
          BY <1>2, <4>1, <5>2, CountedBefore DEF Extra
        <5> QED BY <5>1, <5>2
      <4> QED BY <1>l, <1>n, <2>1, <4>1, <4>2
    <3> QED BY <1>i, <3>1, <3>2
  <2> QED BY <1>l, <2>4, <2>5 DEF Room
<1> QED BY <1>1, <1>2

-----------------------------------------------------------------------------
(* Invitations are held *)

\* Whether a request holds or has found an invitation, across its step.
LEMMA HeldChange ==
  ASSUME ConstantsOK, Base, NEW r \in Requests, Does(r)
  PROVE  /\ Held(r)' => /\ call'[r].inv = call[r].inv
                        /\ Held(r) \/ (At(r, "claim") /\ invitations'[call[r].inv].status = "accepted"
                                       /\ invitations[call[r].inv].status = "pending")
         /\ Held(r) => \/ Held(r)' /\ call'[r].inv = call[r].inv
                       \/ At(r, "release") /\ invitations'[call[r].inv].status = "pending"
                       \/ call'[r].at = "failed" /\ call'[r].inv = call[r].inv
         /\ Op(r) = "accept" => call'[r].op = "accept" /\ call'[r].at # "idle"
         /\ Op(r) = "accept" /\ At(r, "failed") => call'[r].at = "failed" /\ call'[r].inv = call[r].inv
         /\ Found(r)' => \/ Found(r) /\ call'[r].inv = call[r].inv
                         \/ invitations' = invitations /\ invitations[call'[r].inv].status # "none"
         /\ At(r, "ok") => call'[r].at = "ok"
<1>f. Path(r) /\ call[r].op \in Operations \cup {"none"}
  BY Types DEF Base
<1> USE DEF Alone, Keeps, Goes, To, Path, Held, Found, At, Op, ReadsOnly, MarksOnly, Marks
<1>1. CASE Finds(r)
  BY <1>1, <1>f DEF Finds, Demotes
<1>2. CASE Looks(r) \/ Vacates(r)
  BY <1>2, <1>f DEF Looks, Vacates
<1>3. CASE Answers(r)
  BY <1>3, <1>f DEF Answers
<1>4. CASE Counts(r) \/ Teams(r)
  BY <1>4, <1>f DEF Counts, Teams
<1>5. CASE Claims(r)
  BY <1>5, <1>f DEF Claims
<1>6. CASE TeamAdds(r) \/ Releases(r)
  BY <1>6, <1>f DEF TeamAdds, Releases
<1>7. CASE Enters(r)
  BY <1>7, <1>f DEF Enters, Joins
<1>8. CASE CountsOwners(r) \/ Deletes(r) \/ TeamDeletes(r) \/ UpdatesRole(r)
  BY <1>8, <1>f DEF CountsOwners, Deletes, TakesOut, TeamDeletes, UpdatesRole
<1>9. CASE ListsTeam(r) \/ DropsTeam(r) \/ StripsTeam(r)
  BY <1>9, <1>f DEF ListsTeam, DropsTeam, StripsTeam
<1>10. CASE Fails(r)
  BY <1>10, <1>f DEF Fails, InFlight, Steps
<1>11. CASE \E op \in Operations : Starts(r, op)
  BY <1>11, <1>f DEF Starts
<1> QED BY <1>1, <1>2, <1>3, <1>4, <1>5, <1>6, <1>7, <1>8, <1>9, <1>10, <1>11 DEF Does

\* Who writes the status of an invitation.
LEMMA StatusChange ==
  ASSUME ConstantsOK, Base, NEW r \in Requests, Does(r), NEW i \in Invitations
  PROVE  \/ invitations'[i].status = invitations[i].status
         \/ /\ i = call[r].inv /\ call[r].at \in {"cancelOld", "status"}
            /\ invitations'[i].status \in {"rejected", "canceled"}
         \/ i = r /\ At(r, "create") /\ call'[r].at = "ok" /\ invitations'[i].status = "pending"
         \/ /\ i = call[r].inv /\ At(r, "claim") /\ Held(r)' /\ call'[r].inv = i
            /\ invitations'[i].status = "accepted"
         \/ i = call[r].inv /\ At(r, "release") /\ invitations'[i].status = "pending"
<1>f. Path(r)
  BY DEF Base
<1>1. CASE invitations' = invitations
  BY <1>1
<1>2. CASE Answers(r)
  BY <1>2 DEF Answers, MarksOnly, Marks, Goes, To, At
<1>3. CASE Claims(r)
  BY <1>3, <1>f DEF Claims, ReadsOnly, MarksOnly, Marks, Alone, Keeps, To, At, Op, Held, Path
<1>4. CASE Releases(r)
  BY <1>4 DEF Releases, MarksOnly, Marks, At
<1>5. CASE DropsTeam(r) \/ StripsTeam(r)
  BY <1>5 DEF DropsTeam, StripsTeam, Strips
<1> QED
  BY <1>1, <1>2, <1>3, <1>4, <1>5 DEF Does, Finds, Looks, Vacates, Counts, Teams, TeamAdds, Enters,
    CountsOwners, Deletes, TeamDeletes, UpdatesRole, ListsTeam, Fails, Starts, ReadsOnly

LEMMA HeldOnceKept ==
  ASSUME ConstantsOK, Base, HeldOnce, NEW r \in Requests, Does(r)
  PROVE  HeldOnce'
<1> DEFINE st(i) == invitations[i].status
<1>i. /\ \A p, q \in Requests : Held(p) /\ Held(q) /\ call[p].inv = call[q].inv => p = q
      /\ \A q \in Requests : Held(q) => st(call[q].inv) # "pending"
      /\ \A q \in Requests : Found(q) => st(call[q].inv) # "none"
      /\ \A q \in Requests : st(q) # "none" => At(q, "ok")
      /\ \A i \in Invitations : st(i) = "accepted" =>
           \E q \in Requests : /\ Op(q) = "accept" /\ call[q].inv = i
                               /\ Held(q) \/ At(q, "failed")
  BY DEF HeldOnce
<1>v. /\ \A q \in Requests : call[q].inv \in Invitations /\ call'[q].inv \in Invitations
      /\ \A q \in Requests : q \in Invitations
  <2>1. call \in [Requests -> Call] /\ call' \in [Requests -> Call]
    BY CallTyped DEF Base, TypeOK
  <2> QED BY <2>1 DEF Call, Invitations
<1>o. \A q \in Requests : q # r =>
        /\ call'[q].at = call[q].at /\ call'[q].inv = call[q].inv /\ call'[q].op = call[q].op
        /\ (Held(q)' <=> Held(q)) /\ (Found(q)' <=> Found(q))
  BY Frame DEF Same, Held, Found, At, Op
<1>h. /\ \A q \in Requests : Held(q) => Found(q)
      /\ \A q \in Requests : Held(q) => Op(q) = "accept"
      /\ \A q \in Requests : Held(q)' => call'[q].op = "accept"
  BY DEF Held, Found, Op
<1>c. \A i \in Invitations :
         \/ invitations'[i].status = st(i)
         \/ /\ i = call[r].inv /\ call[r].at \in {"cancelOld", "status"}
            /\ invitations'[i].status \in {"rejected", "canceled"}
         \/ i = r /\ At(r, "create") /\ call'[r].at = "ok" /\ invitations'[i].status = "pending"
         \/ /\ i = call[r].inv /\ At(r, "claim") /\ Held(r)' /\ call'[r].inv = i
            /\ invitations'[i].status = "accepted"
         \/ i = call[r].inv /\ At(r, "release") /\ invitations'[i].status = "pending"
  BY StatusChange
<1>g. /\ At(r, "release") => Held(r) /\ ~Held(r)'
      /\ At(r, "claim") => Found(r) /\ Op(r) = "accept"
      /\ At(r, "cancelOld") \/ At(r, "status") \/ At(r, "release") => Found(r)
  <2>1. Path(r)
    BY DEF Base
  <2>2. At(r, "release") => call'[r].at \in {"rejected", "failed"}
    BY DEF Does, Finds, Looks, Vacates, Answers, Counts, Claims, Teams, TeamAdds, Enters, Releases,
      CountsOwners, Deletes, TeamDeletes, UpdatesRole, ListsTeam, DropsTeam, StripsTeam, Fails,
      Starts, At, Goes, To
  <2> QED BY <2>1, <2>2 DEF Path, Held, Found, At, Op
<1>1. ASSUME NEW p \in Requests, NEW q \in Requests, Held(p)', Held(q)',
             call'[p].inv = call'[q].inv
      PROVE  p = q
  <2>1. ASSUME NEW x \in Requests, x # r, Held(x)', Held(r)', call'[x].inv = call'[r].inv
        PROVE  FALSE
    <3>1. Held(x) /\ call'[r].inv = call[r].inv /\ call[x].inv = call[r].inv
      BY <1>o, <2>1, HeldChange
    <3>2. Held(r) \/ st(call[r].inv) = "pending"
      BY <2>1, HeldChange
    <3> QED BY <1>i, <2>1, <3>1, <3>2
  <2> QED BY <1>1, <1>i, <1>o, <2>1
<1>2. ASSUME NEW q \in Requests, Held(q)' PROVE invitations'[call'[q].inv].status # "pending"
  <2>1. CASE q # r
    <3>1. Held(q) /\ call'[q].inv = call[q].inv /\ call[q].inv \in Invitations
      BY <1>2, <1>o, <1>v, <2>1
    <3>2. st(call[q].inv) # "pending" /\ st(call[q].inv) # "none"
      BY <1>h, <1>i, <3>1
    <3>3. At(r, "create") => call[q].inv # r
      BY <1>i, <3>2 DEF At
    <3>4. At(r, "release") => call[q].inv # call[r].inv
      BY <1>g, <1>i, <2>1, <3>1
    <3> QED BY <1>c, <3>1, <3>2, <3>3, <3>4
  <2>2. CASE q = r
    <3>1. call'[r].inv = call[r].inv /\ call[r].inv \in Invitations
      BY <1>2, <1>v, <2>2, HeldChange
    <3>2. CASE Held(r)
      <4>1. st(call[r].inv) # "pending" /\ st(call[r].inv) # "none"
        BY <1>h, <1>i, <3>2
      <4>2. At(r, "create") => call[r].inv # r
        BY <1>i, <4>1 DEF At
      <4> QED BY <1>2, <1>c, <1>g, <2>2, <3>1, <4>1, <4>2
    <3>3. CASE ~Held(r)
      BY <1>2, <2>2, <3>1, <3>3, HeldChange
    <3> QED BY <3>2, <3>3
  <2> QED BY <2>1, <2>2
<1>n. \A i \in Invitations : st(i) # "none" => invitations'[i].status # "none"
  BY <1>c
<1>3. ASSUME NEW q \in Requests, Found(q)' PROVE invitations'[call'[q].inv].status # "none"
  <2>1. CASE q # r
    BY <1>3, <1>i, <1>n, <1>o, <1>v, <2>1
  <2>2. CASE q = r
    BY <1>3, <1>i, <1>n, <1>v, <2>2, HeldChange
  <2> QED BY <2>1, <2>2
<1>4. ASSUME NEW q \in Requests, invitations'[q].status # "none" PROVE call'[q].at = "ok"
  <2>1. CASE st(q) # "none"
    BY <1>i, <1>o, <2>1, HeldChange DEF At
  <2>2. CASE st(q) = "none"
    <3>1. ~(q = call[r].inv /\ Found(r))
      <4>1. Found(r) => st(call[r].inv) # "none"
        BY <1>i
      <4> QED BY <2>2, <4>1
    <3> QED BY <1>4, <1>c, <1>g, <1>v, <2>2, <3>1 DEF At
  <2> QED BY <2>1, <2>2
<1>5. ASSUME NEW i \in Invitations, invitations'[i].status = "accepted"
      PROVE  \E q \in Requests : /\ call'[q].op = "accept" /\ call'[q].inv = i
                                 /\ Held(q)' \/ call'[q].at = "failed"
  <2>1. CASE st(i) = "accepted"
    <3>1. PICK q \in Requests : /\ Op(q) = "accept" /\ call[q].inv = i
                                /\ Held(q) \/ At(q, "failed")
      BY <1>i, <2>1
    <3>2. CASE q # r
      BY <1>o, <3>1, <3>2 DEF At, Op
    <3>3. CASE q = r
      BY <1>5, <3>1, <3>3, HeldChange
    <3> QED BY <3>2, <3>3
  <2>2. CASE st(i) # "accepted"
    BY <1>5, <1>c, <1>h, <2>2
  <2> QED BY <2>1, <2>2
<1> HIDE DEF st
<1>6. /\ \A p, q \in Requests : Held(p)' /\ Held(q)' /\ call'[p].inv = call'[q].inv => p = q
      /\ \A q \in Requests : Held(q)' => invitations'[call'[q].inv].status # "pending"
      /\ \A q \in Requests : Found(q)' => invitations'[call'[q].inv].status # "none"
      /\ \A q \in Requests : invitations'[q].status # "none" => call'[q].at = "ok"
      /\ \A i \in Invitations : invitations'[i].status = "accepted" =>
           \E q \in Requests : /\ call'[q].op = "accept" /\ call'[q].inv = i
                               /\ Held(q)' \/ call'[q].at = "failed"
  BY <1>1, <1>2, <1>3, <1>4, <1>5
<1> QED BY <1>6 DEF HeldOnce, At, Op

-----------------------------------------------------------------------------
(* An owner remains *)

LEMMA TwoOwners ==
  ASSUME MembersNamed, ~(Cardinality(Owners) <= 1), NEW w
  PROVE  \E n \in Owners : n.id # w
<1>1. SUFFICES ASSUME \A n \in Owners : n.id = w PROVE FALSE
  OBVIOUS
<1>2. Owners \in SUBSET members /\ IsFiniteSet(members)
  BY DEF MembersNamed, Owners
<1>3. IsFiniteSet(Owners)
  BY <1>2, FS_Subset
<1>4. \A m, n \in Owners : m = n
  BY <1>1, <1>2 DEF MembersNamed
<1>5. Owners = {} \/ \E x : Owners = {x}
  BY <1>4
<1>6. Cardinality(Owners) = 0 \/ Cardinality(Owners) = 1
  BY <1>3, <1>5, FS_EmptySet, FS_Singleton
<1> QED BY <1>6

\* How the requests that can take an owner's role go.
LEMMA DemotingChange ==
  ASSUME ConstantsOK, Base, NEW r \in Requests, Does(r)
  PROVE  /\ raced => raced'
         /\ Demoting(r)' => \/ Demoting(r)
                            \/ raced' <=> raced \/ \E q \in Requests : Demoting(q)
         /\ Deletes(r) \/ UpdatesRole(r) => Demoting(r)
         /\ call'[r].at \in {"delete", "update"} =>
              /\ members' = members
              /\ \/ CountsOwners(r) /\ call'[r].row = call[r].row
                 \/ \E m, t \in members :
                      /\ call'[r].row = t
                      /\ call'[r].at = "delete" => t.role # "owner"
                      /\ call'[r].at = "update" => m.role = "owner" /\ m # t
<1>f. Path(r) /\ call[r].op \in Operations \cup {"none"} /\ raced \in BOOLEAN /\ raced' \in BOOLEAN
  BY Types, RowsTyped DEF Base, TypeOK
<1>1. CASE \E op \in Operations : Starts(r, op)
  BY <1>1, <1>f DEF Starts, To, Demoting, Deletes, UpdatesRole, At, Op, InFlight
<1>2. CASE ~(\E op \in Operations : Starts(r, op))
  <2>1. raced' = raced /\ (InFlight(r)' => InFlight(r)) /\ ~At(r, "idle")
    BY <1>2 DEF Does, Finds, Looks, Vacates, Answers, Counts, Claims, Teams, TeamAdds, Enters,
      Releases, CountsOwners, Deletes, TeamDeletes, UpdatesRole, ListsTeam, DropsTeam, StripsTeam,
      Fails, ReadsOnly, MarksOnly, At, InFlight, Steps
  <2>2. call'[r].op = call[r].op
    BY <2>1, Frame DEF Going
  <2>3. Deletes(r) \/ UpdatesRole(r) => Demoting(r)
    BY <1>f DEF Deletes, UpdatesRole, Demoting, InFlight, Steps, Demotes, Path, At, Op
  <2>4. call'[r].at \in {"delete", "update"} => CountsOwners(r) \/ Finds(r)
    BY <1>2 DEF Does, Looks, Vacates, Answers, Counts, Claims, Teams, TeamAdds, Enters,
      Joins, Releases, Deletes, TakesOut, TeamDeletes, UpdatesRole, ListsTeam, DropsTeam,
      StripsTeam, Fails, Goes, To
  <2>5. CountsOwners(r) => members' = members /\ call'[r].row = call[r].row
    BY DEF CountsOwners, ReadsOnly, Goes, To
  <2>6. Finds(r) /\ call'[r].at \in {"delete", "update"} =>
          /\ members' = members
          /\ \E m, t \in members :
               /\ call'[r].row = t
               /\ call'[r].at = "delete" => t.role # "owner"
               /\ call'[r].at = "update" => m.role = "owner" /\ m # t
    BY DEF Finds, ReadsOnly, Goes, To
  <2> QED BY <2>1, <2>2, <2>3, <2>4, <2>5, <2>6 DEF Demoting, Op
<1> QED BY <1>1, <1>2

LEMMA OwnersKept ==
  ASSUME ConstantsOK, Base, MembersNamed, OneDemotes, NEW r \in Requests, Does(r), ~raced
  PROVE  /\ Owners' # {}
         /\ ~(Deletes(r) \/ UpdatesRole(r)) => Owners \subseteq Owners'
<1>i. /\ Owners # {}
      /\ At(r, "delete") => Another(r)
      /\ At(r, "update") => call[r].role = "owner" \/ Another(r)
  BY DEF OneDemotes
<1>1. CASE members \subseteq members'
  BY <1>1, <1>i DEF Owners, Deletes, UpdatesRole
<1>2. CASE Deletes(r)
  <2>1. PICK n \in Owners : n.id # call[r].row.id
    BY <1>2, <1>i DEF Deletes, Another
  <2>2. n \in Owners'
    BY <1>2, <2>1 DEF Deletes, Owners
  <2> QED BY <1>2, <2>2
<1>3. CASE UpdatesRole(r)
  <2> DEFINE f(m) == WithRole(m, IF m.id = call[r].row.id THEN call[r].role ELSE m.role)
  <2>1. members' = {f(m) : m \in members}
    BY <1>3 DEF UpdatesRole
  <2>2. \A m \in members : f(m).role = IF m.id = call[r].row.id THEN call[r].role ELSE m.role
    BY DEF WithRole
  <2>3. \E n \in Owners : n.id = call[r].row.id => call[r].role = "owner"
    BY <1>3, <1>i DEF UpdatesRole, At, Another
  <2>4. PICK n \in Owners : n.id = call[r].row.id => call[r].role = "owner"
    BY <2>3
  <2>5. n \in members /\ n.role = "owner"
    BY <2>4 DEF Owners
  <2> HIDE DEF f
  <2>6. f(n) \in members' /\ f(n).role = "owner"
    BY <2>1, <2>2, <2>4, <2>5
  <2> QED BY <1>3, <2>6 DEF Owners
<1>4. \A pc \in {"ok", "active"} : Admits(r, pc) => members \subseteq members'
  BY DEF Admits, Joins
<1> QED BY <1>1, <1>2, <1>3, <1>4, MembersChange

LEMMA OneDemotesKept ==
  ASSUME ConstantsOK, Base, MembersNamed, OneDemotes, NEW r \in Requests, Does(r)
  PROVE  OneDemotes'
<1> SUFFICES ASSUME ~raced'
             PROVE  /\ Owners' # {}
                    /\ \A p, q \in Requests : Demoting(p)' /\ Demoting(q)' => p = q
                    /\ \A q \in Requests :
                         /\ call'[q].at = "delete" => Another(q)'
                         /\ call'[q].at = "update" => call'[q].role = "owner" \/ Another(q)'
  BY DEF OneDemotes, At
<1>0. ~raced
  BY DemotingChange
<1>i. /\ Owners # {}
      /\ \A p, q \in Requests : Demoting(p) /\ Demoting(q) => p = q
      /\ \A q \in Requests :
           /\ At(q, "delete") => Another(q)
           /\ At(q, "update") => call[q].role = "owner" \/ Another(q)
  BY <1>0 DEF OneDemotes
<1>o. \A q \in Requests : q # r =>
        /\ call'[q].at = call[q].at /\ call'[q].row = call[q].row /\ call'[q].role = call[q].role
        /\ (Demoting(q)' <=> Demoting(q))
  BY Frame DEF Same, Demoting, InFlight, Op
<1>1. ASSUME NEW p \in Requests, NEW q \in Requests, Demoting(p)', Demoting(q)' PROVE p = q
  <2>1. ASSUME NEW x \in Requests, x # r, Demoting(x)', Demoting(r)' PROVE FALSE
    <3>1. Demoting(x) /\ ~Demoting(r)
      BY <1>i, <1>o, <2>1
    <3> QED BY <2>1, <3>1, DemotingChange
  <2> QED BY <1>1, <1>i, <1>o, <2>1
<1>2. ASSUME NEW q \in Requests, q # r, call'[q].at \in {"delete", "update"}
      PROVE  /\ call'[q].at = "delete" => Another(q)'
             /\ call'[q].at = "update" => call'[q].role = "owner" \/ Another(q)'
  <2>1. Demoting(q)
    <3>1. Path(q) /\ call[q].at \in {"delete", "update"}
      BY <1>2, <1>o DEF Base
    <3> QED BY <3>1 DEF Path, Demoting, InFlight, Steps, Op, Demotes
  <2>2. ~Demoting(r)
    BY <1>2, <1>i, <2>1
  <2>3. Owners \subseteq Owners'
    BY <1>0, <2>2, DemotingChange, OwnersKept
  <2> QED BY <1>2, <1>i, <1>o, <2>3 DEF Another, At
<1>3. ASSUME call'[r].at \in {"delete", "update"}
      PROVE  /\ call'[r].at = "delete" => Another(r)'
             /\ call'[r].at = "update" => call'[r].role = "owner" \/ Another(r)'
  <2>1. members' = members /\ Owners' = Owners
    BY <1>3, DemotingChange DEF Owners
  <2>2. CASE CountsOwners(r) /\ call'[r].row = call[r].row
    <3>1. /\ call'[r].role = call[r].role
          /\ \/ call'[r].at = "update" /\ call[r].role = "owner"
             \/ ~(Cardinality(Owners) <= 1)
      <4>1. Path(r)
        BY DEF Base
      <4> QED BY <1>3, <2>2, <4>1 DEF CountsOwners, Alone, Keeps, Goes, To
    <3>2. CASE ~(Cardinality(Owners) <= 1)
      <4>1. \E n \in Owners : n.id # call[r].row.id
        BY <3>2, TwoOwners
      <4> QED BY <2>1, <2>2, <4>1 DEF Another
    <3> QED BY <3>1, <3>2
  <2>3. CASE \E m, t \in members :
               /\ call'[r].row = t
               /\ call'[r].at = "delete" => t.role # "owner"
               /\ call'[r].at = "update" => m.role = "owner" /\ m # t
    <3>1. PICK m \in members, t \in members :
               /\ call'[r].row = t
               /\ call'[r].at = "delete" => t.role # "owner"
               /\ call'[r].at = "update" => m.role = "owner" /\ m # t
      BY <2>3
    <3>2. \E n \in Owners : n # t
      BY <1>3, <1>i, <3>1 DEF Owners
    <3>3. \E n \in Owners : n.id # t.id
      BY <3>1, <3>2 DEF MembersNamed, Owners
    <3> QED BY <2>1, <3>1, <3>3 DEF Another
  <2> QED BY <1>3, <2>2, <2>3, DemotingChange
<1>4. Owners' # {}
  BY <1>0, OwnersKept
<1> QED BY <1>1, <1>2, <1>3, <1>4

-----------------------------------------------------------------------------
(* The team is made of members *)

LEMMA MemberStays ==
  ASSUME ConstantsOK, Base, MembersNamed, NEW r \in Requests, Does(r), NEW u, IsMember(u)
  PROVE  IsMember(u)' \/ (Deletes(r) /\ u = call[r].row.user)
<1>1. PICK m \in members : m.user = u
  BY DEF IsMember
<1>2. CASE m \in members'
  BY <1>1, <1>2 DEF IsMember
<1>3. CASE UpdatesRole(r)
  <2> DEFINE n == WithRole(m, IF m.id = call[r].row.id THEN call[r].role ELSE m.role)
  <2>1. n \in members' /\ n.user = m.user
    BY <1>3 DEF UpdatesRole, WithRole
  <2> QED BY <1>1, <2>1 DEF IsMember
<1>4. CASE Deletes(r) /\ m \notin members'
  <2>1. m.id = call[r].row.id
    BY <1>4 DEF Deletes
  <2>2. call[r].row # <<>>
    BY <1>4 DEF Base, Path, Deletes, At
  <2>3. m.user = call[r].row.user
    BY <2>1, <2>2 DEF MembersNamed
  <2> QED BY <1>1, <1>4, <2>3
<1>5. \A pc \in {"ok", "active"} : Admits(r, pc) => m \in members'
  BY DEF Admits, Joins
<1> QED BY <1>2, <1>3, <1>4, <1>5, MembersChange

\* What a step does to the rows of the team where the adapter has transactions.
LEMMA TeamChange ==
  ASSUME ConstantsOK, Base, NEW r \in Requests, Does(r), deploy.atomic, ~deploy.manyTeams
  PROVE  /\ \A t \in teamRows' :
              \/ t \in teamRows
              \/ t = NewTeamRow(r) /\ call'[r].at = "member" /\ Op(r) = "addMember"
              \/ /\ t = NewTeamRow(r) /\ call'[r].at = "ok" /\ Op(r) = "addToTeam"
                 /\ At(r, "teamAdd") /\ members' = members
              \/ t \in call[r].adds /\ call'[r].at = "ok" /\ NewMember(r) \in members' /\ Op(r) = "accept"
         /\ Deletes(r) => \A t \in teamRows' : t.user # call[r].row.user
         /\ \A t \in call'[r].adds : t \in call[r].adds \/ t = NewTeamRow(r)
         /\ At(r, "member") /\ Op(r) = "addMember" =>
              call'[r].at = "failed" \/ (call'[r].at = "ok" /\ NewMember(r) \in members')
         /\ call[r].at \notin {"ok", "failed", "idle"} \/ At(r, "idle")
         /\ ~At(r, "idle") /\ Op(r) = "addToTeam" /\ call'[r].at \in {"team", "teamAdd"} =>
              \/ call[r].at \in {"team", "teamAdd"}
              \/ IsMember(Target(r)) /\ members' = members
<1>f. Path(r)
  BY DEF Base
<1>a. CASE At(r, "idle")
  BY <1>a DEF Does, Finds, Looks, Vacates, Answers, Counts, Claims, Teams, TeamAdds, Enters, Releases,
    CountsOwners, Deletes, TeamDeletes, UpdatesRole, ListsTeam, DropsTeam, StripsTeam, Fails, Starts,
    ReadsOnly, At, To, InFlight, Steps
<1>1. CASE Finds(r)
  BY <1>1 DEF Finds, Deletes, ReadsOnly, Goes, To, At, Op, Demotes
<1>2. CASE TeamAdds(r)
  BY <1>2, <1>f DEF TeamAdds, Deletes, Goes, To, At, Op, Path
<1>3. CASE Enters(r)
  BY <1>3, <1>f DEF Enters, Joins, Deletes, Goes, To, At, Op, Path
<1>4. CASE Counts(r) \/ Teams(r) \/ Claims(r) \/ Releases(r)
  BY <1>4, <1>f DEF Counts, Teams, Claims, Releases, Deletes, ReadsOnly, MarksOnly, Goes, To, At, Op,
    Path
<1>5. CASE Deletes(r)
  BY <1>5, <1>f DEF Deletes, TakesOut, Goes, To, At, Op, Path
<1>6. CASE Looks(r) \/ Vacates(r) \/ Answers(r)
  BY <1>6, <1>f DEF Looks, Vacates, Answers, Deletes, ReadsOnly, MarksOnly, Goes, To, At, Op, Path
<1>7. CASE CountsOwners(r) \/ TeamDeletes(r) \/ UpdatesRole(r)
  BY <1>7, <1>f DEF CountsOwners, TeamDeletes, UpdatesRole, Deletes, ReadsOnly, Goes, To, At, Op, Path
<1>8. CASE ListsTeam(r) \/ DropsTeam(r) \/ StripsTeam(r)
  BY <1>8, <1>f DEF ListsTeam, DropsTeam, StripsTeam, Deletes, ReadsOnly, Goes, To, At, Op, Path
<1>9. CASE Fails(r)
  BY <1>9, <1>f DEF Fails, Deletes, ReadsOnly, InFlight, Steps, Goes, To, At, Op, Path
<1>10. CASE \E op \in Operations : Starts(r, op)
  BY <1>10, <1>a DEF Starts
<1> QED BY <1>1, <1>2, <1>3, <1>4, <1>5, <1>6, <1>7, <1>8, <1>9, <1>10 DEF Does

LEMMA TeamNamedKept ==
  ASSUME ConstantsOK, Base, MembersNamed, TeamNamed, NEW r \in Requests, Does(r)
  PROVE  TeamNamed'
<1>f. deploy' = deploy /\ Path(r)
  BY Frame DEF Base
<1> SUFFICES ASSUME deploy.atomic, ~deploy.manyTeams
             PROVE  /\ \A t \in teamRows' :
                         /\ t.id \in Requests
                         /\ t.user = Target(t.id)' /\ call'[t.id].at \in {"member", "ok", "failed"}
                         /\ call'[t.id].at \in {"member", "failed"} => Op(t.id)' = "addMember"
                         /\ At(t.id, "ok")' => IsMember(t.user)' \/ t.user \in call'[t.id].gone
                    /\ \A q \in Requests :
                         /\ \A t \in call'[q].adds : t.id = q /\ t.user = Target(q)'
                         /\ call'[q].op = "addToTeam" /\ call'[q].at \in {"team", "teamAdd"} =>
                              IsMember(Target(q))' \/ Target(q)' \in call'[q].gone
  BY <1>f DEF TeamNamed, Op
<1>i. /\ \A t \in teamRows :
           /\ t.id \in Requests
           /\ t.user = Target(t.id) /\ call[t.id].at \in {"member", "ok", "failed"}
           /\ call[t.id].at \in {"member", "failed"} => Op(t.id) = "addMember"
           /\ At(t.id, "ok") => IsMember(t.user) \/ t.user \in call[t.id].gone
      /\ \A q \in Requests :
           /\ \A t \in call[q].adds : t.id = q /\ t.user = Target(q)
           /\ Op(q) = "addToTeam" /\ call[q].at \in {"team", "teamAdd"} =>
                IsMember(Target(q)) \/ Target(q) \in call[q].gone
  BY DEF TeamNamed
<1>g. \A q \in Requests : q # r \/ ~At(r, "idle") => Target(q)' = Target(q) /\ Op(q)' = Op(q)
  BY <1>f, Frame DEF Same, Going, Target, Actor, Op
<1>o. \A q \in Requests : q # r =>
        /\ call'[q].at = call[q].at /\ call'[q].adds = call[q].adds
        /\ call[q].gone \subseteq call'[q].gone
  BY Frame DEF Same
<1>r. ~At(r, "idle") => call'[r].gone = call[r].gone
  BY Frame DEF Going
<1>n. /\ NewTeamRow(r).id = r /\ NewTeamRow(r).user = Target(r)
      /\ NewMember(r).user = Target(r)
  BY DEF NewTeamRow, NewMember
<1>m. \A u : IsMember(u) => IsMember(u)' \/ (Deletes(r) /\ u = call[r].row.user)
  BY MemberStays
<1>1. ASSUME NEW t \in teamRows'
      PROVE  /\ t.id \in Requests
             /\ t.user = Target(t.id)' /\ call'[t.id].at \in {"member", "ok", "failed"}
             /\ call'[t.id].at \in {"member", "failed"} => Op(t.id)' = "addMember"
             /\ At(t.id, "ok")' => IsMember(t.user)' \/ t.user \in call'[t.id].gone
  <2>1. CASE t \in teamRows /\ t.id # r
    <3> DEFINE q == t.id
    <3>1. /\ q \in Requests /\ Target(q)' = Target(q) /\ Op(q)' = Op(q) /\ t.user = Target(q)
          /\ call'[q].at = call[q].at /\ call[q].gone \subseteq call'[q].gone
      BY <1>g, <1>i, <1>o, <2>1
    <3>2. IsMember(t.user) => IsMember(t.user)'
      BY <1>1, <1>m, TeamChange
    <3> QED BY <1>i, <2>1, <3>1, <3>2 DEF At
  <2>2. CASE t \in teamRows /\ t.id = r
    <3>1. At(r, "member") /\ Op(r) = "addMember" /\ t.user = Target(r)
      <4>1. call[r].at \in {"member", "ok", "failed"}
        BY <1>i, <2>2
      <4> QED BY <1>i, <2>2, <4>1, TeamChange DEF At
    <3>2. Target(r)' = Target(r) /\ Op(r)' = Op(r)
      BY <1>g, <3>1 DEF At
    <3>3. call'[r].at = "failed" \/ (call'[r].at = "ok" /\ NewMember(r) \in members')
      BY <3>1, TeamChange
    <3> QED BY <1>n, <2>2, <3>1, <3>2, <3>3 DEF At, IsMember
  <2>3. CASE t \notin teamRows
    <3>1. \/ t = NewTeamRow(r) /\ call'[r].at = "member" /\ Op(r) = "addMember"
          \/ /\ t = NewTeamRow(r) /\ call'[r].at = "ok" /\ Op(r) = "addToTeam"
             /\ At(r, "teamAdd") /\ members' = members
          \/ t \in call[r].adds /\ call'[r].at = "ok" /\ NewMember(r) \in members' /\ Op(r) = "accept"
      BY <1>1, <2>3, TeamChange
    <3>2. ~At(r, "idle")
      BY <1>f, <3>1 DEF Path, At, Op
    <3>3. t.id = r /\ t.user = Target(r) /\ Target(r)' = Target(r) /\ Op(r)' = Op(r)
      BY <1>g, <1>i, <1>n, <3>1, <3>2
    <3>4. CASE call'[r].at = "member" /\ Op(r) = "addMember"
      BY <3>3, <3>4 DEF At
    <3>5. CASE Op(r) = "addToTeam" /\ At(r, "teamAdd") /\ members' = members /\ call'[r].at = "ok"
      <4>1. IsMember(Target(r)) \/ Target(r) \in call[r].gone
        BY <1>i, <3>5 DEF At
      <4>2. IsMember(Target(r)) => IsMember(t.user)'
        BY <3>3, <3>5 DEF IsMember
      <4> QED BY <1>r, <3>2, <3>3, <3>5, <4>1, <4>2 DEF At
    <3>6. CASE call'[r].at = "ok" /\ NewMember(r) \in members'
      BY <1>n, <3>3, <3>6 DEF At, IsMember
    <3> QED BY <3>1, <3>4, <3>5, <3>6
  <2> QED BY <2>1, <2>2, <2>3
<1>2. ASSUME NEW q \in Requests, NEW t \in call'[q].adds PROVE t.id = q /\ t.user = Target(q)'
  <2>1. CASE q # r
    BY <1>2, <1>g, <1>i, <1>o, <2>1
  <2>2. CASE q = r /\ ~At(r, "idle")
    BY <1>2, <1>g, <1>i, <1>n, <2>2, TeamChange
  <2>3. CASE q = r /\ At(r, "idle")
    <3>1. \E op \in Operations : Starts(r, op)
      BY <2>3 DEF Does, Finds, Looks, Vacates, Answers, Counts, Claims, Teams, TeamAdds, Enters,
        Releases, CountsOwners, Deletes, TeamDeletes, UpdatesRole, ListsTeam, DropsTeam,
        StripsTeam, Fails, At, InFlight, Steps
    <3> QED BY <1>2, <2>3, <3>1 DEF Starts, To
  <2> QED BY <2>1, <2>2, <2>3
<1>3. ASSUME NEW q \in Requests, call'[q].op = "addToTeam", call'[q].at \in {"team", "teamAdd"}
      PROVE  IsMember(Target(q))' \/ Target(q)' \in call'[q].gone
  <2>1. CASE q # r
    <3>1. IsMember(Target(q)) \/ Target(q) \in call[q].gone
      BY <1>3, <1>g, <1>i, <1>o, <2>1 DEF Op
    <3>2. CASE IsMember(Target(q)) /\ ~IsMember(Target(q))'
      <4>1. Deletes(r) /\ Target(q) = call[r].row.user
        <5>1. \A v : IsMember(v) =>
                (\E m \in members' : m.user = v) \/ (Deletes(r) /\ v = call[r].row.user)
          BY <1>m DEF IsMember
        <5>2. ~(\E m \in members' : m.user = Target(q))
          BY <1>g, <2>1, <3>2 DEF IsMember
        <5> QED BY <3>2, <5>1, <5>2
      <4>2. InFlight(q)
        BY <1>3, <1>o, <2>1 DEF InFlight, Steps
      <4>3. Target(q) \in call'[q].gone
        BY <2>1, <4>1, <4>2 DEF Deletes, TakesOut
      <4> QED BY <1>g, <2>1, <4>3
    <3> QED BY <1>g, <1>o, <2>1, <3>1, <3>2
  <2>2. CASE q = r
    <3>1. ~At(r, "idle")
      BY <1>3, <2>2 DEF Does, Finds, Looks, Vacates, Answers, Counts, Claims, Teams, TeamAdds, Enters,
        Releases, CountsOwners, Deletes, TeamDeletes, UpdatesRole, ListsTeam, DropsTeam,
        StripsTeam, Fails, Starts, At, InFlight, Steps, To
    <3>2. Target(r)' = Target(r) /\ Op(r) = "addToTeam" /\ call'[r].gone = call[r].gone
      BY <1>3, <1>g, <1>r, <2>2, <3>1 DEF Op
    <3>3. \/ call[r].at \in {"team", "teamAdd"}
          \/ IsMember(Target(r)) /\ members' = members
      BY <1>3, <2>2, <3>1, <3>2, TeamChange
    <3>4. IsMember(Target(r)) \/ Target(r) \in call[r].gone
      BY <1>i, <3>2, <3>3
    <3>5. ~Deletes(r)
      BY <3>2, <1>f DEF Deletes, Path, At, Op
    <3>6. IsMember(Target(r)) => IsMember(Target(r))'
      <4>1. \A v : IsMember(v) => \E m \in members' : m.user = v
        BY <1>m, <3>5 DEF IsMember
      <4>2. IsMember(Target(r)) => \E m \in members' : m.user = Target(r)
        BY <4>1
      <4> QED BY <3>2, <4>2 DEF IsMember
    <3> QED BY <2>2, <3>2, <3>4, <3>6
  <2> QED BY <2>1, <2>2
<1> QED BY <1>1, <1>2, <1>3

-----------------------------------------------------------------------------
(* The removal of the team *)

\* How invitations come to name the team.
LEMMA NamesChange ==
  ASSUME ConstantsOK, Base, NEW r \in Requests, Does(r), NEW i \in Invitations
  PROVE  /\ invitations'[i].team => \/ invitations[i].team
                                    \/ i = r /\ At(r, "create") /\ deploy.teams
         /\ NamesTeam(i)' => \/ NamesTeam(i)
                             \/ i = r /\ At(r, "create") /\ deploy.teams
                             \/ /\ i = call[r].inv /\ call[r].at \in {"extend", "release"}
                                /\ Revives(r) /\ invitations[i].team
         /\ team' => team
         /\ team /\ ~team' => DropsTeam(r)
<1>f. Path(r)
  BY DEF Base
<1>1. CASE invitations' = invitations /\ team' = team
  BY <1>1 DEF NamesTeam
<1>2. CASE Answers(r)
  BY <1>2, <1>f DEF Answers, MarksOnly, Marks, NamesTeam, At, Revives
<1>3. CASE Claims(r)
  BY <1>3 DEF Claims, MarksOnly, Marks, NamesTeam, ReadsOnly
<1>4. CASE Releases(r)
  BY <1>4, <1>f DEF Releases, MarksOnly, Marks, NamesTeam, At, Op, Revives, Accepting, Path
<1>5. CASE DropsTeam(r)
  BY <1>5 DEF DropsTeam, Strips, NamesTeam
<1>6. CASE StripsTeam(r)
  BY <1>6 DEF StripsTeam, Strips, NamesTeam
<1> QED
  BY <1>1, <1>2, <1>3, <1>4, <1>5, <1>6 DEF Does, Finds, Looks, Vacates, Counts, Teams, TeamAdds,
    Enters, CountsOwners, Deletes, TeamDeletes, UpdatesRole, ListsTeam, Fails, Starts, ReadsOnly

\* Where a request is after its step, as far as a removal cares.
LEMMA RemovalPath ==
  ASSUME ConstantsOK, Base, NEW r \in Requests, Does(r)
  PROVE  /\ call'[r].at # "idle"
         /\ At(r, "idle") \/ InFlight(r)
         /\ At(r, "idle") => \E op \in Operations : Starts(r, op)
         /\ ~At(r, "idle") => ~(\E op \in Operations : Starts(r, op))
         /\ ~At(r, "idle") /\ ~Looks(r) => call'[r].inv = call[r].inv
         /\ Looks(r) => Op(r) = "invite" /\ At(r, "pending")
         /\ call'[r].op = "invite" /\ call'[r].at \in {"find", "pending"} =>
              \/ call'[r].inv = r
              \/ call[r].op = "invite" /\ At(r, "find") /\ call'[r].inv = call[r].inv
         /\ At(r, "create")' => (deploy.teams => team') /\ deploy' = deploy
         /\ DropsTeam(r) => Op(r) = "removeTeam"
         /\ Revives(r)' => \/ /\ Revives(r) /\ Op(r)' = Op(r) /\ call'[r].inv = call[r].inv
                              /\ team' = team
                           \/ /\ Finds(r) \/ Looks(r)
                              /\ Op(r) # "removeTeam" /\ team' = team /\ invitations' = invitations
                              /\ invitations[call'[r].inv].status = "pending"
                              /\ invitations[call'[r].inv].live
<1>f. Path(r) /\ call[r].op \in Operations \cup {"none"}
  BY Types DEF Base
<1> USE DEF Alone, Keeps, Goes, To, Path, At, Op, ReadsOnly, MarksOnly, Revives, Accepting, InFlight,
            Steps
<1>1. CASE Finds(r)
  BY <1>1, <1>f DEF Finds, Looks, DropsTeam, Starts, Demotes
<1>2. CASE Looks(r)
  BY <1>2, <1>f DEF Looks, DropsTeam, Starts
<1>v. CASE Vacates(r)
  BY <1>v, <1>f DEF Vacates, Looks, DropsTeam, Starts
<1>3. CASE Answers(r)
  <2>1. team' = team /\ deploy' = deploy /\ call'[r].op = call[r].op /\ call'[r].inv = call[r].inv
    BY <1>3 DEF Answers
  <2>2. call'[r].at \in {"ok", "vacancy"} /\ call[r].at \in {"extend", "cancelOld", "create", "status"}
    BY <1>3 DEF Answers
  <2>3. ~Revives(r)'
    <3>1. call'[r].op = "accept" => FALSE
      BY <1>f, <2>1, <2>2
    <3> QED BY <2>2, <3>1
  <2> QED BY <1>f, <2>1, <2>2, <2>3 DEF Looks, DropsTeam, Starts
<1>4. CASE Counts(r) \/ Teams(r) \/ Claims(r)
  BY <1>4, <1>f DEF Counts, Teams, Claims, Looks, DropsTeam, Starts
<1>5. CASE TeamAdds(r) \/ Releases(r)
  BY <1>5, <1>f DEF TeamAdds, Releases, Looks, DropsTeam, Starts
<1>6. CASE Enters(r)
  BY <1>6, <1>f DEF Enters, Joins, Looks, DropsTeam, Starts
<1>7. CASE CountsOwners(r) \/ Deletes(r) \/ TeamDeletes(r) \/ UpdatesRole(r)
  BY <1>7, <1>f DEF CountsOwners, Deletes, TakesOut, TeamDeletes, UpdatesRole, Looks, DropsTeam, Starts
<1>8. CASE ListsTeam(r) \/ DropsTeam(r) \/ StripsTeam(r)
  BY <1>8, <1>f DEF ListsTeam, DropsTeam, StripsTeam, Looks, Starts
<1>9. CASE Fails(r)
  BY <1>9, <1>f DEF Fails, Looks, DropsTeam, Starts
<1>10. CASE \E op \in Operations : Starts(r, op)
  BY <1>10, <1>f DEF Starts, Looks, DropsTeam
<1> QED BY <1>1, <1>2, <1>v, <1>3, <1>4, <1>5, <1>6, <1>7, <1>8, <1>9, <1>10 DEF Does

LEMMA BesideKept ==
  ASSUME ConstantsOK, Base, BesideSeen, NEW r \in Requests, Does(r)
  PROVE  BesideSeen'
<1>i. BesideSeen
  OBVIOUS
<1>f. Path(r) /\ deploy' = deploy
  BY Frame DEF Base
<1>o. \A q \in Requests : q # r =>
        /\ call'[q].at = call[q].at /\ call'[q].op = call[q].op /\ call'[q].inv = call[q].inv
        /\ call[q].beside => call'[q].beside
  BY Frame DEF Same
<1>g. ~At(r, "idle") => call'[r].op = call[r].op /\ call'[r].beside = call[r].beside
  BY Frame DEF Going
<1>1. ASSUME NEW q \in Requests, call'[q].at = "idle" PROVE ~call'[q].beside
  <2>1. q # r /\ At(q, "idle")
    BY <1>1, <1>o, RemovalPath DEF At
  <2>2. call'[q].beside => call[q].beside
    <3>1. ~InFlight(q)
      BY <2>1 DEF At, InFlight, Steps
    <3>2. CASE Alone(r)
      BY <2>1, <3>2 DEF Alone
    <3>3. ASSUME NEW pc, Joins(r, pc) \/ TakesOut(r, pc) PROVE call'[q].beside = call[q].beside
      BY <2>1, <3>3 DEF Joins, TakesOut, Keeps
    <3>4. ASSUME NEW op, Starts(r, op) PROVE call'[q].beside => call[q].beside
      BY <2>1, <3>1, <3>4 DEF Starts
    <3> QED
      BY <3>2, <3>3, <3>4 DEF Does, Finds, Looks, Vacates, Answers, Counts, Claims, Teams, TeamAdds,
        Enters, Releases, CountsOwners, Deletes, TeamDeletes, UpdatesRole, ListsTeam, DropsTeam,
        StripsTeam, Fails
  <2> QED BY <1>i, <2>1, <2>2 DEF BesideSeen
<1>2. ASSUME NEW q \in Requests, call'[q].op = "invite", call'[q].at \in {"find", "pending"}
      PROVE  call'[q].inv = q
  <2>1. CASE q # r
    BY <1>2, <1>i, <1>o, <2>1 DEF BesideSeen, Op
  <2>2. CASE q = r
    BY <1>2, <1>i, <2>2, RemovalPath DEF BesideSeen, Op, At
  <2> QED BY <2>1, <2>2
<1>3. ASSUME NEW p \in Requests, NEW q \in Requests, p # q, InFlight(p)', InFlight(q)',
             call'[q].op = "removeTeam"
      PROVE  call'[p].beside
  <2>0. \A x \in Requests : x # r /\ InFlight(x)' => InFlight(x)
    BY <1>o DEF InFlight
  <2>1. CASE ~At(r, "idle")
    <3>1. InFlight(r)
      BY <2>1, RemovalPath
    <3>2. InFlight(p) /\ InFlight(q) /\ Op(q) = "removeTeam"
      BY <1>3, <1>g, <1>o, <2>0, <2>1, <3>1 DEF Op
    <3>3. call[p].beside
      BY <1>3, <1>i, <3>2 DEF BesideSeen
    <3> QED BY <1>g, <1>o, <2>1, <3>3
  <2>2. CASE At(r, "idle")
    <3>1. PICK op \in Operations : Starts(r, op)
      BY <2>2, RemovalPath
    <3>2. CASE p = r
      <4>1. InFlight(q) /\ Op(q) = "removeTeam"
        BY <1>3, <1>o, <2>0, <3>2 DEF Op
      <4> QED BY <3>1, <3>2, <4>1 DEF Starts
    <3>3. CASE q = r
      <4>1. InFlight(p) /\ op = "removeTeam"
        BY <1>3, <2>0, <3>1, <3>3 DEF Starts
      <4> QED BY <1>3, <3>1, <3>3, <4>1 DEF Starts
    <3>4. CASE p # r /\ q # r
      BY <1>3, <1>i, <1>o, <2>0, <3>4 DEF BesideSeen, Op
    <3> QED BY <3>2, <3>3, <3>4
  <2> QED BY <2>1, <2>2
<1>4. ASSUME NEW q \in Requests, call'[q].at = "create", deploy.teams, ~team' PROVE call'[q].beside
  <2>1. CASE q = r
    BY <1>4, <2>1, RemovalPath DEF At
  <2>2. CASE q # r /\ ~team
    BY <1>4, <1>i, <1>o, <2>2 DEF BesideSeen, At
  <2>3. CASE q # r /\ team
    <3>1. InFlight(q) /\ InFlight(r) /\ Op(r) = "removeTeam"
      <4>1. DropsTeam(r)
        BY <1>4, <2>3, NamesChange DEF Invitations
      <4> QED BY <1>4, <1>o, <2>3, <4>1, RemovalPath DEF InFlight, Steps, DropsTeam, At
    <3> QED BY <1>i, <1>o, <2>3, <3>1 DEF BesideSeen
  <2> QED BY <2>1, <2>2, <2>3
<1> QED BY <1>1, <1>2, <1>3, <1>4, <1>f DEF BesideSeen, At, Op

\* Excuses last.
LEMMA ExcusesStay ==
  ASSUME ConstantsOK, Base, BesideSeen, NEW r \in Requests, Does(r)
  PROVE  /\ \A i \in Invitations : Excused(i) => Excused(i)'
         /\ FailedRemoval => FailedRemoval'
         /\ \A q \in Requests : StillToStrip(q) =>
              \/ StillToStrip(q)' \/ FailedRemoval'
              \/ q = r /\ Listed(r) /\ call[r].strip = {} /\ invitations' = invitations
<1>f. Path(r) /\ deploy' = deploy
  BY Frame DEF Base
<1>o. \A q \in Requests : q # r =>
        /\ call'[q].at = call[q].at /\ call'[q].op = call[q].op /\ call'[q].inv = call[q].inv
        /\ call[q].beside => call'[q].beside
  BY Frame DEF Same
<1>g. ~At(r, "idle") => call'[r].op = call[r].op /\ call'[r].beside = call[r].beside
  BY Frame DEF Going
<1>1. ASSUME NEW i \in Invitations, Excused(i) PROVE Excused(i)'
  <2>1. PICK q \in Requests : /\ call[q].beside
                              /\ q = i \/ (Op(q) \in {"accept", "invite"} /\ call[q].inv = i)
    BY <1>1 DEF Excused
  <2>2. ~At(q, "idle")
    BY <2>1 DEF BesideSeen
  <2>3. call'[q].beside /\ call'[q].op = call[q].op
    BY <1>g, <1>o, <2>1, <2>2
  <2>4. q = i \/ call'[q].inv = call[q].inv
    <3>1. CASE q = r /\ Looks(r)
      <4>1. call[r].inv = r
        BY <3>1, RemovalPath DEF BesideSeen, At
      <4> QED BY <2>1, <3>1, <4>1
    <3> QED BY <1>o, <2>2, <3>1, RemovalPath
  <2> QED BY <2>1, <2>3, <2>4 DEF Excused, Op
<1>2. ASSUME FailedRemoval PROVE FailedRemoval'
  <2>1. PICK q \in Requests : Op(q) = "removeTeam" /\ At(q, "failed")
    BY <1>2 DEF FailedRemoval
  <2>2. q # r
    BY <2>1, RemovalPath DEF At, InFlight, Steps
  <2> QED BY <1>o, <2>1, <2>2 DEF FailedRemoval, At, Op
<1>3. ASSUME NEW q \in Requests, StillToStrip(q)
      PROVE  \/ StillToStrip(q)' \/ FailedRemoval'
             \/ q = r /\ Listed(r) /\ call[r].strip = {} /\ invitations' = invitations
  <2>1. CASE q # r
    BY <1>3, <1>f, <1>o, <2>1 DEF StillToStrip, Op
  <2>2. CASE q = r
    <3>1. /\ call[r].op = "removeTeam" /\ ~deploy.atomic /\ call[r].at \in {"listTeam", "strip"}
          /\ call'[r].op = "removeTeam"
      BY <1>3, <1>g, <2>2 DEF StillToStrip, Op, At
    <3>2. ListsTeam(r) \/ StripsTeam(r) \/ Fails(r)
      BY <3>1 DEF Does, Finds, Looks, Vacates, Answers, Counts, Claims, Teams, TeamAdds, Enters,
        Releases, CountsOwners, Deletes, TeamDeletes, UpdatesRole, DropsTeam, Starts, At
    <3>3. CASE ListsTeam(r)
      BY <1>f, <2>2, <3>1, <3>3 DEF ListsTeam, To, StillToStrip, Op
    <3>4. CASE StripsTeam(r)
      BY <1>f, <2>2, <3>1, <3>4 DEF StripsTeam, Goes, To, StillToStrip, Listed, Op
    <3>5. CASE Fails(r)
      <4>1. call'[r].at = "failed"
        BY <3>1, <3>5 DEF Fails, To
      <4> QED BY <3>1, <4>1 DEF FailedRemoval, At, Op
    <3> QED BY <3>2, <3>3, <3>4, <3>5
  <2> QED BY <2>1, <2>2
<1> QED BY <1>1, <1>2, <1>3

LEMMA StripsKept ==
  ASSUME ConstantsOK, Base, BesideSeen, StripsSeen, NEW r \in Requests, Does(r), ~cut'
  PROVE  StripsSeen'
<1>f. Path(r) /\ deploy' = deploy
  BY Frame DEF Base
<1>o. \A q \in Requests : q # r =>
        /\ call'[q].at = call[q].at /\ call'[q].op = call[q].op /\ call'[q].strip = call[q].strip
  BY Frame DEF Same
<1>g. ~At(r, "idle") => call'[r].op = call[r].op
  BY Frame DEF Going
<1> SUFFICES ASSUME NEW q \in Requests, NEW i \in Invitations, Listed(q)', NamesTeam(i)',
                    i \notin call'[q].strip
             PROVE  Excused(i)
  BY ExcusesStay DEF StripsSeen
<1>1. CASE q # r
  <2>1. Listed(q) /\ i \notin call[q].strip
    BY <1>f, <1>o, <1>1 DEF Listed, Op
  <2>2. CASE NamesTeam(i)
    BY <2>1, <2>2 DEF StripsSeen
  <2>3. CASE ~NamesTeam(i)
    <3>1. \/ i = r /\ At(r, "create")
          \/ i = call[r].inv /\ call[r].at \in {"extend", "release"}
      BY <2>3, NamesChange
    <3>2. InFlight(q) /\ InFlight(r) /\ Op(q) = "removeTeam"
      BY <2>1, <3>1 DEF Listed, InFlight, Steps, At
    <3>3. call[r].beside
      BY <1>1, <3>2 DEF BesideSeen
    <3>4. call[r].at \in {"extend", "release"} => Op(r) \in {"accept", "invite"}
      BY <1>f DEF Path, Op
    <3> QED BY <3>1, <3>3, <3>4 DEF Excused
  <2> QED BY <2>2, <2>3
<1>2. CASE q = r
  <2>1. call[r].op = "removeTeam" /\ ~At(r, "idle")
    <3>1. CASE At(r, "idle")
      BY <1>2, <3>1, <1>f, RemovalPath DEF Listed, Starts, To
    <3> QED BY <1>2, <1>g, <3>1 DEF Listed, Op
  <2>2. ListsTeam(r) \/ StripsTeam(r)
    BY <1>2, <1>f, <2>1 DEF Listed, Does, Finds, Looks, Vacates, Answers, Counts, Claims, Teams,
      TeamAdds, Enters, Releases, CountsOwners, Deletes, TeamDeletes, UpdatesRole, DropsTeam, Fails,
      Starts, At, Goes, To, Path, Demotes
  <2>3. CASE ListsTeam(r)
    BY <1>2, <2>3 DEF ListsTeam, ReadsOnly, To, NamesTeam
  <2>4. CASE StripsTeam(r)
    <3>1. PICK n \in call[r].strip : Strips({n}) /\ call'[r].strip = call[r].strip \ {n}
      BY <1>2, <1>f, <2>4 DEF StripsTeam, Goes, To, Listed, Op
    <3>2. NamesTeam(i) /\ i # n
      BY <3>1 DEF Strips, NamesTeam
    <3>3. Listed(r)
      BY <1>2, <1>f, <2>1, <2>4 DEF Listed, StripsTeam, Goes, To, Op
    <3> QED BY <1>2, <3>1, <3>2, <3>3 DEF StripsSeen
  <2> QED BY <2>2, <2>3, <2>4
<1> QED BY <1>1, <1>2

LEMMA RemovalKept ==
  ASSUME ConstantsOK, Base, RemovalSeen, NEW r \in Requests, Does(r), ~cut'
  PROVE  RemovalSeen'
<1>b. BesideSeen /\ StripsSeen
  BY DEF RemovalSeen
<1>i. /\ \A i \in Invitations : ~team /\ NamesTeam(i) =>
           Excused(i) \/ FailedRemoval \/ \E q \in Requests : StillToStrip(q)
      /\ \A q \in Requests : Revives(q) /\ ~team /\ invitations[call[q].inv].team =>
           Excused(call[q].inv) \/ FailedRemoval \/ call[q].beside
  BY DEF RemovalSeen
<1>f. Path(r) /\ deploy' = deploy
  BY Frame DEF Base
<1>v. \A q \in Requests : /\ call[q].inv \in Invitations /\ call'[q].inv \in Invitations
                          /\ q \in Invitations
  <2>1. call \in [Requests -> Call] /\ call' \in [Requests -> Call]
    BY CallTyped DEF Base, TypeOK
  <2> QED BY <2>1 DEF Call, Invitations
<1>o. \A q \in Requests : q # r =>
        /\ call'[q].at = call[q].at /\ call'[q].op = call[q].op /\ call'[q].inv = call[q].inv
        /\ call[q].beside => call'[q].beside
  BY Frame DEF Same
<1>g. ~At(r, "idle") => call'[r].op = call[r].op /\ call'[r].beside = call[r].beside
  BY Frame DEF Going
<1>e. /\ \A i \in Invitations : Excused(i) => Excused(i)'
      /\ FailedRemoval => FailedRemoval'
  BY <1>b, ExcusesStay
<1>r. Op(r) = "removeTeam" /\ InFlight(r) => \A q \in Requests : q # r /\ InFlight(q) => call[q].beside
  BY <1>b DEF BesideSeen
<1>d. team /\ ~team' => DropsTeam(r) /\ Op(r) = "removeTeam" /\ InFlight(r)
  <2>1. team /\ ~team' => DropsTeam(r)
    BY NamesChange DEF Invitations
  <2> QED BY <2>1, RemovalPath DEF DropsTeam, InFlight, Steps, At
<1>1. ASSUME NEW i \in Invitations, ~team', NamesTeam(i)'
      PROVE  Excused(i)' \/ FailedRemoval' \/ \E q \in Requests : StillToStrip(q)'
  <2>1. CASE team
    <3>1. DropsTeam(r) /\ call[r].op = "removeTeam" /\ call'[r].op = "removeTeam"
      BY <1>1, <1>d, <1>g, <2>1 DEF Op, DropsTeam, At
    <3>2. CASE deploy.atomic
      <4>1. Listed(r) /\ NamesTeam(i) /\ i \notin call[r].strip
        BY <1>1, <3>1, <3>2 DEF DropsTeam, Strips, NamesTeam, Listed, At, Op
      <4> QED BY <1>b, <1>e, <4>1 DEF StripsSeen
    <3>3. CASE ~deploy.atomic
      <4>1. StillToStrip(r)'
        BY <1>f, <3>1, <3>3 DEF DropsTeam, Goes, To, StillToStrip, Op
      <4> QED BY <4>1
    <3> QED BY <3>2, <3>3
  <2>2. CASE ~team /\ NamesTeam(i)
    <3>1. Excused(i) \/ FailedRemoval \/ \E q \in Requests : StillToStrip(q)
      BY <1>i, <2>2
    <3>2. ASSUME NEW q \in Requests, StillToStrip(q)
          PROVE  Excused(i)' \/ FailedRemoval' \/ StillToStrip(q)'
      <4>1. CASE q = r /\ Listed(r) /\ call[r].strip = {}
        BY <1>b, <1>e, <2>2, <4>1 DEF StripsSeen
      <4> QED BY <1>b, <3>2, <4>1, ExcusesStay
    <3> QED BY <1>e, <3>1, <3>2
  <2>3. CASE ~team /\ ~NamesTeam(i)
    <3>1. \/ i = r /\ At(r, "create") /\ deploy.teams
          \/ /\ i = call[r].inv /\ call[r].at \in {"extend", "release"}
             /\ Revives(r) /\ invitations[i].team
      BY <1>1, <2>3, NamesChange
    <3>2. CASE i = r /\ At(r, "create") /\ deploy.teams
      <4>1. call[r].beside
        BY <1>b, <2>3, <3>2 DEF BesideSeen
      <4>2. Excused(i)
        BY <3>2, <4>1 DEF Excused
      <4> QED BY <1>e, <4>2
    <3>3. CASE /\ i = call[r].inv /\ call[r].at \in {"extend", "release"}
               /\ Revives(r) /\ invitations[i].team
      <4>1. Excused(i) \/ FailedRemoval \/ call[r].beside
        BY <1>i, <2>3, <3>3
      <4>2. Op(r) \in {"accept", "invite"}
        BY <1>f, <3>3 DEF Path, Op
      <4>3. call[r].beside => Excused(i)
        BY <3>3, <4>2 DEF Excused
      <4> QED BY <1>e, <4>1, <4>3
    <3> QED BY <3>1, <3>2, <3>3
  <2> QED BY <2>1, <2>2, <2>3
<1>2. ASSUME NEW p \in Requests, Revives(p)', ~team', invitations'[call'[p].inv].team
      PROVE  \/ \E i \in Invitations : i = call'[p].inv /\ Excused(i)'
             \/ FailedRemoval' \/ call'[p].beside
  <2>1. CASE p # r
    <3> DEFINE i == call[p].inv
    <3>1. /\ Revives(p) /\ call'[p].inv = i /\ i \in Invitations /\ invitations'[i].team
          /\ InFlight(p)
      <4>1. Revives(p) /\ call'[p].inv = i /\ i \in Invitations
        BY <1>2, <1>o, <1>v, <2>1 DEF Revives, At, Op
      <4> QED BY <1>2, <4>1 DEF Revives, Accepting, InFlight, Steps, At
    <3> HIDE DEF i
    <3>2. CASE team
      <4>1. call[p].beside
        BY <1>2, <1>d, <1>r, <2>1, <3>1, <3>2
      <4> QED BY <1>o, <2>1, <4>1
    <3>3. CASE ~team /\ invitations[i].team
      <4>1. Excused(i) \/ FailedRemoval \/ call[p].beside
        BY <1>i, <3>1, <3>3 DEF i
      <4> QED BY <1>e, <1>o, <2>1, <3>1, <4>1
    <3>4. CASE ~team /\ ~invitations[i].team
      <4>1. i = r /\ At(r, "create") /\ deploy.teams
        BY <3>1, <3>4, NamesChange
      <4>2. call[r].beside
        BY <1>b, <3>4, <4>1 DEF BesideSeen
      <4>3. Excused(i)
        BY <4>1, <4>2 DEF Excused
      <4> QED BY <1>e, <3>1, <4>3
    <3> QED BY <3>2, <3>3, <3>4
  <2>2. CASE p = r
    <3> DEFINE i == call'[r].inv
    <3>1. i \in Invitations
      BY <1>v
    <3>2. CASE Revives(r) /\ call'[r].inv = call[r].inv /\ team' = team /\ Op(r)' = Op(r)
      <4>1. invitations[call[r].inv].team
        <5>1. \/ invitations[call[r].inv].team
              \/ At(r, "create")
          BY <1>2, <1>v, <2>2, <3>2, NamesChange
        <5>2. ~At(r, "create")
          BY <3>2 DEF Revives, Accepting, At
        <5> QED BY <5>1, <5>2
      <4>2. Excused(call[r].inv) \/ FailedRemoval \/ call[r].beside
        BY <1>2, <1>i, <3>2, <4>1
      <4>3. ~At(r, "idle")
        BY <3>2 DEF Revives, Accepting, At
      <4> QED BY <1>e, <1>g, <1>v, <2>2, <3>2, <4>2, <4>3
    <3>3. CASE /\ Finds(r) \/ Looks(r)
               /\ Op(r) # "removeTeam" /\ team' = team /\ invitations' = invitations
               /\ invitations[i].status = "pending" /\ invitations[i].live
      <4>1. NamesTeam(i) /\ ~team
        BY <1>2, <2>2, <3>3 DEF NamesTeam
      <4>2. Excused(i) \/ FailedRemoval \/ \E q \in Requests : StillToStrip(q)
        BY <1>i, <3>1, <4>1
      <4>3. ~At(r, "idle") /\ InFlight(r)
        BY <3>3 DEF Finds, Looks, At, InFlight, Steps
      <4>4. ASSUME NEW q \in Requests, StillToStrip(q) PROVE call[r].beside
        <5>1. q # r /\ InFlight(q) /\ Op(q) = "removeTeam"
          BY <3>3, <4>4 DEF StillToStrip, InFlight, Steps
        <5> QED BY <1>b, <4>3, <5>1 DEF BesideSeen
      <4>5. ASSUME Excused(i) PROVE \E n \in Invitations : n = i /\ Excused(n)'
        <5>1. PICK n \in Invitations : n = i
          BY <3>1
        <5>2. Excused(n)
          BY <4>5, <5>1 DEF Excused
        <5> QED BY <1>e, <5>1, <5>2
      <4> QED BY <1>e, <1>g, <2>2, <4>2, <4>3, <4>4, <4>5
    <3> QED BY <1>2, <2>2, <3>2, <3>3, RemovalPath
  <2> QED BY <2>1, <2>2
<1>3. BesideSeen' /\ StripsSeen'
  BY <1>b, BesideKept, StripsKept
<1> QED BY <1>1, <1>2, <1>3 DEF RemovalSeen, Excused

-----------------------------------------------------------------------------
(* The invariant *)

LEMMA StartInv ==
  ASSUME ConstantsOK, Init
  PROVE  OrganizationInv
<1>b. Base
  BY BaseStart
<1>d. /\ deploy \in Deployments /\ Requests \cap Users = {} /\ deploy.limit \in Nat
      /\ \E u \in Users : deploy.members[u] = "owner"
      /\ IsFiniteSet({u \in Users : deploy.members[u] # "none"})
      /\ Cardinality({u \in Users : deploy.members[u] # "none"}) <= deploy.limit
  BY DeployTyped DEF Init
<1> DEFINE Firsts == {u \in Users : deploy.members[u] # "none"}
           f == [u \in Firsts |-> [id |-> u, user |-> u, role |-> deploy.members[u]]]
<1>m. /\ members = {[id |-> u, user |-> u, role |-> deploy.members[u]] : u \in Firsts}
      /\ team /\ teamRows = {} /\ ~raced
  BY DEF Init
<1>c. \A r \in Requests : /\ call[r].op = "none" /\ call[r].at = "idle" /\ call[r].row = <<>>
                          /\ call[r].adds = {} /\ call[r].joined = {} /\ ~call[r].beside
  BY DEF Init, NoCall
<1>1. /\ f \in [Firsts -> members] /\ \A m \in members : \E u \in Firsts : f[u] = m
      /\ \A m \in members : m.id = m.user /\ m.id \in Users
      /\ \A m, n \in members : m.id = n.id => m = n
  BY <1>m
<1>2. IsFiniteSet(members) /\ Cardinality(members) <= Cardinality(Firsts)
  <2> HIDE DEF f, Firsts
  <2>1. f \in Surjection(Firsts, members)
    BY <1>1 DEF Surjection
  <2>2. IsFiniteSet(Firsts)
    BY <1>d DEF Firsts
  <2> QED BY <2>1, <2>2, FS_Surjection
<1>3. MembersNamed
  BY <1>1, <1>2, <1>c, <1>d, FS_EmptySet DEF MembersNamed
<1>4. Room
  <2>1. Cardinality(Firsts) \in Nat /\ Cardinality(members) \in Nat
    BY <1>2, <1>d, FS_CardinalityType
  <2>2. Size <= deploy.limit
    <3> HIDE DEF Firsts
    <3>1. Cardinality(Firsts) <= deploy.limit
      BY <1>d DEF Firsts
    <3> QED BY <1>2, <1>d, <2>1, <3>1 DEF Size
  <2> QED BY <1>c, <2>2 DEF Room, Counted, At, Op
<1>5. HeldOnce
  <2>1. \A i \in Invitations : invitations[i].status = IF i = Past THEN "pending" ELSE "none"
    BY DEF Init
  <2>2. \A r \in Requests : r \in Invitations /\ r # Past
    BY DEF Invitations, ConstantsOK
  <2> QED BY <1>c, <2>1, <2>2 DEF HeldOnce, Held, Found, At, Op
<1>6. OneDemotes
  <2>1. PICK u \in Users : deploy.members[u] = "owner"
    BY <1>d
  <2>2. [id |-> u, user |-> u, role |-> "owner"] \in Owners
    BY <1>m, <2>1 DEF Owners
  <2> QED BY <1>c, <2>2 DEF OneDemotes, Demoting, InFlight, Steps, At
<1>7. TeamNamed
  BY <1>c, <1>m DEF TeamNamed, Op
<1>8. RemovalSeen
  BY <1>c, <1>m DEF RemovalSeen, BesideSeen, StripsSeen, Listed, Revives, Accepting, InFlight, Steps,
    At, Op
<1> QED BY <1>b, <1>3, <1>4, <1>5, <1>6, <1>7, <1>8 DEF OrganizationInv

\* An invitation that expires takes nothing from the invariant.
LEMMA ExpireKept ==
  ASSUME OrganizationInv, NEW i \in Invitations, Expires(i)
  PROVE  /\ MembersNamed' /\ Room' /\ HeldOnce' /\ OneDemotes' /\ TeamNamed'
         /\ RemovalSeen => RemovalSeen'
<1>1. /\ UNCHANGED <<deploy, members, team, teamRows, call, raced>>
      /\ \A n \in Invitations : /\ invitations'[n].status = invitations[n].status
                                /\ invitations'[n].team = invitations[n].team
                                /\ NamesTeam(n)' => NamesTeam(n)
  BY DEF Expires, Marks, NamesTeam
<1>v. \A r \in Requests : call[r].inv \in Invitations /\ r \in Invitations
  <2>1. call \in [Requests -> Call]
    BY DEF OrganizationInv, Base, TypeOK
  <2> QED BY <2>1 DEF Call, Invitations
<1>2. MembersNamed' /\ Room'
  BY <1>1 DEF OrganizationInv, MembersNamed, HasJoined, Room, Size, Extra, Counted, At, Op
<1>3. HeldOnce'
  BY <1>1, <1>v DEF OrganizationInv, HeldOnce, Held, Found, At, Op
<1>4. OneDemotes' /\ TeamNamed'
  BY <1>1 DEF OrganizationInv, OneDemotes, Owners, Demoting, Another, InFlight, TeamNamed, IsMember,
    Target, Actor, At, Op
<1>5. /\ (BesideSeen' <=> BesideSeen) /\ (FailedRemoval' <=> FailedRemoval)
      /\ \A n \in Invitations : Excused(n)' <=> Excused(n)
      /\ \A r \in Requests : Listed(r)' <=> Listed(r)
      /\ \A r \in Requests : StillToStrip(r)' <=> StillToStrip(r)
      /\ \A r \in Requests : Revives(r)' <=> Revives(r)
  BY <1>1 DEF BesideSeen, FailedRemoval, Excused, Listed, StillToStrip, Revives, InFlight, At, Op
<1>6. /\ call' = call /\ (team' <=> team)
      /\ \A r \in Requests : invitations'[call[r].inv].team = invitations[call[r].inv].team
  BY <1>1, <1>v
<1>7. ASSUME RemovalSeen PROVE StripsSeen'
  BY <1>1, <1>5, <1>6, <1>7 DEF RemovalSeen, StripsSeen
<1>8. ASSUME RemovalSeen, NEW n \in Invitations, ~team', NamesTeam(n)'
      PROVE  Excused(n)' \/ FailedRemoval' \/ \E q \in Requests : StillToStrip(q)'
  BY <1>1, <1>5, <1>6, <1>8 DEF RemovalSeen
<1>9. ASSUME RemovalSeen, NEW r \in Requests, Revives(r)', ~team', invitations'[call'[r].inv].team
      PROVE  Excused(call[r].inv)' \/ FailedRemoval' \/ call'[r].beside
  <2>1. Excused(call[r].inv) \/ FailedRemoval \/ call[r].beside
    BY <1>5, <1>6, <1>9 DEF RemovalSeen
  <2>2. Excused(call[r].inv) => Excused(call[r].inv)'
    BY <1>6 DEF Excused, Op
  <2> QED BY <1>5, <1>6, <2>1, <2>2
<1>10. ASSUME RemovalSeen PROVE RemovalSeen'
  BY <1>5, <1>7, <1>8, <1>9, <1>10 DEF RemovalSeen
<1> QED BY <1>2, <1>3, <1>4, <1>10

LEMMA InvKept ==
  ASSUME ConstantsOK, OrganizationInv, [Next]_vars
  PROVE  OrganizationInv'
<1>b. Base /\ Base' /\ Moves /\ (cut => cut')
  BY BaseKept, NextMoves, CutGrows DEF OrganizationInv, Base
<1>1. CASE \E r \in Requests : Does(r)
  <2>1. PICK r \in Requests : Does(r)
    BY <1>1
  <2>2. cut' \/ RemovalSeen'
    BY <1>b, <2>1, RemovalKept DEF OrganizationInv
  <2> QED
    BY <1>b, <2>1, <2>2, MembersNamedKept, RoomKept, HeldOnceKept, OneDemotesKept, TeamNamedKept
      DEF OrganizationInv
<1>2. CASE \E i \in Invitations : Expires(i)
  BY <1>2, <1>b, ExpireKept DEF OrganizationInv
<1>3. CASE UNCHANGED vars
  <2>1. MembersNamed' /\ Room' /\ HeldOnce' /\ OneDemotes' /\ TeamNamed'
    BY <1>3 DEF vars, OrganizationInv, MembersNamed, HasJoined, Room, Size, Extra, Counted, HeldOnce,
      Held, Found, OneDemotes, Owners, Demoting, Another, InFlight, TeamNamed, IsMember, Target,
      Actor, At, Op
  <2>2. RemovalSeen => RemovalSeen'
    BY <1>3 DEF vars, RemovalSeen, BesideSeen, StripsSeen, Listed, Revives, StillToStrip,
      FailedRemoval, Excused, NamesTeam, InFlight, At, Op
  <2> QED BY <1>3, <1>b, <2>1, <2>2 DEF vars, OrganizationInv
<1> QED BY <1>b, <1>1, <1>2, <1>3 DEF Moves

LEMMA OneAtMost ==
  ASSUME NEW S, \A x, y \in S : x = y
  PROVE  IsFiniteSet(S) /\ Cardinality(S) <= 1
<1>1. S = {} \/ \E x : S = {x}
  OBVIOUS
<1>2. IsFiniteSet({}) /\ Cardinality({}) = 0
  BY FS_EmptySet
<1>3. \A x : IsFiniteSet({x}) /\ Cardinality({x}) = 1
  BY FS_Singleton
<1>4. CASE S = {}
  BY <1>2, <1>4
<1>5. CASE \E x : S = {x}
  <2>1. PICK x : S = {x}
    BY <1>5
  <2>2. IsFiniteSet({x}) /\ Cardinality({x}) = 1
    BY <1>3
  <2> QED BY <2>1, <2>2
<1> QED BY <1>1, <1>4, <1>5

LEMMA InvSettles ==
  ASSUME ConstantsOK, OrganizationInv
  PROVE  InvitationSettled
<1>1. ASSUME NEW i \in Invitations
      PROVE  /\ Cardinality({r \in AcceptsOf(i) : At(r, "ok")}) <= 1
             /\ deploy.atomic => Cardinality({m \in members : m.id \in AcceptsOf(i)}) <= 1
  <2> DEFINE Answered == {r \in AcceptsOf(i) : At(r, "ok")}
             Made == {m \in members : m.id \in AcceptsOf(i)}
  <2>1. \A r \in Answered : r \in Requests /\ Held(r) /\ call[r].inv = i
    BY DEF AcceptsOf, Held, At
  <2>2. \A r, q \in Answered : r = q
    BY <2>1 DEF OrganizationInv, HeldOnce
  <2>3. ASSUME deploy.atomic PROVE \A m, n \in Made : m = n
    <3>1. \A m \in Made : m \in members /\ m.id \in Answered
      BY <2>3 DEF OrganizationInv, MembersNamed, HasJoined, AcceptsOf, At
    <3> HIDE DEF Made, Answered
    <3>2. \A m, n \in members : m.id = n.id => m = n
      BY DEF OrganizationInv, MembersNamed
    <3> QED BY <2>2, <3>1, <3>2
  <2> HIDE DEF Answered, Made
  <2>4. Cardinality(Answered) <= 1 /\ (deploy.atomic => Cardinality(Made) <= 1)
    BY <2>2, <2>3, OneAtMost
  <2> QED BY <2>4 DEF Answered, Made
<1>2. ClaimNotStranded
  <2> SUFFICES ASSUME NEW i \in Invitations, invitations[i].status = "accepted"
               PROVE  \E r \in AcceptsOf(i) : At(r, "ok") \/ At(r, "failed") \/ InFlight(r)
    BY DEF ClaimNotStranded
  <2>1. PICK r \in Requests : /\ Op(r) = "accept" /\ call[r].inv = i
                              /\ Held(r) \/ At(r, "failed")
    BY DEF OrganizationInv, HeldOnce
  <2> QED BY <2>1 DEF AcceptsOf, Held, At, InFlight, Steps
<1> QED BY <1>1, <1>2 DEF InvitationSettled, AcceptedOnce

LEMMA InvSound ==
  ASSUME ConstantsOK, OrganizationInv
  PROVE  MembershipSound
<1>1. OwnerRemains
  BY DEF OrganizationInv, OneDemotes, OwnerRemains
<1>2. LimitOverrunBounded
  BY DEF OrganizationInv, Room, Size, Extra, LimitOverrunBounded
<1>3. TeamOfMembers
  BY DEF OrganizationInv, TeamNamed, TeamOfMembers, IsMember, RowsOf, At
<1>4. PendingNamesTeam
  BY DEF OrganizationInv, RemovalSeen, PendingNamesTeam, PendingStayAcceptable, Excused,
    FailedRemoval, StillToStrip, InFlight, Steps
<1> QED BY <1>1, <1>2, <1>3, <1>4 DEF MembershipSound

-----------------------------------------------------------------------------
(* What always holds *)

LEMMA InvAlways ==
  ASSUME ConstantsOK
  PROVE  Spec => []OrganizationInv
<1>1. Init => OrganizationInv
  BY StartInv
<1>2. OrganizationInv /\ [Next]_vars => OrganizationInv'
  BY InvKept
<1> QED BY <1>1, <1>2, PTL DEF Spec

\* The state has its type, in every configuration.
THEOREM TypeCorrect ==
  ASSUME ConstantsOK
  PROVE  Spec => []TypeOK
<1>1. OrganizationInv => TypeOK
  BY DEF OrganizationInv, Base
<1> QED BY <1>1, InvAlways, PTL

\* However many accepts, rejections, cancellations and failures overlap, an
\* invitation is answered by one accept at most, and a claim that made no member is
\* given back, still worked on, or its request died.
THEOREM InvitationSettledAlways ==
  ASSUME ConstantsOK
  PROVE  Spec => []InvitationSettled
<1>1. OrganizationInv => InvitationSettled
  BY InvSettles
<1> QED BY <1>1, InvAlways, PTL

\* Whoever joins, leaves, is removed or changes role at once: an owner remains unless
\* two that demote overlapped, the limit is overrun only by those that joined
\* between a count and its insert, the team is made of members where deletions are
\* transactions that see every team, and a pending invitation names a removed team
\* only beside the removal or where the removal could not list them all.
THEOREM MembershipSoundAlways ==
  ASSUME ConstantsOK
  PROVE  Spec => []MembershipSound
<1>1. OrganizationInv => MembershipSound
  BY InvSound
<1> QED BY <1>1, InvAlways, PTL
=============================================================================
