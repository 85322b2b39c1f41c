---------------------------- MODULE Organization ----------------------------
(***************************************************************************)
(* Members, invitations and a team of one organization                     *)
(* (src/packages/shinauth/src/plugins/organization: routes/crud-invites.ts,*)
(* crud-members.ts, crud-team.ts and adapter.ts).                          *)
(*                                                                         *)
(* Reads of a request that nothing separates but other reads are one step; *)
(* each write is a step of its own. What runWithTransaction wraps becomes  *)
(* visible when it commits, or not at all, where the adapter has           *)
(* transactions; otherwise each write is there at once and stays.          *)
(***************************************************************************)
EXTENDS Integers, FiniteSets

CONSTANTS
  Requests,
  Users,
  Past,         \* who made the invitation there is at the start
  Deployments   \* the configurations, people and requests to consider

Operations == {"invite", "accept", "reject", "cancel", "addMember", "removeMember",
               "leave", "updateRole", "addToTeam", "removeTeam"}
Roles == {"owner", "member"}     \* admins are not told apart from owners
Demotes == {"removeMember", "leave", "updateRole"}
Makers == Requests \cup Users    \* a row there is at the start is named by its user

Deployment ==
  [ops          : [Requests -> SUBSET Operations],
   actor        : [Requests -> Users],
   target       : [Requests -> Users],
   atomic       : BOOLEAN,   \* the adapter has transactions
   members      : [Users -> Roles \cup {"none"}],   \* at the start
   invited      : Users,     \* by the invitation there is at the start
   teams        : BOOLEAN,   \* invitations and additions name the team
   limit        : Nat,       \* membershipLimit
   teamLimit    : Nat,       \* maximumMembersPerTeam
   pendingLimit : Nat,       \* invitationLimit
   page         : Nat,       \* how many rows findMany answers at most: 100
   manyTeams    : BOOLEAN,   \* there are more teams than that
   cancelOld    : BOOLEAN,   \* cancelPendingInvitationsOnReInvite
   short        : SUBSET (Requests \cup {Past}),   \* invitations that expire meanwhile
   maxFailures  : Nat]

ConstantsOK ==
  /\ Past \notin Requests /\ Requests \cap Users = {}
  /\ Deployments \subseteq Deployment
  /\ \A d \in Deployments :
       /\ \E u \in Users : d.members[u] = "owner"
       /\ IsFiniteSet({u \in Users : d.members[u] # "none"})
       /\ Cardinality({u \in Users : d.members[u] # "none"}) <= d.limit

VARIABLES
  deploy,       \* the configuration, chosen at the start
  members,      \* the rows of members
  invitations,  \* the rows of invitations
  team,         \* whether the team is there
  teamRows,     \* the rows of its members
  call,         \* the state of each request
  raced,        \* history: two requests that can take an owner's role overlapped
  cut           \* history: a removal of the team listed as many invitations as it can

vars == <<deploy, members, invitations, team, teamRows, call, raced, cut>>
rows == <<members, invitations, team, teamRows>>

MemberRow == [id : Makers, user : Users, role : Roles]
TeamRow == [id : Makers, user : Users]
Invitations == Requests \cup {Past}
Invitation == [status : {"none", "pending", "accepted", "rejected", "canceled"},
               user   : Users,
               team   : BOOLEAN,   \* it names the team
               live   : BOOLEAN]   \* it has not expired

Steps == {"find", "pending", "extend", "cancelOld", "vacancy", "create", "count", "claim",
          "team", "teamAdd", "member", "active", "release", "owners", "delete", "teamDelete",
          "update", "status", "listTeam", "dropTeam", "strip"}
Ended == {"ok", "rejected", "failed"}
Call == [op     : Operations \cup {"none"},
         at     : {"idle"} \cup Steps \cup Ended,
         inv    : Invitations,
         row    : MemberRow \cup {<<>>},     \* the member to change
         role   : Roles,
         team   : BOOLEAN,
         adds   : SUBSET TeamRow,          \* written, and not committed
         strip  : SUBSET Invitations,      \* to strip of the team
         joined : SUBSET Requests,         \* history: made members since this one counted
         gone   : SUBSET Users,            \* history: taken out while it ran
         beside : BOOLEAN]                 \* history: it ran beside a removal of the team
NoCall == [op |-> "none", at |-> "idle", inv |-> Past, row |-> <<>>, role |-> "member",
           team |-> FALSE, adds |-> {}, strip |-> {}, joined |-> {}, gone |-> {},
           beside |-> FALSE]

At(r, pc) == call[r].at = pc
Op(r) == call[r].op
Actor(r) == deploy.actor[r]
Target(r) == IF Op(r) \in {"accept", "leave"} THEN Actor(r) ELSE deploy.target[r]
InFlight(r) == call[r].at \in Steps
Become(r, c) == call' = [call EXCEPT ![r] = c]
Goto(r, pc) == Become(r, [call[r] EXCEPT !.at = pc])
RowsOf(u) == {m \in members : m.user = u}
Owners == {m \in members : m.role = "owner"}

\* What findMany may answer of the rows of S, without a limit or an order given.
Page(S) ==
  {T \in SUBSET S : \/ Cardinality(T) = deploy.page
                    \/ T = S /\ Cardinality(T) < deploy.page}
\* The pending invitations of some users; those that expired are left out later.
PendingOf(us) ==
  {i \in Invitations : invitations[i].status = "pending" /\ invitations[i].user \in us}
Live(is) == {i \in is : invitations[i].live}

-----------------------------------------------------------------------------
Init ==
  /\ deploy \in Deployments
  /\ members = {[id |-> u, user |-> u, role |-> deploy.members[u]] :
                  u \in {v \in Users : deploy.members[v] # "none"}}
  /\ invitations = [i \in Invitations |->
       [status |-> IF i = Past THEN "pending" ELSE "none", user |-> deploy.invited,
        team |-> i = Past /\ deploy.teams, live |-> i = Past]]
  /\ team = TRUE
  /\ teamRows = {}
  /\ call = [r \in Requests |-> NoCall]
  /\ raced = FALSE
  /\ cut = FALSE

Start(r, op) ==
  /\ At(r, "idle")
  /\ \E i \in IF op \in {"accept", "reject", "cancel"} THEN Invitations ELSE {r} :
     \E role \in IF op = "updateRole" THEN Roles ELSE {"member"} :
       call' = [q \in Requests |->
         IF q = r
           THEN [NoCall EXCEPT !.op = op, !.at = "find", !.inv = i, !.role = role,
                   !.beside = \E p \in Requests : InFlight(p) /\ Op(p) = "removeTeam"]
           ELSE [call[q] EXCEPT !.beside = @ \/ (InFlight(q) /\ op = "removeTeam")]]
  /\ raced' = (raced \/ (op \in Demotes /\ \E q \in Requests : InFlight(q) /\ Op(q) \in Demotes))
  /\ UNCHANGED <<deploy, rows, cut>>

-----------------------------------------------------------------------------
\* What a request reads first. hasPermission: an owner may do all of these.
Permitted(r) == \E m \in RowsOf(Actor(r)) : m.role = "owner"

\* The step that follows for the row m that findMemberByOrgId answers, and t, the
\* row to change.
Change(r, m, t) ==
  CASE Op(r) = "leave" -> IF m.role = "owner" THEN "owners" ELSE "delete"
    [] Op(r) = "removeMember" ->
         IF m.role # "owner" THEN "rejected" ELSE IF t.role = "owner" THEN "owners" ELSE "delete"
    [] Op(r) = "updateRole" ->
         IF m.role # "owner" THEN "rejected" ELSE IF m = t THEN "owners" ELSE "update"

FindRow(r) ==
  \/ /\ RowsOf(Actor(r)) = {} \/ RowsOf(Target(r)) = {}
     /\ Goto(r, "rejected")
  \/ \E m \in RowsOf(Actor(r)) : \E t \in IF Op(r) = "leave" THEN {m} ELSE RowsOf(Target(r)) :
       Become(r, [call[r] EXCEPT !.at = Change(r, m, t), !.row = t])

AfterFind(r) ==
  LET i == invitations[call[r].inv]
      mine == i.status = "pending" /\ i.user = Actor(r)
  IN CASE Op(r) = "accept" -> IF mine /\ i.live THEN "count" ELSE "rejected"
       [] Op(r) = "reject" -> IF mine THEN "status" ELSE "rejected"
       [] Op(r) = "cancel" -> IF i.status # "none" /\ Permitted(r) THEN "status" ELSE "rejected"
       [] Op(r) = "invite" ->
            IF Permitted(r) /\ RowsOf(Target(r)) = {} THEN "pending" ELSE "rejected"
       [] Op(r) = "addMember" ->
            IF RowsOf(Target(r)) = {} /\ (deploy.teams => team) THEN "count" ELSE "rejected"
       [] Op(r) = "addToTeam" ->
            IF Permitted(r) /\ RowsOf(Target(r)) # {} /\ team THEN "team" ELSE "rejected"
       [] Op(r) = "removeTeam" ->
            IF ~Permitted(r) \/ ~team THEN "rejected"
            ELSE IF deploy.atomic THEN "listTeam" ELSE "dropTeam"

Find(r) ==
  /\ At(r, "find")
  /\ IF Op(r) \in Demotes THEN FindRow(r) ELSE Goto(r, AfterFind(r))
  /\ UNCHANGED <<deploy, rows, raced, cut>>

-----------------------------------------------------------------------------
\* inviteMember

\* findPendingInvitation: to send one again, to cancel it, or neither.
LookPending(r) ==
  /\ At(r, "pending")
  /\ \E T \in Page(PendingOf({Target(r)})) :
       IF Live(T) = {}
         THEN Goto(r, "vacancy")
         ELSE \E i \in Live(T) :
              \E next \in {"extend", IF deploy.cancelOld THEN "cancelOld" ELSE "rejected"} :
                Become(r, [call[r] EXCEPT !.at = next, !.inv = i])
  /\ UNCHANGED <<deploy, rows, raced, cut>>

Extend(r) ==
  /\ At(r, "extend")
  /\ invitations' = [invitations EXCEPT ![call[r].inv].live = TRUE]
  /\ Goto(r, "ok")
  /\ UNCHANGED <<deploy, members, team, teamRows, raced, cut>>

CancelOld(r) ==
  /\ At(r, "cancelOld")
  /\ invitations' = [invitations EXCEPT ![call[r].inv].status = "canceled"]
  /\ Goto(r, "vacancy")
  /\ UNCHANGED <<deploy, members, team, teamRows, raced, cut>>

\* The limit of invitations; then the team must be there and not full.
Vacancy(r) ==
  /\ At(r, "vacancy")
  /\ \E T \in Page(PendingOf(Users)) :
       Goto(r, IF \/ Cardinality(Live(T)) >= deploy.pendingLimit
                  \/ deploy.teams /\ (~team \/ Cardinality(teamRows) >= deploy.teamLimit)
                 THEN "rejected" ELSE "create")
  /\ UNCHANGED <<deploy, rows, raced, cut>>

Create(r) ==
  /\ At(r, "create")
  /\ invitations' = [invitations EXCEPT ![r] =
       [status |-> "pending", user |-> Target(r), team |-> deploy.teams, live |-> TRUE]]
  /\ Goto(r, "ok")
  /\ UNCHANGED <<deploy, members, team, teamRows, raced, cut>>

\* rejectInvitation and cancelInvitation write whatever the status has become.
Status(r) ==
  /\ At(r, "status")
  /\ invitations' = [invitations EXCEPT ![call[r].inv].status =
       IF Op(r) = "reject" THEN "rejected" ELSE "canceled"]
  /\ Goto(r, "ok")
  /\ UNCHANGED <<deploy, members, team, teamRows, raced, cut>>

-----------------------------------------------------------------------------
\* acceptInvitation, addMember, addTeamMember

\* countMembers
Count(r) ==
  /\ At(r, "count")
  /\ Become(r, [call[r] EXCEPT
       !.at = IF Cardinality(members) >= deploy.limit THEN "rejected"
              ELSE IF Op(r) = "accept" THEN "claim"
              ELSE IF deploy.teams THEN "team" ELSE "member",
       !.joined = {}])
  /\ UNCHANGED <<deploy, rows, raced, cut>>

\* Faulty: the status is not looked at again.
ClaimBlind(r) ==
  /\ At(r, "claim")
  /\ LET i == invitations[call[r].inv] IN
       /\ invitations' = [invitations EXCEPT ![call[r].inv].status = "accepted"]
       /\ Become(r, [call[r] EXCEPT !.at = IF i.team THEN "team" ELSE "member", !.team = i.team])
  /\ UNCHANGED <<deploy, members, team, teamRows, raced, cut>>

\* updateInvitation from pending, in one statement. It answers the row.
Claim(r) ==
  /\ At(r, "claim")
  /\ LET i == invitations[call[r].inv] IN
       IF i.status = "pending"
         THEN /\ invitations' = [invitations EXCEPT ![call[r].inv].status = "accepted"]
              /\ Become(r, [call[r] EXCEPT !.at = IF i.team THEN "team" ELSE "member",
                                           !.team = i.team])
         ELSE Goto(r, "rejected") /\ UNCHANGED invitations
  /\ UNCHANGED <<deploy, members, team, teamRows, raced, cut>>

\* Where a request goes when its work is refused.
Abort(r) == IF Op(r) = "accept" THEN "release" ELSE "rejected"

\* An accept looks the team up again, the others did before; then the first reads
\* of addTeamMemberWithLimit.
Team(r) ==
  /\ At(r, "team")
  /\ LET there == \E t \in teamRows : t.user = Target(r)
         lost == Op(r) = "accept" /\ ~team
     IN
       Goto(r, IF lost \/ (~there /\ Cardinality(teamRows) >= deploy.teamLimit) THEN Abort(r)
               ELSE IF ~there THEN "teamAdd"
               ELSE IF Op(r) = "addToTeam" THEN "ok" ELSE "member")
  /\ UNCHANGED <<deploy, rows, raced, cut>>

\* Only the transaction of an accept is still open after this.
TeamAdd(r) ==
  /\ At(r, "teamAdd")
  /\ LET row == [id |-> r, user |-> Target(r)]
         held == deploy.atomic /\ Op(r) = "accept"
     IN /\ teamRows' = IF held THEN teamRows ELSE teamRows \cup {row}
        /\ Become(r, [call[r] EXCEPT !.at = IF Op(r) = "addToTeam" THEN "ok" ELSE "member",
                                     !.adds = IF held THEN {row} ELSE {}])
  /\ UNCHANGED <<deploy, members, invitations, team, raced, cut>>

\* A new row of a member can be seen from now on.
Joined(r, next) ==
  /\ members' = members \cup {[id |-> r, user |-> Target(r), role |-> "member"]}
  /\ call' = [q \in Requests |->
       IF q = r THEN [call[r] EXCEPT !.at = next, !.adds = {}]
       ELSE [call[q] EXCEPT !.joined = IF InFlight(q) THEN @ \cup {r} ELSE @]]

\* createMember
Member(r) ==
  /\ At(r, "member")
  /\ CASE Op(r) = "addMember" -> Joined(r, "ok")
       [] Op(r) = "accept" /\ ~deploy.atomic -> Joined(r, "active")
       [] OTHER -> Goto(r, "active") /\ UNCHANGED members
  /\ UNCHANGED <<deploy, invitations, team, teamRows, raced, cut>>

\* setActiveOrganization, and the commit.
Active(r) ==
  /\ At(r, "active")
  /\ IF deploy.atomic
       THEN Joined(r, "ok") /\ teamRows' = teamRows \cup call[r].adds
       ELSE Goto(r, "ok") /\ UNCHANGED <<members, teamRows>>
  /\ UNCHANGED <<deploy, invitations, team, raced, cut>>

\* The claim is released, whatever the status has become.
Release(r) ==
  /\ At(r, "release")
  /\ invitations' = [invitations EXCEPT ![call[r].inv].status = "pending"]
  /\ Become(r, [call[r] EXCEPT !.at = "rejected", !.adds = {}])
  /\ UNCHANGED <<deploy, members, team, teamRows, raced, cut>>

-----------------------------------------------------------------------------
\* removeMember, leaveOrganization, updateMemberRole

\* Faulty: whoever is an owner may go.
CountOwnersLax(r) ==
  /\ At(r, "owners")
  /\ Goto(r, IF Cardinality(Owners) < 1 /\ ~(Op(r) = "updateRole" /\ call[r].role = "owner")
               THEN "rejected"
             ELSE IF Op(r) = "updateRole" THEN "update" ELSE "delete")
  /\ UNCHANGED <<deploy, rows, raced, cut>>

\* The owners are listed where one might go.
CountOwners(r) ==
  /\ At(r, "owners")
  /\ Goto(r, IF Cardinality(Owners) <= 1 /\ ~(Op(r) = "updateRole" /\ call[r].role = "owner")
               THEN "rejected"
             ELSE IF Op(r) = "updateRole" THEN "update" ELSE "delete")
  /\ UNCHANGED <<deploy, rows, raced, cut>>

\* The users that a deletion takes out, as the requests in flight see it.
TakeOut(r, next) ==
  call' = [q \in Requests |->
    IF q = r THEN [call[r] EXCEPT !.at = next]
    ELSE [call[q] EXCEPT !.gone = IF InFlight(q) THEN @ \cup {call[r].row.user} ELSE @]]
\* Out of the teams that findMany lists.
LeaveTeam(u) ==
  teamRows' \in {{t \in teamRows : t.user # u}} \cup IF deploy.manyTeams THEN {teamRows} ELSE {}

\* deleteMember
Delete(r) ==
  /\ At(r, "delete")
  /\ members' = {m \in members : m.id # call[r].row.id}
  /\ IF deploy.atomic
       THEN LeaveTeam(call[r].row.user) /\ TakeOut(r, "ok")
       ELSE UNCHANGED teamRows /\ TakeOut(r, "teamDelete")
  /\ UNCHANGED <<deploy, invitations, team, raced, cut>>

TeamDelete(r) ==
  /\ At(r, "teamDelete")
  /\ LeaveTeam(call[r].row.user)
  /\ Goto(r, "ok")
  /\ UNCHANGED <<deploy, members, invitations, team, raced, cut>>

\* updateMember
Update(r) ==
  /\ At(r, "update")
  /\ LET there == {m \in members : m.id = call[r].row.id} IN
       /\ members' = (members \ there) \cup {[m EXCEPT !.role = call[r].role] : m \in there}
       /\ Goto(r, IF there = {} THEN "rejected" ELSE "ok")
  /\ UNCHANGED <<deploy, invitations, team, teamRows, raced, cut>>

-----------------------------------------------------------------------------
\* removeTeam

NamesTeam(i) == /\ invitations[i].status = "pending" /\ invitations[i].live
                /\ invitations[i].team
Stripped(is) == [i \in Invitations |->
                   [invitations[i] EXCEPT !.team = @ /\ i \notin is]]

\* findPendingInvitations. In a transaction the deletion is not visible yet.
ListTeam(r) ==
  /\ At(r, "listTeam")
  /\ \E T \in Page(PendingOf(Users)) :
       /\ Become(r, [call[r] EXCEPT !.at = IF deploy.atomic THEN "dropTeam" ELSE "strip",
                                    !.strip = {i \in T : NamesTeam(i)}])
       /\ cut' = (cut \/ Cardinality(T) = deploy.page)
  /\ UNCHANGED <<deploy, rows, raced>>

\* deleteTeam, and the commit.
DropTeam(r) ==
  /\ At(r, "dropTeam")
  /\ team' = FALSE
  /\ teamRows' = {}
  /\ invitations' = IF deploy.atomic THEN Stripped(call[r].strip) ELSE invitations
  /\ Goto(r, IF deploy.atomic THEN "ok" ELSE "listTeam")
  /\ UNCHANGED <<deploy, members, raced, cut>>

\* One invitation after another.
Strip(r) ==
  /\ At(r, "strip")
  /\ IF call[r].strip = {}
       THEN Goto(r, "ok") /\ UNCHANGED invitations
       ELSE \E i \in call[r].strip :
              /\ invitations' = Stripped({i})
              /\ Become(r, [call[r] EXCEPT !.strip = @ \ {i}])
  /\ UNCHANGED <<deploy, members, team, teamRows, raced, cut>>

-----------------------------------------------------------------------------
Expire(i) ==
  /\ invitations[i].live
  /\ invitations' = [invitations EXCEPT ![i].live = FALSE]
  /\ UNCHANGED <<deploy, members, team, teamRows, call, raced, cut>>

\* A storage call throws, or the process dies and nothing more is done. What a
\* transaction has written is gone; an accept that is told of it is released.
Fail(r) ==
  /\ InFlight(r)
  /\ Cardinality({q \in Requests : At(q, "failed")}) < deploy.maxFailures
  /\ \E next \in {"failed"} \cup
                 (IF Op(r) = "accept" /\ call[r].at \in {"team", "teamAdd", "member", "active"}
                    THEN {"release"} ELSE {}) :
       Become(r, [call[r] EXCEPT !.at = next, !.adds = {}])
  /\ UNCHANGED <<deploy, rows, raced, cut>>

Step(r) ==
  \/ Find(r) \/ LookPending(r) \/ Extend(r) \/ CancelOld(r) \/ Vacancy(r) \/ Create(r) \/ Status(r)
  \/ Count(r) \/ Claim(r) \/ Team(r) \/ TeamAdd(r) \/ Member(r) \/ Active(r) \/ Release(r)
  \/ CountOwners(r) \/ Delete(r) \/ TeamDelete(r) \/ Update(r)
  \/ ListTeam(r) \/ DropTeam(r) \/ Strip(r)
Idle == (\A r \in Requests : ~InFlight(r)) /\ UNCHANGED vars

Next ==
  \/ \E r \in Requests : \E op \in deploy.ops[r] : Start(r, op)
  \/ \E r \in Requests : Step(r)
  \/ \E r \in Requests : Fail(r)
  \/ \E i \in deploy.short : Expire(i)
  \/ Idle

Spec == Init /\ [][Next]_vars

-----------------------------------------------------------------------------
(* Properties *)

\* The state has its type.
TypeOK ==
  /\ deploy \in Deployments
  /\ members \subseteq MemberRow
  /\ invitations \in [Invitations -> Invitation]
  /\ team \in BOOLEAN
  /\ teamRows \subseteq TeamRow
  /\ call \in [Requests -> Call]
  /\ raced \in BOOLEAN /\ cut \in BOOLEAN

\* However accepts of an invitation race, fail and are tried again, beside
\* rejections and cancellations, one of them at most is answered; with transactions
\* it makes one member at most.
AcceptsOf(i) == {r \in Requests : Op(r) = "accept" /\ call[r].inv = i}
AcceptedOnce ==
  \A i \in Invitations :
    /\ Cardinality({r \in AcceptsOf(i) : At(r, "ok")}) <= 1
    /\ deploy.atomic => Cardinality({m \in members : m.id \in AcceptsOf(i)}) <= 1

\* No invitation is stranded: one that says accepted has an accept that made a
\* member, is still at work, or died; a refusal makes it pending again.
ClaimNotStranded ==
  \A i \in Invitations : invitations[i].status = "accepted" =>
    \E r \in AcceptsOf(i) : At(r, "ok") \/ At(r, "failed") \/ InFlight(r)

\* The organization keeps an owner, unless two requests that can take an owner's
\* role overlapped.
OwnerRemains == raced \/ Owners # {}

\* The limit of members is overrun by no more than the members that others made
\* between the count and the insert of one request.
LimitOverrunBounded ==
  \/ Cardinality(members) <= deploy.limit
  \/ \E r \in Requests : Cardinality(members) <= deploy.limit + Cardinality(call[r].joined)

\* With transactions, and no more teams than one query answers, everyone in the
\* team is a member. There are two exceptions: who was taken out while the request
\* that put them there was at work, and who was put there by an addMember that has
\* not created the member yet or failed to: the addition to the team commits first.
TeamOfMembers ==
  deploy.atomic /\ ~deploy.manyTeams => \A t \in teamRows :
    \/ RowsOf(t.user) # {}
    \/ At(t.id, "ok") /\ t.user \in call[t.id].gone
    \/ Op(t.id) = "addMember" /\ call[t.id].at \in {"member", "failed"}

\* A pending invitation can be accepted: it does not name a removed team, unless the
\* request that made, extended or claimed it ran beside the removal, or the
\* removal is at work or failed.
PendingStayAcceptable ==
  \A i \in Invitations : NamesTeam(i) /\ ~team =>
    \/ \E r \in Requests : /\ call[r].beside
                           /\ r = i \/ (Op(r) \in {"accept", "invite"} /\ call[r].inv = i)
    \/ \E r \in Requests : Op(r) = "removeTeam" /\ (InFlight(r) \/ At(r, "failed"))

\* This holds where the removal can list all pending invitations.
PendingNamesTeam == cut \/ PendingStayAcceptable

\* An invitation is answered once, and an accept that fails gives it back.
InvitationSettled == AcceptedOnce /\ ClaimNotStranded

\* Whatever joins, leaves and removals overlap, the organization keeps an owner, the
\* limit bounds its members up to those that raced, and its team is made of them.
MembershipSound ==
  OwnerRemains /\ LimitOverrunBounded /\ TeamOfMembers /\ PendingNamesTeam
=============================================================================
