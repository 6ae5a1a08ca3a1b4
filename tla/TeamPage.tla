------------------------------- MODULE TeamPage -------------------------------
(***************************************************************************)
(* Who works in a business: the members with their roles, the invitations  *)
(* and the requests for access, each a view of one component.              *)
(*                                                                         *)
(* `role` is the user's own role as the page knows it; the workspace is    *)
(* polled, and it may change at any time.  One row stands for each list:   *)
(* a member with a role and a status, an invitation, a request.  `row` is  *)
(* the id of the row that is busy: a second action takes it over.          *)
(***************************************************************************)
EXTENDS PageRuntime

TeamViews   == {"members", "invitations", "access"}
TeamRoles   == {"owner", "partner", "administrator", "manager", "member"}
Assignables == {"partner", "administrator", "manager", "member"}
Leaders     == {"owner", "partner"}

(* What the page knows of permissions. *)
ManagesMembers(role)     == role \in {"owner", "partner", "administrator"}
ManagesInvitations(role) == role \in {"owner", "partner", "administrator", "manager"}

(* allowedInviteRoles *)
InviteRoles(role) ==
    IF role \in Leaders THEN Assignables
    ELSE IF role = "administrator" THEN {"manager", "member"} ELSE {"member"}

(* The last of them is proposed for a request. *)
ProposedRole == "member"

(* protectedMember and roleOptions of a member's row. *)
Protected(role, target) == target = "owner" \/ (target = "partner" /\ role \notin Leaders)
\* Fault: every role is offered to everybody.
EveryRole(role) == Assignables

RoleOptions(role) == IF role \in Leaders THEN Assignables ELSE {"manager", "member"}

(* What the backend accepts, for a role and a membership it is to change.   *)
BackendAssigns(role) ==
    CASE role \in Leaders -> Assignables
      [] role = "administrator" -> {"manager", "member"}
      [] role = "manager" -> {"member"}
      [] OTHER -> {}

BackendProtects(role, target) == target = "owner" \/ (target = "partner" /\ role \notin Leaders)

TeamUi(view, role) ==
    [view |-> view, role |-> role, loading |-> TRUE, row |-> None, email |-> FALSE,
     inviteRole |-> "member", approvalRole |-> None,
     target |-> "member", listed |-> TRUE, pending |-> TRUE,
     draft |-> 1, busy |-> FALSE, saved |-> None]

TeamInit ==
    /\ page = "team" /\ calls = Mounted /\ store = NoWrites
    /\ \E view \in TeamViews, role \in TeamRoles : ui = TeamUi(view, role)

Authorized ==
    CASE ui.view = "members" -> TRUE
      [] ui.view = "invitations" -> ManagesInvitations(ui.role)
      [] ui.view = "access" -> ManagesMembers(ui.role)

Shown == Authorized /\ ~ui.loading

(* A request that acts on a row makes that row the busy one. *)
Acts(op, row, arg) ==
    /\ ui.row # row
    /\ Sends(op, 0, arg)
    /\ ui' = [ui EXCEPT !.row = row, !.busy = TRUE]
    /\ UNCHANGED <<page, store>>

(* Whatever ends, no row is busy any more. *)
Idle(next) == [next EXCEPT !.row = None, !.busy = FALSE]

-----------------------------------------------------------------------------
(* The workspace and the lists. *)

(* The provider's poll finds the business changed, and with it perhaps the  *)
(* role; the list is read again.                                            *)
RoleChanges(role) ==
    /\ \E s \in Slots : /\ InUse(s, "load") \/ (Free(s) /\ ~UnderWay("load"))
                        /\ Start(s, "load", 0, None)
    /\ ui' = [ui EXCEPT !.role = role, !.loading = TRUE]
    /\ UNCHANGED <<page, store>>

(* The lists as the backend has them now. *)
TeamLoaded(s) ==
    \/ Ends(s, "load", [ui EXCEPT !.loading = FALSE])
    \/ \E target \in TeamRoles, listed \in BOOLEAN :
          Ends(s, "load", [ui EXCEPT !.loading = FALSE, !.target = target, !.listed = listed])

-----------------------------------------------------------------------------
(* Members. *)

ChangesMember == ui.view = "members" /\ Shown /\ ManagesMembers(ui.role) /\ ui.listed
                   /\ ~Protected(ui.role, ui.target)

UpdateRole(role) ==
    /\ ChangesMember /\ role \in RoleOptions(ui.role)
    /\ Acts("member", "row", [by |-> ui.role, target |-> ui.target, role |-> role, change |-> "role"])

UpdateStatus(change) ==
    /\ ChangesMember
    /\ Acts("member", "row", [by |-> ui.role, target |-> ui.target, role |-> None, change |-> change])

(* The answer replaces the row by its id, or drops a member who was removed. *)
MemberUpdated(s) ==
    \/ /\ InUse(s, "member")
       /\ LET c == calls[s].arg
          IN  Ends(s, "member",
                   Idle([ui EXCEPT !.target = IF c.role = None THEN @ ELSE c.role,
                                   !.listed = @ /\ c.change # "removed"]))
    \/ Ends(s, "member", Idle(ui))

-----------------------------------------------------------------------------
(* Invitations. *)

TypeInvitation(typed) == ui.view = "invitations" /\ Authorized /\ Sets([ui EXCEPT !.email = typed])

ChooseInviteRole(role) ==
    /\ ui.view = "invitations" /\ Authorized /\ role \in InviteRoles(ui.role)
    /\ Sets([ui EXCEPT !.inviteRole = role])

(* A role chosen before the user's own role changed is sent all the same.   *)
SendInvitation ==
    /\ ui.view = "invitations" /\ Authorized /\ ui.email
    /\ Acts("invite", "invite", ui.inviteRole)

InvitationSent(s) ==
    \/ Ends(s, "invite", Idle([ui EXCEPT !.listed = TRUE, !.pending = TRUE, !.email = FALSE]))
    \/ Ends(s, "invite", Idle(ui))

CancelInvitation ==
    /\ ui.view = "invitations" /\ Shown /\ ui.listed /\ ui.pending
    /\ Acts("cancel", "row", None)

InvitationCancelled(s) ==
    \/ Ends(s, "cancel", Idle([ui EXCEPT !.pending = FALSE]))
    \/ Ends(s, "cancel", Idle(ui))

-----------------------------------------------------------------------------
(* Requests for access. *)

ChooseApprovalRole(role) ==
    /\ ui.view = "access" /\ Shown /\ ui.listed /\ role \in InviteRoles(ui.role)
    /\ ui.row # "row"
    /\ Sets([ui EXCEPT !.approvalRole = role])

(* A rejection names a role as well, which the backend checks first. *)
DecideRequest(decision) ==
    /\ ui.view = "access" /\ Shown /\ ui.listed
    /\ Acts("decide", "row",
            [by |-> ui.role,
             role |-> IF decision = "approve" /\ ui.approvalRole # None THEN ui.approvalRole
                      ELSE ProposedRole])

RequestDecided(s) ==
    \/ Ends(s, "decide", Idle([ui EXCEPT !.listed = FALSE]))
    \/ Ends(s, "decide", Idle(ui))

TeamUser ==
    \/ SendInvitation \/ CancelInvitation
    \/ \E role \in Assignables : UpdateRole(role) \/ ChooseInviteRole(role) \/ ChooseApprovalRole(role)
    \/ \E change \in {"status", "removed"} : UpdateStatus(change)
    \/ \E typed \in BOOLEAN : TypeInvitation(typed)
    \/ \E decision \in {"approve", "reject"} : DecideRequest(decision)

TeamAnswered(s) ==
    \/ TeamLoaded(s) \/ MemberUpdated(s)
    \/ InvitationSent(s) \/ InvitationCancelled(s) \/ RequestDecided(s)

TeamNext ==
    /\ page = "team"
    /\ \/ TeamUser \/ \E role \in TeamRoles : RoleChanges(role)
       \/ \E s \in Slots : TeamAnswered(s)

-----------------------------------------------------------------------------
(* The page offers no change of a member the backend would refuse the role  *)
(* the page knew the user to have: what is on its way may fail because that *)
(* role or the member has changed since, never for a rule the page has      *)
(* wrong.                                                                   *)
ChangesStayWithinRank ==
    page = "team" =>
        \A s \in Slots : InUse(s, "member") =>
            LET c == calls[s].arg
            IN  /\ ~BackendProtects(c.by, c.target)
                /\ c.role # None => c.role \in BackendAssigns(c.by)
=============================================================================
