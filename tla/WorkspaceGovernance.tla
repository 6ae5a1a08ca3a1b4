------------------------- MODULE WorkspaceGovernance -------------------------
(***************************************************************************)
(* Membership, invitations, access requests, protected controls and        *)
(* ownership of one Business (apps/workspaces/services.py and the command  *)
(* finalize_business_deletions).  Every operation is one transaction that  *)
(* commits as a whole or, when it raises, leaves no trace.                 *)
(*                                                                         *)
(* Of invitations, access requests and control requests only the pending   *)
(* row is kept: the partial unique constraints allow one per email, per    *)
(* user and per action, and a resolved row is history.  An account email   *)
(* stands for its user.  Time is abstracted to "has passed" flags.         *)
(***************************************************************************)
EXTENDS Naturals

CONSTANTS Users,
          NoUser,     \* no audit event yet
          Doors,      \* bound: the ways of joining that callers use
          Offered,    \* bound: the assignable roles callers pick from
          Controls,   \* bound: the control actions callers ask for
          Kinds       \* bound: the workspace types callers choose

Controllers == {"owner", "partner"}
Roles == Controllers \union {"administrator", "manager", "member"}
Actions == {"disable", "reactivate", "delete", "cancel_deletion"}

ASSUME DoorsAssumption == Doors \subseteq {"invitation", "request"}
ASSUME OfferedAssumption == Offered \subseteq Roles \ {"owner"}
ASSUME ControlsAssumption == Controls \subseteq Actions
ASSUME KindsAssumption == Kinds \subseteq {"team", "personal"}
ASSUME NoUserAssumption == NoUser \notin Users

VARIABLES business,     \* the Business row
          member,       \* workspaces_memberships, by user
          invitation,   \* the pending invitation of each user's email
          request,      \* the access request of each user
          control,      \* the pending control request for each action
          actor         \* who the latest audit event names

vars == <<business, member, invitation, request, control, actor>>

Business == [status : {"none", "active", "disabled", "deletion_pending"},
             kind : {"team", "personal"},
             deletion : {"none", "scheduled", "due"},   \* deletion_scheduled_for
             deleted : BOOLEAN]                         \* deleted_at is set
Member == [role : Roles \union {"none"},
           status : {"none", "active", "suspended", "removed"}]
Invitation == [pending : BOOLEAN, role : Roles \union {"none"}, expired : BOOLEAN]
\* "rejected" lasts for WORKSPACE_ACCESS_REQUEST_RETRY_HOURS.
Requests == {"none", "pending", "rejected"}
Control == [pending : BOOLEAN, by : Users \union {NoUser}, expired : BOOLEAN]

NoMember == [role |-> "none", status |-> "none"]
NoInvitation == [pending |-> FALSE, role |-> "none", expired |-> FALSE]
NoControl == [pending |-> FALSE, by |-> NoUser, expired |-> FALSE]

Init ==
  /\ business = [status |-> "none", kind |-> "team", deletion |-> "none", deleted |-> FALSE]
  /\ member = [u \in Users |-> NoMember]
  /\ invitation = [u \in Users |-> NoInvitation]
  /\ request = [u \in Users |-> "none"]
  /\ control = [c \in Actions |-> NoControl]
  /\ actor = NoUser
-----------------------------------------------------------------------------
(* The fixed policy: rbac/policy.py and _roles_actor_can_assign.            *)

ManageInvitations == Controllers \union {"administrator", "manager"}
ManageMembers == Controllers \union {"administrator"}

Active(u) == member[u].status = "active"
IsController(u) == Active(u) /\ member[u].role \in Controllers

\* require_membership for a permission other than business.control.
May(u, roles) == Active(u) /\ member[u].role \in roles /\ business.status = "active"

\* Fault: an administrator may hand out any role below Owner.
AssignableByAnyone(role) ==
  CASE role \in Controllers \union {"administrator"} -> Roles \ {"owner"}
    [] role = "manager" -> {"member"}
    [] OTHER -> {}

Assignable(role) ==
  CASE role \in Controllers -> Roles \ {"owner"}
    [] role = "administrator" -> {"manager", "member"}
    [] role = "manager" -> {"member"}
    [] OTHER -> {}

\* The control actions create_control_request accepts in each state.
Allowed(status) ==
  CASE status = "active" -> {"disable", "delete"}
    [] status = "disabled" -> {"reactivate", "delete"}
    [] status = "deletion_pending" -> {"cancel_deletion"}
    [] OTHER -> {}
-----------------------------------------------------------------------------
(* Creation, type and invitations                                           *)

CreateBusiness(u, kind) ==
  /\ business.status = "none"
  /\ business' = [business EXCEPT !.status = "active", !.kind = kind]
  /\ member' = [member EXCEPT ![u] = [role |-> "owner", status |-> "active"]]
  /\ actor' = u
  /\ UNCHANGED <<invitation, request, control>>

\* update_business_profile, as far as the workspace type goes.
ChangeKind(a, kind) ==
  /\ May(a, ManageMembers)
  /\ kind # business.kind
  /\ kind = "personal" => \A u \in Users \ {a} : ~Active(u)
  /\ business' = [business EXCEPT !.kind = kind]
  /\ actor' = a
  /\ UNCHANGED <<member, invitation, request, control>>

Invite(a, u, role) ==
  /\ May(a, ManageInvitations)
  /\ business.kind # "personal"
  /\ role \in Assignable(member[a].role)
  /\ ~Active(u)
  /\ ~invitation[u].pending
  /\ invitation' = [invitation EXCEPT ![u] = [pending |-> TRUE, role |-> role,
                                              expired |-> FALSE]]
  /\ actor' = a
  /\ UNCHANGED <<business, member, request, control>>

\* Accepting: update_or_create overwrites whatever membership the user has by now, and
\* his own access request is closed.  Neither the state of the Business nor the current
\* membership is looked at.  An expired invitation is marked EXPIRED and then raises,
\* which rolls the mark back.
AcceptInvitation(u) ==
  /\ invitation[u].pending /\ ~invitation[u].expired
  /\ business.kind # "personal"
  /\ member' = [member EXCEPT ![u] = [role |-> invitation[u].role, status |-> "active"]]
  /\ invitation' = [invitation EXCEPT ![u] = NoInvitation]
  /\ request' = [request EXCEPT ![u] = IF @ = "pending" THEN "none" ELSE @]
  /\ actor' = u
  /\ UNCHANGED <<business, control>>

DeclineInvitation(u) ==
  /\ invitation[u].pending /\ ~invitation[u].expired
  /\ invitation' = [invitation EXCEPT ![u] = NoInvitation]
  /\ actor' = u
  /\ UNCHANGED <<business, member, request, control>>

CancelInvitation(a, u) ==
  /\ May(a, ManageInvitations)
  /\ invitation[u].pending
  /\ invitation' = [invitation EXCEPT ![u] = NoInvitation]
  /\ actor' = a
  /\ UNCHANGED <<business, member, request, control>>
-----------------------------------------------------------------------------
(* Access requests and memberships                                          *)

\* A removed user's stale pending request is replaced by the new one.
RequestAccess(u) ==
  /\ business.status = "active"
  /\ business.kind # "personal"
  /\ member[u].status \in {"none", "removed"}
  /\ request[u] \in IF member[u].status = "removed" THEN {"none", "pending"} ELSE {"none"}
  /\ request' = [request EXCEPT ![u] = "pending"]
  /\ actor' = u
  /\ UNCHANGED <<business, member, invitation, control>>

\* The role is checked for a rejection too; an approval overwrites the membership the
\* user has by now.
ApproveAccess(a, u, role) ==
  /\ May(a, ManageMembers)
  /\ role \in Assignable(member[a].role)
  /\ request[u] = "pending"
  /\ request' = [request EXCEPT ![u] = "none"]
  /\ member' = [member EXCEPT ![u] = [role |-> role, status |-> "active"]]
  /\ actor' = a
  /\ UNCHANGED <<business, invitation, control>>

RejectAccess(a, u) ==
  /\ May(a, ManageMembers)
  /\ request[u] = "pending"
  /\ request' = [request EXCEPT ![u] = "rejected"]
  /\ actor' = a
  /\ UNCHANGED <<business, member, invitation, control>>

\* Fault: a field the call leaves out is written as well.
UpdateBothFields(a, u, role, status) ==
  /\ May(a, ManageMembers)
  /\ business.kind # "personal"
  /\ member[u].status # "none"
  /\ member[u].role \notin Controllers
  /\ role # "kept" => role \in Assignable(member[a].role)
  /\ member' = [member EXCEPT ![u] = [role |-> role, status |-> status]]
  /\ actor' = a
  /\ UNCHANGED <<business, invitation, request, control>>

\* update_membership: a role, a status or both; "kept" stands for a field the call leaves out.
UpdateMembership(a, u, role, status) ==
  /\ May(a, ManageMembers)
  /\ business.kind # "personal"
  /\ member[u].status # "none"
  /\ member[u].role # "owner"
  /\ member[u].role = "partner" => member[a].role \in Controllers
  /\ role # "kept" => role \in Assignable(member[a].role)
  /\ role # "kept" \/ status # "kept"
  /\ member' = [member EXCEPT ![u] =
                  [role |-> IF role = "kept" THEN member[u].role ELSE role,
                   status |-> IF status = "kept" THEN member[u].status ELSE status]]
  /\ request' = [request EXCEPT ![u] = IF status = "removed" /\ @ = "pending" THEN "none" ELSE @]
  /\ actor' = a
  /\ UNCHANGED <<business, invitation, control>>

\* Fault: the former owner's row is not demoted.
TransferWithoutDemotion(a, u) ==
  /\ May(a, {"owner"})
  /\ member[u] = [role |-> "partner", status |-> "active"]
  /\ member' = [member EXCEPT ![u].role = "owner"]
  /\ actor' = a
  /\ UNCHANGED <<business, invitation, request, control>>

TransferOwnership(a, u) ==
  /\ May(a, {"owner"})
  /\ member[u] = [role |-> "partner", status |-> "active"]
  /\ member' = [member EXCEPT ![a].role = "partner", ![u].role = "owner"]
  /\ actor' = a
  /\ UNCHANGED <<business, invitation, request, control>>
-----------------------------------------------------------------------------
(* Protected controls                                                       *)

\* Fault: scheduling a deletion forgets its date.
ApplyWithoutDate(c) ==
  business' =
    CASE c = "disable" -> [business EXCEPT !.status = "disabled"]
      [] c = "delete" -> [business EXCEPT !.status = "deletion_pending"]
      [] OTHER -> [business EXCEPT !.status = "active", !.deletion = "none"]

\* _apply_control_action.
Apply(c) ==
  business' =
    CASE c = "disable" -> [business EXCEPT !.status = "disabled"]
      [] c = "delete" -> [business EXCEPT !.status = "deletion_pending",
                                          !.deletion = "scheduled"]
      [] OTHER -> [business EXCEPT !.status = "active", !.deletion = "none"]

OtherController(a) == \E u \in Users \ {a} : IsController(u)

\* A pending request for the same action stands in the way, expired or not.
AsksControl(a, c) ==
  /\ IsController(a)
  /\ c \in Allowed(business.status)
  /\ ~control[c].pending
  /\ actor' = a
  /\ UNCHANGED <<member, invitation, request>>

\* The sole Owner's request is approved and applied in the same transaction.
ControlAlone(a, c) ==
  /\ AsksControl(a, c)
  /\ member[a].role = "owner" /\ ~OtherController(a)
  /\ Apply(c)
  /\ UNCHANGED control

RequestControl(a, c) ==
  /\ AsksControl(a, c)
  /\ OtherController(a)
  /\ control' = [control EXCEPT ![c] = [pending |-> TRUE, by |-> a, expired |-> FALSE]]
  /\ UNCHANGED business

\* Fault: the initiator is let through.
DecidesOwn(a, c) == IsController(a) /\ control[c].pending /\ ~control[c].expired

\* An expired request is marked EXPIRED and then raises, which rolls the mark back.
Decides(a, c) ==
  /\ IsController(a)
  /\ control[c].pending
  /\ control[c].by # a
  /\ ~control[c].expired

\* The action is applied to whatever state the Business is in by now.
ApproveControl(a, c) ==
  /\ Decides(a, c)
  /\ Apply(c)
  /\ control' = [control EXCEPT ![c] = NoControl]
  /\ actor' = a
  /\ UNCHANGED <<member, invitation, request>>

RejectControl(a, c) ==
  /\ Decides(a, c)
  /\ control' = [control EXCEPT ![c] = NoControl]
  /\ actor' = a
  /\ UNCHANGED <<business, member, invitation, request>>

\* finalize_business_deletions writes no audit event and leaves the status alone.
FinalizeDeletion ==
  /\ business.status = "deletion_pending"
  /\ business.deletion = "due"
  /\ business' = [business EXCEPT !.deleted = TRUE]
  /\ member' = [u \in Users |-> IF member[u] = NoMember THEN NoMember
                                ELSE [member[u] EXCEPT !.status = "removed"]]
  /\ UNCHANGED <<invitation, request, control, actor>>
-----------------------------------------------------------------------------
(* The clock                                                                *)

InvitationExpires(u) ==
  /\ invitation[u].pending /\ ~invitation[u].expired
  /\ invitation' = [invitation EXCEPT ![u].expired = TRUE]
  /\ UNCHANGED <<business, member, request, control, actor>>

ControlExpires(c) ==
  /\ control[c].pending /\ ~control[c].expired
  /\ control' = [control EXCEPT ![c].expired = TRUE]
  /\ UNCHANGED <<business, member, invitation, request, actor>>

RetryElapses(u) ==
  /\ request[u] = "rejected"
  /\ request' = [request EXCEPT ![u] = "none"]
  /\ UNCHANGED <<business, member, invitation, control, actor>>

WindowPasses ==
  /\ business.deletion = "scheduled"
  /\ business' = [business EXCEPT !.deletion = "due"]
  /\ UNCHANGED <<member, invitation, request, control, actor>>

Joins(a, u) ==
  \/ "invitation" \in Doors /\ \E role \in Offered : Invite(a, u, role)
  \/ \E role \in Offered : ApproveAccess(a, u, role)
  \/ CancelInvitation(a, u) \/ RejectAccess(a, u) \/ TransferOwnership(a, u)
  \/ \E role \in Offered \union {"kept"}, status \in {"active", "suspended", "removed", "kept"} :
       UpdateMembership(a, u, role, status)

ControlStep(a, c) ==
  ControlAlone(a, c) \/ RequestControl(a, c) \/ ApproveControl(a, c) \/ RejectControl(a, c)

UserStep(u) ==
  \/ AcceptInvitation(u) \/ DeclineInvitation(u)
  \/ "request" \in Doors /\ RequestAccess(u)
  \/ \E kind \in Kinds : CreateBusiness(u, kind) \/ ChangeKind(u, kind)

Clock ==
  \/ \E u \in Users : InvitationExpires(u) \/ RetryElapses(u)
  \/ \E c \in Actions : ControlExpires(c)
  \/ WindowPasses

Next ==
  \/ \E u \in Users : UserStep(u)
  \/ \E a, u \in Users : Joins(a, u)
  \/ \E a \in Users, c \in Controls : ControlStep(a, c)
  \/ FinalizeDeletion
  \/ Clock

\* Time passes and the scheduled command keeps running; nobody has to ask for anything.
Fairness == WF_vars(WindowPasses) /\ WF_vars(FinalizeDeletion)

\* Besides, requests expire and controllers come round to deciding them.
FairDecisions ==
  \A c \in Actions : /\ WF_vars(ControlExpires(c))
                     /\ WF_vars(\E a \in Users : ApproveControl(a, c) \/ RejectControl(a, c))

SafetySpec == Init /\ [][Next]_vars
Spec == SafetySpec /\ Fairness
FairSpec == Spec /\ FairDecisions
-----------------------------------------------------------------------------
(* Properties                                                               *)

\* All rows stay within their types.
TypeOK ==
  /\ business \in Business
  /\ member \in [Users -> Member]
  /\ invitation \in [Users -> Invitation]
  /\ request \in [Users -> Requests]
  /\ control \in [Actions -> Control]
  /\ actor \in Users \union {NoUser}

\* No sequence of joins, changes and transfers gives two members the Owner role, active or
\* not (workspace_one_active_owner is never what saves the program).
AtMostOneOwner ==
  \A u, v \in Users : (member[u].role = "owner" /\ member[v].role = "owner") => u = v

\* The state of a Business changes only with two controllers agreeing, or with its Owner when
\* there is no other controller (create_control_request, decide_control_request).
IndependentApproval ==
  [][(business.status # "none" /\ business'.status # business.status) =>
       \E a \in Users :
         /\ actor' = a
         /\ IsController(a)
         /\ \/ member[a].role = "owner" /\ ~OtherController(a)
            \/ \E c \in Actions : /\ control[c].pending /\ control'[c] = NoControl
                                  /\ control[c].by \in Users \ {a}]_vars

\* Whoever becomes a controller was made one by another controller, directly or through a
\* Partner invitation he accepts; and only a controller issues such an invitation.
ControllersAreAppointed ==
  [][\A u \in Users : business.status # "none" =>
       /\ (IsController(u)' /\ ~IsController(u)) =>
            \/ \E a \in Users \ {u} : actor' = a /\ IsController(a)
            \/ actor' = u /\ invitation[u].pending /\ invitation[u].role = "partner"
       /\ (invitation'[u] # invitation[u] /\ invitation'[u].role = "partner"
             /\ ~invitation'[u].expired) =>
            \E a \in Users : actor' = a /\ IsController(a)]_vars

\* A scheduled deletion is either finalized or called off by a control action.
ScheduledDeletionEnds ==
  business.status = "deletion_pending" ~> (business.deleted \/ business.status # "deletion_pending")

\* docs: "The Owner cannot be removed or demoted; ownership uses a dedicated transfer."
OwnerOnlyByTransfer ==
  [][\A u \in Users :
       (/\ member[u] = [role |-> "owner", status |-> "active"]
        /\ member'[u] # member[u]
        /\ ~business'.deleted) => \E v \in Users : TransferOwnership(u, v)]_vars

\* docs: "Requests expire after 24 hours."
ExpiredControlsMakeRoom ==
  \A c \in Actions : control[c].expired ~> ~control[c].pending
=============================================================================
