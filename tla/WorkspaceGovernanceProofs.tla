---------------------- MODULE WorkspaceGovernanceProofs ----------------------
(***************************************************************************)
(* Membership and protected controls for any number of users and whatever  *)
(* roles, controls and workspace types they choose.                        *)
(***************************************************************************)
EXTENDS WorkspaceGovernance, TLAPS

\* Nobody is ever offered ownership, every pending control request names the user who asked,
\* and before the Business exists nobody belongs to it.
Inv ==
  /\ TypeOK
  /\ AtMostOneOwner
  /\ \A u \in Users : invitation[u].role # "owner"
  /\ \A c \in Actions : control[c].pending => control[c].by \in Users
  /\ business.status = "none" => \A u \in Users : member[u] = NoMember /\ ~invitation[u].pending

LEMMA AssignableFacts ==
  ASSUME NEW giver \in Roles \union {"none"}, NEW role \in Assignable(giver)
  PROVE  /\ role \in Roles \ {"owner"}
         /\ role = "partner" => giver \in Controllers
  BY DEF Assignable, Roles, Controllers

LEMMA OfferedRoles == ASSUME NEW role \in Offered PROVE role \in Roles \ {"owner"}
  BY OfferedAssumption

\* Writing one membership never adds an Owner unless the row was the Owner's already.
LEMMA OneRowChanges ==
  ASSUME TypeOK, AtMostOneOwner, NEW u \in Users, NEW r \in Member,
         r.role = "owner" => member[u].role = "owner",
         member' = [member EXCEPT ![u] = r]
  PROVE  AtMostOneOwner' /\ member' \in [Users -> Member]
<1>1. member' \in [Users -> Member]
  BY DEF TypeOK
<1>2. \A v \in Users : member'[v] = IF v = u THEN r ELSE member[v]
  BY DEF TypeOK
<1>. QED
  BY <1>1, <1>2 DEF AtMostOneOwner

LEMMA ApplyTyped ==
  ASSUME business \in Business, NEW c \in Actions, Apply(c)
  PROVE  /\ business' \in Business
         /\ business'.status # "none"
  BY DEF Business, Apply, Actions

LEMMA InitHolds == Init => Inv
<1>. SUFFICES ASSUME Init PROVE Inv
  OBVIOUS
<1>1. TypeOK
  BY DEF Init, TypeOK, Business, Member, Invitation, Requests, Control, NoMember,
         NoInvitation, NoControl
<1>. QED
  BY <1>1 DEF Init, Inv, AtMostOneOwner, NoMember, NoInvitation, NoControl

\* Joining, leaving and invitations.
LEMMA UserStepKeeps ==
  ASSUME Inv, NEW u \in Users, UserStep(u)
  PROVE  Inv'
<1>. USE DEF Inv
<1>1. CASE AcceptInvitation(u)
  <2>. DEFINE r == [role |-> invitation[u].role, status |-> "active"]
  <2>1. r \in Member /\ r.role # "owner"
    BY DEF TypeOK, Invitation, Member
  <2>2. member' = [member EXCEPT ![u] = r]
    BY <1>1 DEF AcceptInvitation
  <2>3. AtMostOneOwner' /\ member' \in [Users -> Member]
    BY <2>1, <2>2, OneRowChanges
  <2>4. business'.status # "none"
    BY <1>1 DEF AcceptInvitation
  <2>5. /\ invitation' \in [Users -> Invitation]
        /\ \A v \in Users : invitation'[v].role # "owner"
    BY <1>1 DEF AcceptInvitation, TypeOK, NoInvitation, Invitation
  <2>. QED
    BY <1>1, <2>3, <2>4, <2>5 DEF AcceptInvitation, TypeOK, Requests
<1>2. CASE DeclineInvitation(u)
  <2>1. /\ invitation' \in [Users -> Invitation]
        /\ \A v \in Users : invitation'[v].role # "owner" /\ (invitation'[v].pending => invitation[v].pending)
    BY <1>2 DEF DeclineInvitation, TypeOK, NoInvitation, Invitation
  <2>. QED
    BY <1>2, <2>1 DEF DeclineInvitation, TypeOK, AtMostOneOwner
<1>3. CASE RequestAccess(u)
  BY <1>3 DEF RequestAccess, TypeOK, AtMostOneOwner, Requests
<1>4. ASSUME NEW kind \in Kinds, CreateBusiness(u, kind)
      PROVE  Inv'
  <2>1. kind \in {"team", "personal"}
    BY KindsAssumption
  <2>2. business' \in Business /\ business'.status # "none"
    BY <1>4, <2>1 DEF CreateBusiness, TypeOK, Business
  <2>3. \A v \in Users : member[v].role = "none"
    BY <1>4 DEF CreateBusiness, NoMember
  <2>4. /\ member' \in [Users -> Member]
        /\ \A v \in Users : v # u => member'[v] = member[v]
    BY <1>4 DEF CreateBusiness, TypeOK, Member, Roles, Controllers
  <2>. QED
    BY <1>4, <2>2, <2>3, <2>4 DEF CreateBusiness, TypeOK, AtMostOneOwner
<1>5. ASSUME NEW kind \in Kinds, ChangeKind(u, kind)
      PROVE  Inv'
  <2>1. kind \in {"team", "personal"}
    BY KindsAssumption
  <2>2. business' \in Business /\ business'.status = business.status
    BY <1>5, <2>1 DEF ChangeKind, TypeOK, Business
  <2>. QED
    BY <1>5, <2>2 DEF ChangeKind, TypeOK, AtMostOneOwner
<1>. QED
  BY <1>1, <1>2, <1>3, <1>4, <1>5 DEF UserStep

\* What members do to each other.
LEMMA JoinsKeeps ==
  ASSUME Inv, NEW a \in Users, NEW u \in Users, Joins(a, u)
  PROVE  Inv'
<1>. USE DEF Inv
<1>1. ASSUME NEW role \in Offered, Invite(a, u, role)
      PROVE  Inv'
  <2>1. role \in Roles \ {"owner"}
    BY OfferedRoles
  <2>2. /\ invitation' \in [Users -> Invitation]
        /\ \A v \in Users : invitation'[v].role # "owner"
    BY <1>1, <2>1 DEF Invite, TypeOK, Invitation
  <2>. QED
    BY <1>1, <2>2 DEF Invite, May, TypeOK, AtMostOneOwner
<1>2. ASSUME NEW role \in Offered, ApproveAccess(a, u, role)
      PROVE  Inv'
  <2>. DEFINE r == [role |-> role, status |-> "active"]
  <2>1. r \in Member /\ r.role # "owner"
    BY OfferedRoles DEF Member
  <2>2. AtMostOneOwner' /\ member' \in [Users -> Member]
    BY <1>2, <2>1, OneRowChanges DEF ApproveAccess
  <2>. QED
    BY <1>2, <2>2 DEF ApproveAccess, May, TypeOK, Requests
<1>3. CASE CancelInvitation(a, u)
  <2>1. /\ invitation' \in [Users -> Invitation]
        /\ \A v \in Users : invitation'[v].role # "owner"
    BY <1>3 DEF CancelInvitation, TypeOK, Invitation, NoInvitation
  <2>. QED
    BY <1>3, <2>1 DEF CancelInvitation, May, TypeOK, AtMostOneOwner
<1>4. CASE RejectAccess(a, u)
  BY <1>4 DEF RejectAccess, TypeOK, AtMostOneOwner, Requests
<1>5. CASE TransferOwnership(a, u)
  <2>1. member[a].role = "owner" /\ a # u /\ business'.status # "none"
    BY <1>5 DEF TransferOwnership, May
  <2>2. /\ member' \in [Users -> Member]
        /\ member'[a].role = "partner"
        /\ \A v \in Users : v \notin {a, u} => member'[v] = member[v]
    BY <1>5, <2>1 DEF TransferOwnership, TypeOK, Member, Roles, Controllers
  <2>3. \A v \in Users : member'[v].role = "owner" => v = u
    BY <2>1, <2>2 DEF AtMostOneOwner
  <2>. QED
    BY <1>5, <2>1, <2>2, <2>3 DEF TransferOwnership, TypeOK, AtMostOneOwner
<1>6. ASSUME NEW role \in Offered \union {"kept"},
             NEW status \in {"active", "suspended", "removed", "kept"},
             UpdateMembership(a, u, role, status)
      PROVE  Inv'
  <2>. DEFINE r == [role |-> IF role = "kept" THEN member[u].role ELSE role,
                    status |-> IF status = "kept" THEN member[u].status ELSE status]
  <2>1. role # "kept" => role \in Roles \ {"owner"}
    BY OfferedRoles
  <2>2. r \in Member /\ r.role # "owner"
    BY <1>6, <2>1 DEF UpdateMembership, TypeOK, Member
  <2>3. AtMostOneOwner' /\ member' \in [Users -> Member]
    BY <1>6, <2>2, OneRowChanges DEF UpdateMembership
  <2>. QED
    BY <1>6, <2>3 DEF UpdateMembership, May, TypeOK, Requests
<1>. QED
  BY <1>1, <1>2, <1>3, <1>4, <1>5, <1>6 DEF Joins

LEMMA ControlStepKeeps ==
  ASSUME Inv, NEW a \in Users, NEW c \in Controls, ControlStep(a, c)
  PROVE  Inv'
<1>. USE DEF Inv
<1>1. c \in Actions
  BY ControlsAssumption
<1>2. IsController(a)
  BY DEF ControlStep, ControlAlone, RequestControl, AsksControl, ApproveControl,
         RejectControl, Decides
<1>3. business.status # "none"
  BY <1>2 DEF IsController, Active, NoMember
<1>4. CASE ControlAlone(a, c)
  <2>1. business' \in Business /\ business'.status # "none"
    BY <1>1, <1>4, ApplyTyped DEF ControlAlone, TypeOK
  <2>. QED
    BY <1>4, <2>1 DEF ControlAlone, AsksControl, TypeOK, AtMostOneOwner
<1>5. CASE RequestControl(a, c)
  <2>1. /\ control' \in [Actions -> Control]
        /\ \A d \in Actions : control'[d].pending => control'[d].by \in Users
    BY <1>1, <1>5 DEF RequestControl, TypeOK, Control
  <2>. QED
    BY <1>3, <1>5, <2>1 DEF RequestControl, AsksControl, TypeOK, AtMostOneOwner
<1>6. ASSUME control' = [control EXCEPT ![c] = NoControl]
      PROVE  /\ control' \in [Actions -> Control]
             /\ \A d \in Actions : control'[d].pending => control'[d].by \in Users
  BY <1>1, <1>6 DEF TypeOK, Control, NoControl
<1>7. CASE ApproveControl(a, c)
  <2>1. business' \in Business /\ business'.status # "none"
    BY <1>1, <1>7, ApplyTyped DEF ApproveControl, TypeOK
  <2>. QED
    BY <1>6, <1>7, <2>1 DEF ApproveControl, TypeOK, AtMostOneOwner
<1>8. CASE RejectControl(a, c)
  BY <1>6, <1>8 DEF RejectControl, TypeOK, AtMostOneOwner
<1>. QED
  BY <1>4, <1>5, <1>7, <1>8 DEF ControlStep

\* The finalizer and the clock.
LEMMA BackgroundKeeps ==
  ASSUME Inv, FinalizeDeletion \/ Clock
  PROVE  Inv'
<1>. USE DEF Inv
<1>1. CASE FinalizeDeletion
  <2>1. business' \in Business /\ business'.status # "none"
    BY <1>1 DEF FinalizeDeletion, TypeOK, Business
  <2>2. \A v \in Users : member'[v].role = member[v].role /\ member'[v] \in Member
    BY <1>1 DEF FinalizeDeletion, TypeOK, Member
  <2>3. member' \in [Users -> Member]
    BY <1>1, <2>2 DEF FinalizeDeletion
  <2>. QED
    BY <1>1, <2>1, <2>2, <2>3 DEF FinalizeDeletion, TypeOK, AtMostOneOwner
<1>2. ASSUME NEW u \in Users, InvitationExpires(u)
      PROVE  Inv'
  <2>1. /\ invitation' \in [Users -> Invitation]
        /\ \A v \in Users : /\ invitation'[v].role = invitation[v].role
                            /\ invitation'[v].pending = invitation[v].pending
    BY <1>2 DEF InvitationExpires, TypeOK, Invitation
  <2>. QED
    BY <1>2, <2>1 DEF InvitationExpires, TypeOK, AtMostOneOwner
<1>3. ASSUME NEW u \in Users, RetryElapses(u)
      PROVE  Inv'
  BY <1>3 DEF RetryElapses, TypeOK, AtMostOneOwner, Requests
<1>4. ASSUME NEW c \in Actions, ControlExpires(c)
      PROVE  Inv'
  <2>1. /\ control' \in [Actions -> Control]
        /\ \A d \in Actions : /\ control'[d].by = control[d].by
                              /\ control'[d].pending = control[d].pending
    BY <1>4 DEF ControlExpires, TypeOK, Control
  <2>. QED
    BY <1>4, <2>1 DEF ControlExpires, TypeOK, AtMostOneOwner
<1>5. CASE WindowPasses
  <2>1. business' \in Business /\ business'.status = business.status
    BY <1>5 DEF WindowPasses, TypeOK, Business
  <2>. QED
    BY <1>5, <2>1 DEF WindowPasses, TypeOK, AtMostOneOwner
<1>. QED
  BY <1>1, <1>2, <1>3, <1>4, <1>5 DEF Clock

LEMMA NextKeeps == Inv /\ [Next]_vars => Inv'
<1>. SUFFICES ASSUME Inv, [Next]_vars PROVE Inv'
  OBVIOUS
<1>1. CASE UNCHANGED vars
  BY <1>1 DEF vars, Inv, TypeOK, AtMostOneOwner
<1>. QED
  BY <1>1, UserStepKeeps, JoinsKeeps, ControlStepKeeps, BackgroundKeeps DEF Next

LEMMA Invariance == SafetySpec => []Inv
  BY InitHolds, NextKeeps, PTL DEF SafetySpec

\* Every row of a Business stays within its type, whatever its users do.
THEOREM GovernanceTyped == SafetySpec => []TypeOK
<1>1. Inv => TypeOK
  BY DEF Inv
<1>. QED
  BY <1>1, Invariance, PTL

\* However ownership is handed over, invitations are accepted late and members return, no
\* second membership ever carries the Owner role: the partial unique constraint of the table
\* is never what prevents it.
THEOREM OneOwnerAtMost == SafetySpec => []AtMostOneOwner
<1>1. Inv => AtMostOneOwner
  BY DEF Inv
<1>. QED
  BY <1>1, Invariance, PTL

\* A step of the controls that changes the state of the Business is the sole Owner's, or an
\* approval of what another user asked for.
LEMMA ControlIndependent ==
  ASSUME Inv, NEW a \in Users, NEW c \in Controls, ControlStep(a, c),
         business'.status # business.status
  PROVE  /\ actor' = a
         /\ IsController(a)
         /\ \/ member[a].role = "owner" /\ ~OtherController(a)
            \/ \E d \in Actions : /\ control[d].pending /\ control'[d] = NoControl
                                  /\ control[d].by \in Users \ {a}
<1>1. c \in Actions
  BY ControlsAssumption
<1>2. CASE ControlAlone(a, c)
  BY <1>2 DEF ControlAlone, AsksControl
<1>3. CASE ApproveControl(a, c)
  <2>1. control'[c] = NoControl
    BY <1>1, <1>3 DEF ApproveControl, Inv, TypeOK
  <2>2. control[c].pending /\ control[c].by \in Users \ {a}
    BY <1>1, <1>3 DEF ApproveControl, Decides, Inv
  <2>. QED
    BY <1>1, <1>3, <2>1, <2>2 DEF ApproveControl, Decides
<1>. QED
  BY <1>2, <1>3 DEF ControlStep, RequestControl, RejectControl

LEMMA StepIndependent ==
  Inv /\ [Next]_vars =>
    ((business.status # "none" /\ business'.status # business.status) =>
       \E a \in Users :
         /\ actor' = a
         /\ IsController(a)
         /\ \/ member[a].role = "owner" /\ ~OtherController(a)
            \/ \E c \in Actions : /\ control[c].pending /\ control'[c] = NoControl
                                  /\ control[c].by \in Users \ {a})
<1>. SUFFICES ASSUME Inv, [Next]_vars,
                     business.status # "none", business'.status # business.status
              PROVE  \E a \in Users :
                       /\ actor' = a
                       /\ IsController(a)
                       /\ \/ member[a].role = "owner" /\ ~OtherController(a)
                          \/ \E c \in Actions : /\ control[c].pending /\ control'[c] = NoControl
                                                /\ control[c].by \in Users \ {a}
  OBVIOUS
<1>1. business \in Business
  BY DEF Inv, TypeOK
<1>2. ASSUME NEW u \in Users, UserStep(u)
      PROVE  FALSE
  BY <1>1, <1>2 DEF UserStep, AcceptInvitation, DeclineInvitation, RequestAccess,
         CreateBusiness, ChangeKind, Business
<1>3. ASSUME NEW a \in Users, NEW u \in Users, Joins(a, u)
      PROVE  FALSE
  BY <1>3 DEF Joins, Invite, ApproveAccess, CancelInvitation, RejectAccess,
         TransferOwnership, UpdateMembership
<1>4. ~FinalizeDeletion
  BY <1>1 DEF FinalizeDeletion, Business
<1>5. ~Clock
  BY <1>1 DEF Clock, InvitationExpires, RetryElapses, ControlExpires, WindowPasses, Business
<1>6. business' # business
  OBVIOUS
<1>7. PICK a \in Users, c \in Controls : ControlStep(a, c)
  BY <1>2, <1>3, <1>4, <1>5, <1>6 DEF Next, vars
<1>. QED
  BY <1>7, ControlIndependent

\* With any number of controllers, whatever happens to memberships, ownership and the request
\* in between, one controller alone never changes the state of a Business that has another.
THEOREM ControlsAreIndependent == SafetySpec => IndependentApproval
  BY Invariance, StepIndependent, PTL DEF SafetySpec, IndependentApproval

\* What a single step may do to who is a controller and who is invited to be one.
Appointed(u) ==
  /\ (IsController(u)' /\ ~IsController(u)) =>
       \/ \E a \in Users \ {u} : actor' = a /\ IsController(a)
       \/ actor' = u /\ invitation[u].pending /\ invitation[u].role = "partner"
  /\ (invitation'[u] # invitation[u] /\ invitation'[u].role = "partner"
        /\ ~invitation'[u].expired) =>
       \E a \in Users : actor' = a /\ IsController(a)

LEMMA UserStepAppoints ==
  ASSUME Inv, business.status # "none", NEW w \in Users, UserStep(w), NEW u \in Users
  PROVE  Appointed(u)
<1>. USE DEF Inv
<1>1. CASE AcceptInvitation(w)
  <2>1. \A v \in Users : v # w => member'[v] = member[v]
    BY <1>1 DEF AcceptInvitation, TypeOK
  <2>2. member'[w].role = invitation[w].role
    BY <1>1 DEF AcceptInvitation, TypeOK
  <2>3. invitation'[u] = invitation[u] \/ invitation'[u].role = "none"
    BY <1>1 DEF AcceptInvitation, TypeOK, NoInvitation
  <2>. QED
    BY <1>1, <2>1, <2>2, <2>3 DEF AcceptInvitation, Appointed, IsController, Active, Controllers
<1>2. CASE DeclineInvitation(w)
  <2>1. invitation'[u] = invitation[u] \/ invitation'[u].role = "none"
    BY <1>2 DEF DeclineInvitation, TypeOK, NoInvitation
  <2>. QED
    BY <1>2, <2>1 DEF DeclineInvitation, Appointed, IsController, Active
<1>3. CASE RequestAccess(w)
  BY <1>3 DEF RequestAccess, Appointed, IsController, Active
<1>4. ASSUME NEW kind \in Kinds, CreateBusiness(w, kind) \/ ChangeKind(w, kind)
      PROVE  Appointed(u)
  BY <1>4 DEF CreateBusiness, ChangeKind, Appointed, IsController, Active
<1>. QED
  BY <1>1, <1>2, <1>3, <1>4 DEF UserStep

LEMMA JoinsAppoints ==
  ASSUME Inv, NEW a \in Users, NEW w \in Users, Joins(a, w), NEW u \in Users
  PROVE  Appointed(u)
<1>. USE DEF Inv
<1>0. member[a].role \in Roles \union {"none"}
  BY DEF TypeOK, Member
<1>1. ASSUME NEW role \in Offered, Invite(a, w, role)
      PROVE  Appointed(u)
  <2>1. role = "partner" => IsController(a)
    BY <1>0, <1>1, AssignableFacts DEF Invite, May, IsController
  <2>2. invitation'[u] = invitation[u] \/ invitation'[u].role = role
    BY <1>1 DEF Invite, TypeOK
  <2>. QED
    BY <1>1, <2>1, <2>2 DEF Invite, Appointed, IsController, Active
<1>2. ASSUME NEW role \in Offered, ApproveAccess(a, w, role)
      PROVE  Appointed(u)
  <2>1. role \in Controllers => IsController(a)
    BY <1>0, <1>2, AssignableFacts DEF ApproveAccess, May, IsController, Controllers
  <2>2. member'[u] = member[u] \/ member'[u].role = role
    BY <1>2 DEF ApproveAccess, TypeOK
  <2>. QED
    BY <1>2, <2>1, <2>2 DEF ApproveAccess, Appointed, IsController, Active
<1>3. CASE CancelInvitation(a, w)
  <2>1. invitation'[u] = invitation[u] \/ invitation'[u].role = "none"
    BY <1>3 DEF CancelInvitation, TypeOK, NoInvitation
  <2>. QED
    BY <1>3, <2>1 DEF CancelInvitation, Appointed, IsController, Active
<1>4. CASE RejectAccess(a, w)
  BY <1>4 DEF RejectAccess, Appointed, IsController, Active
<1>5. CASE TransferOwnership(a, w)
  <2>1. IsController(a) /\ IsController(w)
    BY <1>5 DEF TransferOwnership, May, IsController, Active, Controllers
  <2>2. u \notin {a, w} => member'[u] = member[u]
    BY <1>5 DEF TransferOwnership, TypeOK
  <2>. QED
    BY <1>5, <2>1, <2>2 DEF TransferOwnership, Appointed, IsController, Active
<1>6. ASSUME NEW role \in Offered \union {"kept"},
             NEW status \in {"active", "suspended", "removed", "kept"},
             UpdateMembership(a, w, role, status)
      PROVE  Appointed(u)
  <2>1. u # w => member'[u] = member[u]
    BY <1>6 DEF UpdateMembership, TypeOK
  <2>2. member'[w].role \in Controllers => IsController(a)
    <3>1. CASE role = "kept"
      <4>1. member'[w].role = member[w].role
        BY <1>6, <3>1 DEF UpdateMembership, TypeOK
      <4>. QED
        BY <1>6, <4>1 DEF UpdateMembership, May, IsController, Controllers
    <3>2. CASE role # "kept"
      <4>1. member'[w].role = role
        BY <1>6, <3>2 DEF UpdateMembership, TypeOK
      <4>. QED
        BY <1>0, <1>6, <3>2, <4>1, AssignableFacts
        DEF UpdateMembership, May, IsController, Controllers
    <3>. QED
      BY <3>1, <3>2
  <2>. QED
    BY <1>6, <2>1, <2>2 DEF UpdateMembership, Appointed, IsController, Active
<1>. QED
  BY <1>1, <1>2, <1>3, <1>4, <1>5, <1>6 DEF Joins

LEMMA OtherStepsAppoint ==
  ASSUME Inv, NEW u \in Users,
         \/ UNCHANGED vars
         \/ \E a \in Users, c \in Controls : ControlStep(a, c)
         \/ FinalizeDeletion
         \/ Clock
  PROVE  Appointed(u)
<1>1. CASE UNCHANGED vars
  BY <1>1 DEF vars, Appointed, IsController, Active
<1>2. ASSUME NEW a \in Users, NEW c \in Controls, ControlStep(a, c)
      PROVE  Appointed(u)
  BY <1>2 DEF ControlStep, ControlAlone, RequestControl, AsksControl, ApproveControl,
         RejectControl, Appointed, IsController, Active
<1>3. CASE FinalizeDeletion
  BY <1>3 DEF Inv, TypeOK, FinalizeDeletion, NoMember, Appointed, IsController, Active
<1>4. ASSUME NEW w \in Users, InvitationExpires(w)
      PROVE  Appointed(u)
  <2>1. invitation'[u] = invitation[u] \/ invitation'[u].expired
    BY <1>4 DEF InvitationExpires, Inv, TypeOK, Invitation
  <2>. QED
    BY <1>4, <2>1 DEF InvitationExpires, Appointed, IsController, Active
<1>5. ASSUME NEW w \in Users, RetryElapses(w)
      PROVE  Appointed(u)
  BY <1>5 DEF RetryElapses, Appointed, IsController, Active
<1>6. ASSUME NEW c \in Actions, ControlExpires(c)
      PROVE  Appointed(u)
  BY <1>6 DEF ControlExpires, Appointed, IsController, Active
<1>7. CASE WindowPasses
  BY <1>7 DEF WindowPasses, Appointed, IsController, Active
<1>. QED
  BY <1>1, <1>2, <1>3, <1>4, <1>5, <1>6, <1>7 DEF Clock

LEMMA StepAppoints ==
  Inv /\ [Next]_vars => \A u \in Users : business.status # "none" => Appointed(u)
  BY UserStepAppoints, JoinsAppoints, OtherStepsAppoint DEF Next

\* Nobody makes himself a controller, and no Administrator or Manager makes one, for any
\* number of users and any history of invitations, requests, removals and transfers.
THEOREM ControllersOnlyByControllers == SafetySpec => ControllersAreAppointed
<1>1. Inv /\ [Next]_vars =>
        \A u \in Users : business.status # "none" =>
          /\ (IsController(u)' /\ ~IsController(u)) =>
               \/ \E a \in Users \ {u} : actor' = a /\ IsController(a)
               \/ actor' = u /\ invitation[u].pending /\ invitation[u].role = "partner"
          /\ (invitation'[u] # invitation[u] /\ invitation'[u].role = "partner"
                /\ ~invitation'[u].expired) =>
               \E a \in Users : actor' = a /\ IsController(a)
  BY StepAppoints DEF Appointed
<1>. QED
  BY Invariance, <1>1, PTL DEF SafetySpec, ControllersAreAppointed
=============================================================================
