------------------------------- MODULE ShellPage -------------------------------
(***************************************************************************)
(* Where a business lives in the frontend: its workspace, the page of its  *)
(* lifecycle once it is closed, the directory of businesses with the       *)
(* invitations.  Each of these layouts mounts a provider of its own, which *)
(* polls a copy of the businesses; the pages redirect by that copy.        *)
(*                                                                         *)
(* store.rows is the backend's truth: the business as this person has it   *)
(* ("ended": no membership).  "closed" stands for disabled and             *)
(* deletion_pending alike.  Which controls are pending, and whose, is      *)
(* WorkspaceGovernance's matter and left open here.                        *)
(***************************************************************************)
EXTENDS PageRuntime

Statuses == {"active", "closed", "ended"}

(* The provider is mounted anew with the layout: nothing is known, nothing  *)
(* loaded, and what the old one still waits for concerns nobody.            *)
Provider == [status |-> "loading", copy |-> "unknown", loaded |-> FALSE, inFlight |-> None]

ShellUi(route) ==
    [route |-> route, provider |-> Provider,
     draft |-> 1, busy |-> FALSE, saved |-> None]

ShellInit ==
    /\ page = "shell" /\ calls = NoCalls
    /\ \E route \in {"business", "lifecycle", "directory"} : ui = ShellUi(route)
    /\ \E status \in Statuses : store = [NoWrites EXCEPT !.rows = status]

provider == ui.provider
business == store.rows

Layout(route) == IF route = "business" THEN "workspace" ELSE "dashboard"

MountedAt(route) ==
    IF Layout(route) = Layout(ui.route)
    THEN [ui EXCEPT !.route = route, !.busy = FALSE]
    ELSE ShellUi(route)

(* Changes the path; the refreshes of a layout that goes lose their reader, *)
(* a control keeps its continuation.                                        *)
Goes(route, kept) ==
    /\ ui' = MountedAt(route)
    /\ calls' = [s \in Slots |->
                    IF kept[s] = None \/ Layout(route) = Layout(ui.route) THEN kept[s]
                    ELSE IF kept[s].op # "refresh" THEN kept[s]
                    ELSE IF kept[s].arg.control = None THEN None
                    ELSE Call("reload", 0, kept[s].arg.control)]
    /\ UNCHANGED <<page, store>>

Enter(route) == route # ui.route /\ Goes(route, calls)

-----------------------------------------------------------------------------
(* The provider: one refresh at a time for each token, on mount, every ten  *)
(* seconds, on a broadcast, and after every mutation of its own.            *)

RefreshesIn(s, next, control) ==
    LET first == ~next.provider.loaded
    IN  /\ Start(s, "refresh", 0, [first |-> first, copy |-> None, control |-> control])
        /\ ui' = [next EXCEPT !.provider.inFlight = s,
                              !.provider.copy = IF first THEN "unknown" ELSE @,
                              !.provider.status = IF first THEN "loading" ELSE @]

Refreshes(next) == \E s \in Slots : Free(s) /\ RefreshesIn(s, next, None)

Poll == provider.inFlight = None /\ Refreshes(ui) /\ UNCHANGED <<page, store>>

(* Another access token: what was known is dropped and loaded again, while  *)
(* the refresh for the old one goes on.                                     *)
TokenRenewed ==
    /\ Refreshes([ui EXCEPT !.provider = Provider])
    /\ UNCHANGED <<page, store>>

RefreshServed(s) ==
    /\ InUse(s, "refresh") /\ calls[s].arg.copy = None
    /\ calls' = [calls EXCEPT ![s].arg.copy = business]
    /\ UNCHANGED <<page, ui, store>>

\* Fault: a refresh stays the one in flight.
LandedInFlight(s) == [ui EXCEPT !.provider.status = IF calls[s].arg.first THEN "ready" ELSE @]

(* Only the latest one clears refreshInFlight; every one sets the copy, and *)
(* one for an old token makes the provider load anew.                       *)
Landed(s) ==
    [ui EXCEPT !.provider.inFlight = IF @ = s THEN None ELSE @,
               !.provider.status = IF calls[s].arg.first THEN "ready" ELSE @]

(* The control that awaits it, if any, goes on to load the security data. *)
RefreshEnds(s, next) ==
    /\ InUse(s, "refresh") /\ ui' = next
    /\ LET control == calls[s].arg.control
       IN  IF control = None THEN Finish(s) ELSE Start(s, "reload", 0, control)
    /\ UNCHANGED <<page, store>>

Refreshed(s) ==
    /\ InUse(s, "refresh") /\ calls[s].arg.copy # None
    /\ RefreshEnds(s, [Landed(s) EXCEPT !.provider.copy = calls[s].arg.copy,
                                        !.provider.loaded = provider.inFlight = s,
                                        !.provider.status = IF @ = "error" THEN "ready" ELSE @])

(* An error shows only when there is nothing else to show. *)
RefreshFailed(s) ==
    /\ InUse(s, "refresh") /\ calls[s].arg.copy = None
    /\ RefreshEnds(s, [Landed(s) EXCEPT !.provider.status = IF calls[s].arg.first THEN "error" ELSE @])

-----------------------------------------------------------------------------
(* The redirects. *)

(* WorkspaceShell: a closed business leads to its lifecycle, an unknown one *)
(* to the list of workspaces.                                               *)
LeaveWorkspace ==
    /\ ui.route = "business" /\ provider.status = "ready" /\ provider.copy # "active"
    /\ Goes(IF provider.copy = "closed" THEN "lifecycle" ELSE "directory", calls)

(* DashboardBusinessLifecycle *)
LeaveLifecycle ==
    /\ ui.route = "lifecycle" /\ provider.status = "ready" /\ provider.copy # "closed"
    /\ Goes(IF provider.copy = "active" THEN "business" ELSE "directory", calls)

(* Cards of the directory, by what the copy says of the business. *)
OpenBusiness ==
    /\ ui.route = "directory" /\ provider.status = "ready"
    /\ \/ provider.copy = "active" /\ Enter("business")
       \/ provider.copy = "closed" /\ Enter("lifecycle")

OpenDirectory == ui.route # "directory" /\ Enter("directory")

(* The state of the lifecycle, and the workspace under it, are on screen. *)
ShowsLifecycle == ui.route = "lifecycle" /\ provider.copy = "closed" /\ provider.status # "loading"
ShowsControls  == ui.route = "business"

-----------------------------------------------------------------------------
(* Controls, on the lifecycle and on the security page of a business. *)

(* Bound: one control at a time, until its security data are loaded. *)
Controlling == \E s \in Slots : InUse(s, "control") \/ InUse(s, "reload")
                                  \/ (InUse(s, "refresh") /\ calls[s].arg.control # None)

(* The security page offers its buttons again at once, the lifecycle waits. *)
Controls(request) ==
    /\ \/ ShowsLifecycle /\ ~ui.busy /\ ui' = [ui EXCEPT !.busy = TRUE]
       \/ ShowsControls /\ UNCHANGED ui
    /\ ~Controlling
    /\ Sends("control", 0, [request |-> request, outcome |-> None])
    /\ UNCHANGED <<page, store>>

RequestControl == Controls("request")

DecideControl(decision) == Controls(decision)

Requests(s, outcome) == InUse(s, "control") /\ calls[s].arg.outcome = outcome

(* What the backend makes of it: nothing but a new pending control or the   *)
(* end of one, or the business is closed or opened.                         *)
ControlServed(s) ==
    /\ Requests(s, None)
    /\ \/ /\ business # "ended"
          /\ \/ UNCHANGED store
             \/ /\ calls[s].arg.request # "reject"
                /\ store' = [store EXCEPT !.rows = IF @ = "active" THEN "closed" ELSE "active"]
          /\ calls' = [calls EXCEPT ![s].arg.outcome = "done"]
       \/ UNCHANGED store /\ calls' = [calls EXCEPT ![s].arg.outcome = "refused"]
    /\ UNCHANGED <<page, ui>>

(* A refresh is awaited, or one that was already under way, then the        *)
(* security data; how those end is left open.                               *)
ControlAnswered(s) ==
    /\ Requests(s, "done")
    /\ IF provider.inFlight = None THEN RefreshesIn(s, ui, calls[s].arg)
       ELSE Start(s, "reload", 0, calls[s].arg) /\ UNCHANGED ui
    /\ UNCHANGED <<page, store>>

ControlRefused(s) ==
    /\ Requests(s, "refused")
    /\ Ends(s, "control", [ui EXCEPT !.busy = FALSE])

(* The lifecycle then opens the workspace of what was approved, wherever    *)
(* the user has gone in the meantime.                                       *)
ControlReloaded(s) ==
    /\ InUse(s, "reload")
    /\ LET kept == [calls EXCEPT ![s] = None]
       IN  \/ calls[s].arg.request = "approve" /\ ui.busy /\ Goes("business", kept)
           \/ Ends(s, "reload", [ui EXCEPT !.busy = FALSE])

-----------------------------------------------------------------------------
(* Invitations in the directory: one brings an ended membership back. *)

DecideInvitation ==
    /\ ui.route = "directory" /\ business = "ended" /\ provider.status = "ready"
    /\ ~UnderWay("invitation")
    /\ Sends("invitation", 0, None)
    /\ UNCHANGED <<page, ui, store>>

InvitationDecided(s) ==
    /\ InUse(s, "invitation") /\ Finish(s)
    /\ \/ business = "ended" /\ store' = [store EXCEPT !.rows = "active"]
       \/ UNCHANGED store
    /\ UNCHANGED <<page, ui>>

(* The other leaders, and the deadline of a deletion. *)
Elsewhere ==
    \E status \in Statuses \ {business} :
        store' = [store EXCEPT !.rows = status] /\ UNCHANGED <<page, ui, calls>>

ShellUser ==
    \/ OpenBusiness \/ OpenDirectory \/ RequestControl \/ DecideInvitation
    \/ \E decision \in {"approve", "reject"} : DecideControl(decision)

ShellAnswered(s) ==
    \/ RefreshServed(s) \/ Refreshed(s) \/ RefreshFailed(s)
    \/ ControlServed(s) \/ ControlAnswered(s) \/ ControlRefused(s) \/ ControlReloaded(s)
    \/ InvitationDecided(s)

ShellNext ==
    /\ page = "shell"
    /\ \/ ShellUser \/ Poll \/ TokenRenewed \/ LeaveWorkspace \/ LeaveLifecycle \/ Elsewhere
       \/ \E s \in Slots : ShellAnswered(s)

(* The poll is a timer, the redirect an effect of the render; of refreshes  *)
(* sent again and again one is answered in the end.                         *)
ShellFairness ==
    /\ SF_vars(page = "shell" /\ Poll)
    /\ SF_vars(page = "shell" /\ LeaveWorkspace)
    /\ SF_vars(page = "shell" /\ \E s \in Slots : RefreshServed(s))

-----------------------------------------------------------------------------
(* Nobody is left in a workspace that was closed or taken from them: the    *)
(* copy is refreshed whatever else goes on, and the shell leaves by it.     *)
ClosedWorkspacesAreLeft ==
    (page = "shell" /\ ui.route = "business" /\ business # "active")
        ~> (page = "shell" => ui.route # "business" \/ business = "active")
=============================================================================
