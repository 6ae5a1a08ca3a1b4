----------------------------- MODULE ReceiptsPage -----------------------------
(***************************************************************************)
(* The stock page beside its recorder: the list of receipts, in which a    *)
(* draft can be archived, the control that picks a receipt to correct, and *)
(* the correction.                                                         *)
(*                                                                         *)
(* Two receipts stand for the list: "draft", until it is archived, and     *)
(* "received", whose window of correction may close at any time.  `kept`   *)
(* is whether the backend still has the draft, `listed` whether the list   *)
(* shows it: every write announces a change, on which the list is read     *)
(* again, without regard to a reading that is still under way.             *)
(***************************************************************************)
EXTENDS PageRuntime

ReceiptRows == {"draft", "received"}

ReceiptsUi == [listed |-> FALSE, kept |-> TRUE, open |-> TRUE, expanded |-> {},
               archiving |-> None, menu |-> None, correction |-> FALSE,
               draft |-> 1, busy |-> FALSE, saved |-> None]

ReceiptsInit == page = "receipts" /\ ui = ReceiptsUi /\ calls = Mounted /\ store = NoWrites

(* A reading carries what the backend had when it served it. *)
ReceiptsRead(s) ==
    /\ InUse(s, "load") /\ calls[s].arg = None
    /\ calls' = [calls EXCEPT ![s].arg = ui.kept]
    /\ UNCHANGED <<page, ui, store>>

ReceiptsListed(s) ==
    \/ InUse(s, "load") /\ calls[s].arg # None /\ Ends(s, "load", [ui EXCEPT !.listed = calls[s].arg])
    \/ Ends(s, "load", ui)

ToggleDetails(r) ==
    /\ r = "draft" => ui.listed
    /\ Sets([ui EXCEPT !.expanded = IF r \in @ THEN @ \ {r} ELSE @ \cup {r}])

-----------------------------------------------------------------------------
(* Archiving a draft: the receipt that is being archived is the busy one. *)

ArchiveDraft ==
    /\ ui.listed /\ ui.archiving = None
    /\ Sends("archive", 0, None)
    /\ ui' = [ui EXCEPT !.archiving = "draft"]
    /\ UNCHANGED <<page, store>>

(* The backend archives a draft once, and refuses one it no longer has. *)
DraftArchived(s) ==
    /\ InUse(s, "archive") /\ calls[s].arg = None
    /\ calls' = [calls EXCEPT ![s].arg = ui.kept]
    /\ ui' = [ui EXCEPT !.kept = FALSE]
    /\ UNCHANGED <<page, store>>

(* A success is announced before the receipt stops being busy. *)
ArchiveEnds(s) ==
    /\ InUse(s, "archive")
    /\ ui' = [ui EXCEPT !.archiving = None]
    /\ \/ calls[s].arg = TRUE /\ Start(s, "load", 0, None)
       \/ Finish(s)
    /\ UNCHANGED <<page, store>>

-----------------------------------------------------------------------------
(* The control: pick an action, then a receipt it is open to. *)

ToggleMenu == Sets([ui EXCEPT !.menu = IF @ = None THEN "choose" ELSE None])

(* Escape, the mouse outside, or cancel. *)
CloseMenu == ui.menu # None /\ Sets([ui EXCEPT !.menu = None])

ChooseMode(m) == ui.menu = "choose" /\ Sets([ui EXCEPT !.menu = m])

LeaveMode == ui.menu \in {"correct", "late_delivery"} /\ Sets([ui EXCEPT !.menu = "choose"])

(* A draft is always open to correction, a received receipt for a while;    *)
(* only a received one is delivered late.                                   *)
Offered == {r \in ReceiptRows : /\ r = "draft" => ui.listed /\ ui.menu = "correct"
                                /\ r = "received" /\ ui.menu = "correct" => ui.open}

BeginCorrection == [ui EXCEPT !.menu = None, !.correction = TRUE]

(* A late delivery is the recorder's business. *)
ChooseReceipt(r) ==
    /\ r \in Offered
    /\ \/ ui.menu = "correct" /\ Sets(BeginCorrection)
       \/ ui.menu = "late_delivery" /\ Sets([ui EXCEPT !.menu = None])

CloseWindow == ui.open /\ Sets([ui EXCEPT !.open = FALSE])

-----------------------------------------------------------------------------
(* The correction. *)

CancelCorrection == ui.correction /\ Sets([ui EXCEPT !.correction = FALSE])

SaveCorrection ==
    /\ ui.correction /\ ~ui.busy /\ ui.draft \in Drafts
    /\ Sends("save", ui.draft, None)
    /\ ui' = [ui EXCEPT !.busy = TRUE]
    /\ UNCHANGED <<page, store>>

(* The list reads the receipts again beside the handler, which reads the    *)
(* catalog; without a free slot (the bound) that reading is left out.       *)
ReceiptsChanged(s) ==
    IF \E r \in Slots : Free(r)
    THEN \E r \in Slots : /\ Free(r)
                         /\ calls' = [calls EXCEPT ![s] = Call("reload", 0, None),
                                                   ![r] = Call("load", 0, None)]
    ELSE Start(s, "reload", 0, None)

(* Closes whichever correction is open by now; the catalog and the receipts *)
(* are read again before busy ends.                                         *)
CorrectionSaved(s) ==
    /\ Saved(s, [ui EXCEPT !.correction = FALSE, !.draft = Following(@)])
    /\ ReceiptsChanged(s)

CorrectionNotSaved(s) == NotSaved(s, [ui EXCEPT !.busy = FALSE])

StockReloaded(s) == Ends(s, "reload", [ui EXCEPT !.busy = FALSE])

ReceiptsUser ==
    \/ ArchiveDraft \/ ToggleMenu \/ CloseMenu \/ LeaveMode \/ CancelCorrection \/ SaveCorrection
    \/ \E m \in {"correct", "late_delivery"} : ChooseMode(m)
    \/ \E r \in ReceiptRows : ToggleDetails(r) \/ ChooseReceipt(r)

ReceiptsAnswered(s) ==
    \/ ReceiptsListed(s) \/ ArchiveEnds(s)
    \/ CorrectionSaved(s) \/ CorrectionNotSaved(s) \/ StockReloaded(s)

ReceiptsNext ==
    /\ page = "receipts"
    /\ \/ ReceiptsUser \/ Reloads \/ CloseWindow
       \/ \E s \in Slots : ReceiptsRead(s) \/ DraftArchived(s) \/ ReceiptsAnswered(s)
=============================================================================
