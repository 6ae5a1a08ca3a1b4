----------------------------- MODULE CatalogPage -----------------------------
(***************************************************************************)
(* The available items: the catalog as two lists, the products with stock  *)
(* and the empty ones, the correction of a product and the archiving of an *)
(* empty one.                                                              *)
(*                                                                         *)
(* `stocked` are the products the last reading found stock of; two stand   *)
(* for the catalog.  The correction is complete when a name and a unit are *)
(* typed.                                                                  *)
(***************************************************************************)
EXTENDS PageRuntime

CatalogRows == {"shirt", "shoe"}

(* The loads of this page are not aborted: none is under way at first. *)
CatalogUi == [stocked |-> CatalogRows, archived |-> {}, editing |-> None, complete |-> FALSE,
              showEmpty |-> FALSE, draft |-> 1, busy |-> FALSE, saved |-> None]

CatalogInit == page = "catalog" /\ ui = CatalogUi /\ calls = Mounted /\ store = NoWrites

Empty == CatalogRows \ (ui.stocked \cup ui.archived)

(* The effect only cancels a load that has not begun. *)
ReloadCatalog == Sends("load", 0, None) /\ UNCHANGED <<page, ui, store>>

(* Sales, receipts and returns elsewhere fill and empty the shelves. *)
CatalogLoaded(s) ==
    \E stocked \in SUBSET (CatalogRows \ ui.archived) :
        \/ Ends(s, "load", [ui EXCEPT !.stocked = stocked])
        \/ Ends(s, "reload", [ui EXCEPT !.stocked = stocked, !.busy = FALSE])

ReviewEmptyItems == Empty # {} /\ Sets([ui EXCEPT !.showEmpty = ~@])

-----------------------------------------------------------------------------
(* Correcting a product. *)

OpenEdit(p) ==
    /\ p \in ui.stocked
    /\ Sets([ui EXCEPT !.editing = p, !.complete = TRUE, !.draft = Following(@)])

ClosedEdit == [ui EXCEPT !.editing = None, !.complete = FALSE]

CloseEdit == ui.editing # None /\ Sets(ClosedEdit)

TypeCorrection(complete) == ui.editing # None /\ Sets([ui EXCEPT !.complete = complete])

SaveProduct ==
    /\ ui.editing # None /\ ui.complete /\ ~ui.busy /\ ui.draft \in Drafts
    /\ Sends("save", ui.draft, None)
    /\ ui' = [ui EXCEPT !.busy = TRUE]
    /\ UNCHANGED <<page, store>>

(* Closes whichever product is being corrected by now. *)
ProductSaved(s) == Saved(s, ClosedEdit) /\ Start(s, "reload", 0, None)

ProductNotSaved(s) == NotSaved(s, [ui EXCEPT !.busy = FALSE])

-----------------------------------------------------------------------------
(* Archiving an empty product; the backend refuses one that has stock. *)

ArchiveEmptyProduct(p) ==
    /\ ui.showEmpty /\ p \in Empty /\ ~ui.busy
    /\ Sends("archive", 0, p)
    /\ ui' = [ui EXCEPT !.busy = TRUE]
    /\ UNCHANGED <<page, store>>

(* An answer closes the correction only of the product that was archived. *)
ProductArchived(s) ==
    \/ /\ InUse(s, "archive")
       /\ LET p == calls[s].arg
          IN  ui' = [(IF ui.editing = p THEN ClosedEdit ELSE ui)
                       EXCEPT !.archived = @ \cup {p}, !.stocked = @ \ {p}]
       /\ Start(s, "reload", 0, None)
       /\ UNCHANGED <<page, store>>
    \/ Ends(s, "archive", [ui EXCEPT !.busy = FALSE])

CatalogUser ==
    \/ ReviewEmptyItems \/ CloseEdit \/ SaveProduct
    \/ \E complete \in BOOLEAN : TypeCorrection(complete)
    \/ \E p \in CatalogRows : OpenEdit(p) \/ ArchiveEmptyProduct(p)

CatalogAnswered(s) ==
    CatalogLoaded(s) \/ ProductSaved(s) \/ ProductNotSaved(s) \/ ProductArchived(s)

CatalogNext ==
    /\ page = "catalog"
    /\ CatalogUser \/ ReloadCatalog \/ \E s \in Slots : CatalogAnswered(s)
=============================================================================
