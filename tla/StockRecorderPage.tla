-------------------------- MODULE StockRecorderPage --------------------------
(***************************************************************************)
(* The stock recorder: ten screens with a back stack, on which products    *)
(* are chosen or prepared, counted, reviewed and saved as a receipt.      *)
(*                                                                         *)
(* Stocked are the products of the catalog, of which some are grouped into *)
(* families (one stands for all) and some tracked individually; "fresh" is *)
(* the product prepared here.  A line counts `quantity` pieces (0: not a   *)
(* number yet) and the `units` identified so far.  Folding the recorder    *)
(* only hides it.                                                          *)
(*                                                                         *)
(* Bounds: MaxQuantity pieces, MaxStack screens to go back to.             *)
(***************************************************************************)
EXTENDS PageRuntime

CONSTANTS Stocked, Grouped, Individual, MaxQuantity, MaxStack

LineRow == [quantity : Nat, units : Nat]

ASSUME StockRecorderAssumption ==
    /\ "fresh" \notin Stocked /\ None \notin Stocked /\ None # "fresh" /\ None \notin LineRow
    /\ Grouped \subseteq Stocked /\ Individual \subseteq Stocked \cup {"fresh"}
    /\ MaxQuantity \in Nat \ {0} /\ MaxStack \in Nat

Choices == Stocked \cup {"fresh"}

(* The screens on which a product is counted, and those within a family. *)
CountingScreens == {"recording", "itemEntry", "afterVariety"}
FamilyScreens   == {"groupVarieties", "newVariety"}
Screens == CountingScreens \cup FamilyScreens
             \cup {"products", "newGroup", "newSimple", "stockDetails", "review"}

EmptyLine == [quantity |-> 1, units |-> 0]

(* fresh: None, or whether the prepared product belongs to a family. *)
Recorder == [screen |-> "products", stack |-> << >>, selected |-> {},
             lines |-> [c \in Choices |-> None], fresh |-> None, current |-> None,
             group |-> FALSE]

StockUi == [form |-> Recorder, active |-> Stocked,
            draft |-> 1, busy |-> FALSE, saved |-> None]

StockInit == page = "stock" /\ ui = StockUi /\ calls = Mounted /\ store = NoWrites

form == ui.form

Available(c) == c \in ui.active \/ (c = "fresh" /\ form.fresh # None)
InFamily(c)  == c \in Grouped \/ (c = "fresh" /\ form.fresh = "grouped")

(* currentChoice and currentLine, without which a counting screen is blank. *)
Counting == form.current # None /\ Available(form.current) /\ form.lines[form.current] # None

Line == form.lines[form.current]

On(screens) == ui.saved = None /\ form.screen \in screens

(* showScreen, which remembers the screen it leaves. *)
Show(next, f) == [f EXCEPT !.screen = next, !.stack = Append(@, f.screen)]
MayPush == Len(form.stack) < MaxStack

(* Beyond the bound on drafts nothing more is filled in. *)
Edit(f) == ui.draft \in Drafts /\ Sets([ui EXCEPT !.form = f])

(* ensureSelected *)
Selected(c, f) == [f EXCEPT !.selected = @ \cup {c},
                            !.lines[c] = IF @ = None THEN EmptyLine ELSE @]

-----------------------------------------------------------------------------
(* Navigation. *)

Back(f) ==
    IF f.stack = << >> THEN [f EXCEPT !.screen = "products"]
    ELSE [f EXCEPT !.screen = f.stack[Len(f.stack)],
                   !.stack = SubSeq(@, 1, Len(@) - 1)]

GoBack == On(Screens \ {"products"}) /\ Edit(Back(form))

Home(f) == [f EXCEPT !.screen = "products", !.stack = << >>]

GoHome == On(Screens) /\ Edit(Home(form))

ShowStockDetails == On(Screens) /\ MayPush /\ Edit(Show("stockDetails", form))

(* Expenses that are no number hold this, the review and saving back. *)
LeaveStockDetails == On({"stockDetails"}) /\ Edit(Back(form))

-----------------------------------------------------------------------------
(* Families and products. *)

OpenGroup ==
    /\ On({"products"}) /\ MayPush
    /\ Edit(Show("groupVarieties", [form EXCEPT !.group = TRUE, !.current = None]))

BeginNewGroup == On({"products"}) /\ MayPush /\ Edit(Show("newGroup", form))

(* A new family leads to its first variety, and from there back to the family. *)
CreateGroup ==
    /\ On({"newGroup"}) /\ MayPush
    /\ Edit([form EXCEPT !.group = TRUE, !.current = None, !.screen = "newVariety",
                         !.stack = Append(@, "groupVarieties")])

BeginNewVariety ==
    /\ On({"groupVarieties"}) /\ form.group /\ MayPush
    /\ Edit(Show("newVariety", form))

(* The details of a variety name another one of the family, which is then   *)
(* taken instead, or a new one, which is prepared.                          *)
CreateVariety ==
    /\ On({"newVariety"}) /\ form.group
    /\ \/ \E c \in Choices :
             /\ Available(c) /\ InFamily(c)
             /\ Edit([Selected(c, form) EXCEPT !.current = c, !.screen = "recording"])
       \/ /\ form.fresh = None
          /\ Edit([Selected("fresh", form) EXCEPT !.fresh = "grouped", !.current = "fresh",
                                                  !.screen = "recording"])

SimpleForm(f) == Show("newSimple", [f EXCEPT !.group = FALSE, !.current = None])

BeginSimpleProduct == On({"products"}) /\ MayPush /\ Edit(SimpleForm(form))

CreateSimpleProduct ==
    /\ On({"newSimple"}) /\ form.fresh = None
    /\ Edit([Selected("fresh", form) EXCEPT !.fresh = "simple", !.current = "fresh",
                                            !.screen = "recording"])

Records(c) == MayPush /\ Edit(Show("recording", [Selected(c, form) EXCEPT !.current = c]))

(* Varieties are offered within their family, other products of the catalog *)
(* at home.                                                                 *)
StartRecording(c) == On({"products"}) /\ c \in ui.active \ Grouped /\ Records(c)

RecordVariety(c) ==
    /\ On({"groupVarieties"}) /\ form.group /\ Available(c) /\ InFamily(c)
    /\ Records(c)

\* Fault: the line stays behind.
DeselectOnly(c) ==
    On({"products"}) /\ c \in form.selected /\ Edit([form EXCEPT !.selected = @ \ {c}])

RemoveSelected(c) ==
    /\ On({"products"}) /\ c \in form.selected
    /\ Edit([form EXCEPT !.selected = @ \ {c}, !.lines[c] = None])

-----------------------------------------------------------------------------
(* Counting. *)

UpdateCurrentLine(q) ==
    /\ On({"recording"}) /\ Counting
    /\ Edit([form EXCEPT !.lines[form.current].quantity = q])

(* Identifiers above the quantity are dropped; missing ones are asked for. *)
ContinueRecording ==
    /\ On({"recording"}) /\ Counting /\ MayPush /\ Line.quantity > 0
    /\ IF form.current \in Individual
       THEN Edit(Show(IF Line.units >= Line.quantity THEN "afterVariety" ELSE "itemEntry",
                      [form EXCEPT !.lines[form.current].units =
                                       IF @ > Line.quantity THEN Line.quantity ELSE @]))
       ELSE Edit(Show("afterVariety", form))

AddItem ==
    /\ On({"itemEntry"}) /\ Counting /\ Line.quantity > 0
    /\ LET more  == Line.units < Line.quantity
           added == [form EXCEPT !.lines[form.current].units = IF more THEN @ + 1 ELSE @]
       IN  IF added.lines[form.current].units >= Line.quantity
           THEN MayPush /\ Edit(Show("afterVariety", added))
           ELSE Edit(added)

RemoveRecordedItem ==
    /\ On({"itemEntry"}) /\ Counting /\ Line.units > 0
    /\ Edit([form EXCEPT !.lines[form.current].units = @ - 1])

AddAnotherVariety ==
    /\ On({"afterVariety"}) /\ Counting /\ MayPush
    /\ IF InFamily(form.current)
       THEN Edit(Show("newVariety", [form EXCEPT !.group = TRUE, !.current = None]))
       ELSE Edit(SimpleForm(form))

FinishGroup ==
    /\ On({"afterVariety"}) /\ Counting
    /\ Edit(Home([form EXCEPT !.current = None]))

-----------------------------------------------------------------------------
(* Reviewing and saving. *)

(* validateLines: only stock that is received needs all its identifiers. *)
LineValid(c, status) ==
    /\ Available(c)
    /\ form.lines[c].quantity > 0
    /\ c \in Individual /\ status = "received" => form.lines[c].units = form.lines[c].quantity

LinesValid(status) ==
    LET counted == {c \in Choices : form.lines[c] # None}
    IN  form.selected # {} /\ counted # {} /\ \A c \in counted : LineValid(c, status)

(* Offered beside every screen, and at home, once something is chosen. *)
ReviewStock ==
    /\ On(Screens) /\ form.selected # {} /\ MayPush
    /\ LinesValid("draft")
    /\ Edit(Show("review", form))

(* What is sent, and received or kept as a draft. *)
Payload(status) == [status |-> status, lines |-> [c \in form.selected |-> form.lines[c]]]

SaveStock(status) ==
    /\ On({"review"}) /\ ~ui.busy /\ ui.draft \in Drafts
    /\ LinesValid(status)
    /\ Sends("save", ui.draft, Payload(status))
    /\ ui' = [ui EXCEPT !.busy = TRUE]
    /\ UNCHANGED <<page, store>>

(* The receipt takes the place of the recorder, whatever it holds by now;   *)
(* busy lasts until catalog and receipts are read again.                    *)
StockSaved(s) == Saved(s, [ui EXCEPT !.saved = calls[s].draft]) /\ Start(s, "reload", 0, None)

StockNotSaved(s) == NotSaved(s, [ui EXCEPT !.busy = FALSE])

(* resetRecorder, for another receipt or a late delivery of an earlier one. *)
ResetRecorder == [ui EXCEPT !.form = Recorder, !.draft = Following(@), !.saved = None]

RecordAnother == ui.saved # None /\ Sets(ResetRecorder)

LateDelivery == Sets(ResetRecorder)

(* Products may have been deactivated, or activated, in the meantime. *)
StockLoaded(s) ==
    \E active \in SUBSET Stocked :
        \/ Ends(s, "load", [ui EXCEPT !.active = active])
        \/ Ends(s, "reload", [ui EXCEPT !.active = active, !.busy = FALSE])

(* What each screen offers, and what the frame around them does. *)
ProductsScreen ==
    \/ OpenGroup \/ BeginNewGroup \/ BeginSimpleProduct
    \/ \E c \in Choices : StartRecording(c) \/ RemoveSelected(c)

NewGroupScreen == CreateGroup

GroupVarietiesScreen == BeginNewVariety \/ \E c \in Choices : RecordVariety(c)

NewVarietyScreen == CreateVariety

NewSimpleScreen == CreateSimpleProduct

RecordingScreen == ContinueRecording \/ \E q \in 0..MaxQuantity : UpdateCurrentLine(q)

ItemEntryScreen == AddItem \/ RemoveRecordedItem

AfterVarietyScreen == AddAnotherVariety \/ FinishGroup

StockDetailsScreen == LeaveStockDetails

ReviewScreen == \E status \in {"draft", "received"} : SaveStock(status)

RecorderFrame == GoBack \/ GoHome \/ ShowStockDetails \/ ReviewStock \/ RecordAnother \/ LateDelivery

StockUser ==
    \/ ProductsScreen \/ NewGroupScreen \/ GroupVarietiesScreen \/ NewVarietyScreen \/ NewSimpleScreen
    \/ RecordingScreen \/ ItemEntryScreen \/ AfterVarietyScreen \/ StockDetailsScreen \/ ReviewScreen
    \/ RecorderFrame

StockAnswered(s) == StockSaved(s) \/ StockNotSaved(s) \/ StockLoaded(s)

StockNext ==
    /\ page = "stock"
    /\ StockUser \/ Reloads \/ \E s \in Slots : StockAnswered(s)

-----------------------------------------------------------------------------
(* What is listed as chosen is what has a line: buildPayload looks both up, *)
(* and throws on a key the other does not know.                             *)
SelectionMatchesLines ==
    page = "stock" => form.selected = {c \in Choices : form.lines[c] # None}
=============================================================================
