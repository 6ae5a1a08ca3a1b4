----------------------------- MODULE PageRuntime -----------------------------
(***************************************************************************)
(* What every page of the frontend runs on: React state and requests.      *)
(*                                                                         *)
(* One page is mounted.  `ui` holds its useState values (each page module  *)
(* names its own fields), `calls` its requests under way.  A request is    *)
(* served or refused by the backend, or it fails on the network before or  *)
(* AFTER the backend served it: the page sees the same error for all but   *)
(* the first.  Handlers and continuations are atomic (one JavaScript       *)
(* thread) and interleave with everything else at each await.              *)
(*                                                                         *)
(* `ui.draft` numbers what the user means to send: it moves on whenever a  *)
(* form is reset.  `store` counts, for each draft, how often the backend   *)
(* executed it and how many of those answers never arrived; `rows` is what *)
(* the backend holds besides, where a page reads it back.                  *)
(*                                                                         *)
(* Bounds: MaxCalls requests under way, MaxDraft drafts.                   *)
(***************************************************************************)
EXTENDS Integers, Sequences

CONSTANTS None, MaxCalls, MaxDraft, MaxLost

ASSUME RuntimeAssumption ==
    /\ MaxCalls \in Nat \ {0} /\ MaxDraft \in Nat \ {0} /\ MaxLost \in Nat
    /\ None \notin Nat

VARIABLES page, ui, calls, store

vars == <<page, ui, calls, store>>

Slots  == 1..MaxCalls
Drafts == 1..MaxDraft

(* A request; `arg` is what its continuation or the backend makes use of.    *)
(* Of the operations only "save" writes the draft.  The others ("load", a    *)
(* deletion, ...) may be repeated without harm, and nothing is known of when *)
(* they were served but that it was before they end.                         *)
Call(op, draft, arg) == [op |-> op, draft |-> draft, arg |-> arg, state |-> "sent"]

NoCalls  == [s \in Slots |-> None]
Mounted  == [NoCalls EXCEPT ![1] = Call("load", 0, None)]
NoWrites == [done |-> [d \in Drafts |-> 0], lost |-> [d \in Drafts |-> 0], rows |-> None]

(* A reset form holds a new draft; beyond the bound it cannot be sent. *)
Following(d) == IF d \in Drafts THEN d + 1 ELSE d

InUse(s, op) == calls[s] # None /\ calls[s].op = op
UnderWay(op) == \E s \in Slots : InUse(s, op)
Idling       == \A s \in Slots : calls[s] = None
Free(s)      == calls[s] = None /\ \A r \in 1..(s - 1) : calls[r] # None
Saves(s, state) == InUse(s, "save") /\ calls[s].state = state

Start(s, op, draft, arg) == calls' = [calls EXCEPT ![s] = Call(op, draft, arg)]
Finish(s) == calls' = [calls EXCEPT ![s] = None]

(* A handler that sends a request takes a free slot. *)
Sends(op, draft, arg) == \E s \in Slots : Free(s) /\ Start(s, op, draft, arg)

(* A handler that only changes state. *)
Sets(next) == ui' = next /\ UNCHANGED <<page, calls, store>>

-----------------------------------------------------------------------------
(* The backend and the network, for a request that writes. *)

Executed(d) == [store.done EXCEPT ![d] = @ + 1]

Serve(s) ==
    /\ Saves(s, "sent")
    /\ calls' = [calls EXCEPT ![s].state = "ok"]
    /\ store' = [store EXCEPT !.done = Executed(calls[s].draft)]
    /\ UNCHANGED <<page, ui>>

(* Refused by the backend, or lost on the way there. *)
Refuse(s) ==
    /\ Saves(s, "sent")
    /\ calls' = [calls EXCEPT ![s].state = "error"]
    /\ UNCHANGED <<page, ui, store>>

(* Served, and the answer lost or unreadable: requestApi throws. *)
Lose(s) ==
    /\ Saves(s, "sent")
    /\ store.lost[calls[s].draft] < MaxLost
    /\ calls' = [calls EXCEPT ![s].state = "error"]
    /\ store' = [store EXCEPT !.done = Executed(calls[s].draft), !.lost[calls[s].draft] = @ + 1]
    /\ UNCHANGED <<page, ui>>

Settle(s) == Serve(s) \/ Refuse(s) \/ Lose(s)

-----------------------------------------------------------------------------
(* A save that ends well or badly, with what the handler does then. *)

Saved(s, next)    == Saves(s, "ok") /\ ui' = next /\ UNCHANGED <<page, store>>
NotSaved(s, next) == Saves(s, "error") /\ ui' = next /\ Finish(s) /\ UNCHANGED <<page, store>>

(* Any other request that ends, with an answer or with an error. *)
Ends(s, op, next) == InUse(s, op) /\ ui' = next /\ Finish(s) /\ UNCHANGED <<page, store>>

(* The effect around a page's load runs again when the access token changes: *)
(* its cleanup aborts the load it started, and a new one is sent.            *)
Reloads ==
    /\ \E s \in Slots : /\ InUse(s, "load") \/ (Free(s) /\ ~UnderWay("load"))
                        /\ Start(s, "load", 0, None)
    /\ UNCHANGED <<page, ui, store>>
=============================================================================
