------------------------------- MODULE InboxPage -------------------------------
(***************************************************************************)
(* The notifications of an account: a provider that polls one page of the  *)
(* list through the filters chosen in the inbox, and rereads it after every *)
(* change.  Its readings are not sequenced: the last answer wins.          *)
(*                                                                         *)
(* One notification of a business; store.rows is whether the backend has   *)
(* it as read.  The list shows it unless it is filtered out.               *)
(***************************************************************************)
EXTENDS PageRuntime

(* The filters of a reading: the dashboard or workspace the inbox is of, a  *)
(* category, a page, only the unread.  Of two of them one hides what is     *)
(* read.                                                                    *)
Filters == {"all", "unread"}

InboxUi(filter) ==
    [filter |-> filter, polled |-> filter, list |-> None, ofFilter |-> None, loading |-> TRUE,
     failed |-> FALSE, draft |-> 1, busy |-> FALSE, saved |-> None]

InboxInit ==
    /\ page = "inbox" /\ calls = NoCalls
    /\ store = [NoWrites EXCEPT !.rows = FALSE]
    /\ ui = InboxUi("all")

-----------------------------------------------------------------------------
(* Reading. *)

ReadsIn(s) == Start(s, "read", 0, [filter |-> ui.polled, read |-> None])

Reading == [ui EXCEPT !.loading = TRUE, !.failed = FALSE]

\* Fault: read once.
ReadInboxOnce ==
    /\ ui.polled = ui.filter /\ ui.list = None
    /\ \E s \in Slots : Free(s) /\ ReadsIn(s)
    /\ ui' = Reading
    /\ UNCHANGED <<page, store>>

(* Every thirty seconds, whenever the tab is seen again, and at once when   *)
(* the filter has changed: whatever else is under way.                      *)
ReadInbox ==
    /\ ui.polled = ui.filter
    /\ \E s \in Slots : Free(s) /\ ReadsIn(s)
    /\ ui' = Reading
    /\ UNCHANGED <<page, store>>

(* The effect of another filter starts the poll anew. *)
RestartPoll == ui.polled # ui.filter /\ Sets([ui EXCEPT !.polled = ui.filter])

InboxServed(s) ==
    /\ InUse(s, "read") /\ calls[s].arg.read = None
    /\ calls' = [calls EXCEPT ![s].arg.read = store.rows]
    /\ UNCHANGED <<page, ui, store>>

(* What is listed: the notification, as read or not, or nothing. *)
Listed(filter, read) ==
    CASE ~read -> "unread"
      [] read /\ filter = "all" -> "read"
      [] read /\ filter = "unread" -> "nothing"

InboxRead(s) ==
    /\ InUse(s, "read") /\ calls[s].arg.read # None
    /\ Ends(s, "read", [ui EXCEPT !.list = Listed(calls[s].arg.filter, calls[s].arg.read),
                                  !.ofFilter = calls[s].arg.filter, !.loading = FALSE])

(* The list stays as it was. *)
InboxNotRead(s) ==
    /\ InUse(s, "read") /\ calls[s].arg.read = None
    /\ Ends(s, "read", [ui EXCEPT !.failed = TRUE, !.loading = FALSE])

-----------------------------------------------------------------------------
(* The filters and the marks. *)

(* setCategory, setUnreadOnly, setPage, and setContextFilter when an inbox   *)
(* is opened or left.                                                       *)
ChooseFilter(filter) == filter # ui.filter /\ Sets([ui EXCEPT !.filter = filter])

(* One that is listed as read is not marked again. *)
MarkRead == ui.list = "unread" /\ Sends("mark", 0, None) /\ UNCHANGED <<page, ui, store>>

MarkAllRead == ui.list # None /\ Sends("mark", 0, None) /\ UNCHANGED <<page, ui, store>>

(* Done by the backend, and read again with the filter of before. *)
Marked(s) ==
    /\ InUse(s, "mark")
    /\ store' = [store EXCEPT !.rows = TRUE]
    /\ ReadsIn(s) /\ ui' = Reading
    /\ UNCHANGED page

(* Refused, or done and the answer lost. *)
NotMarked(s) ==
    /\ InUse(s, "mark") /\ Finish(s)
    /\ \E read \in {store.rows, TRUE} : store' = [store EXCEPT !.rows = read]
    /\ UNCHANGED <<page, ui>>

InboxUser ==
    \/ MarkRead \/ MarkAllRead
    \/ \E filter \in Filters : ChooseFilter(filter)

InboxAnswered(s) == InboxServed(s) \/ InboxRead(s) \/ InboxNotRead(s) \/ Marked(s) \/ NotMarked(s)

InboxNext ==
    /\ page = "inbox"
    /\ InboxUser \/ ReadInbox \/ RestartPoll \/ \E s \in Slots : InboxAnswered(s)

(* The poll is a timer, its restart an effect of the render; of readings    *)
(* sent again and again one is answered in the end.                         *)
InboxFairness ==
    /\ SF_vars(page = "inbox" /\ ReadInbox)
    /\ SF_vars(page = "inbox" /\ RestartPoll)
    /\ SF_vars(page = "inbox" /\ \E s \in Slots : InboxServed(s))

-----------------------------------------------------------------------------
(* However readings cross, fail or answer an older filter, a list that is   *)
(* wanted shows in the end, and with it that the notification was read.     *)
InboxCatchesUp ==
    \A filter \in Filters :
        (page = "inbox" /\ ui.filter = filter /\ store.rows)
            ~> (page = "inbox" => \/ ui.filter # filter
                                  \/ ui.ofFilter = filter /\ ui.list = Listed(filter, TRUE))
=============================================================================
