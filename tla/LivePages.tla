------------------------------- MODULE LivePages -------------------------------
(***************************************************************************)
(* The pages that move by themselves: the way in, with its redirects; the  *)
(* workspaces, with a provider that polls and shells that redirect; and    *)
(* the notifications, which are polled too.  One of Pages is mounted.      *)
(***************************************************************************)
EXTENDS EntryPages, ShellPage, InboxPage

CONSTANT Pages

LiveInit == page \in Pages /\ (EntryInit \/ ShellInit \/ InboxInit)

LiveNext == EntryNext \/ ShellNext \/ InboxNext

(* Every request ends, one way or the other. *)
Ending(s) ==
    \/ page = "entry" /\ EntryAnswered(s)
    \/ page = "shell" /\ ShellAnswered(s)
    \/ page = "inbox" /\ InboxAnswered(s)

LiveSpec ==
    /\ LiveInit /\ [][LiveNext]_vars
    /\ \A s \in Slots : WF_vars(Ending(s))
    /\ ShellFairness /\ InboxFairness
=============================================================================
