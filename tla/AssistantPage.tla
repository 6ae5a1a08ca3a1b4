----------------------------- MODULE AssistantPage -----------------------------
(***************************************************************************)
(* Kuza AI beside a workspace: a conversation held by the page alone, and  *)
(* sent along, its last messages, with every question.                     *)
(*                                                                         *)
(* A message of the user is its number, an answer the number it answers.   *)
(*                                                                         *)
(* Bounds: MaxMessages questions; History is how many messages are sent.   *)
(***************************************************************************)
EXTENDS PageRuntime

CONSTANTS MaxMessages, History

ASSUME AssistantAssumption == MaxMessages \in Nat \ {0} /\ History \in Nat

Modes == {"closed", "panel", "expanded"}

AssistantUi ==
    [mode |-> "closed", typed |-> FALSE, messages |-> << >>, asked |-> 0,
     controller |-> None, failed |-> FALSE, draft |-> 1, busy |-> FALSE, saved |-> None]

AssistantInit == page = "assistant" /\ ui = AssistantUi /\ calls = NoCalls /\ store = NoWrites

(* Closing the companion only hides it: its conversation goes on. *)
ChangeMode(mode) == mode # ui.mode /\ Sets([ui EXCEPT !.mode = mode])

TypeMessage == ui.mode # "closed" /\ ~ui.typed /\ Sets([ui EXCEPT !.typed = TRUE])

LastOf(messages) ==
    IF Len(messages) <= History THEN messages
    ELSE SubSeq(messages, Len(messages) - History + 1, Len(messages))

Says(role, number) == [role |-> role, number |-> number]

(* busy is `sending`: one question at a time; what may still be under way is *)
(* aborted.  The history is that before the question.                       *)
SendMessage ==
    /\ ui.mode # "closed" /\ ui.typed /\ ~ui.busy /\ ui.asked < MaxMessages
    /\ LET number == ui.asked + 1
           asks   == [number |-> number, history |-> LastOf(ui.messages)]
       IN  /\ calls' = [NoCalls EXCEPT ![1] = Call("ask", 0, asks)]
           /\ ui' = [ui EXCEPT !.typed = FALSE, !.asked = number, !.busy = TRUE, !.failed = FALSE,
                               !.controller = 1, !.messages = Append(@, Says("user", number))]
    /\ UNCHANGED <<page, store>>

(* The controller is compared before `sending` ends, so that a request that *)
(* was given up does not end the one that took its place.                   *)
Sent(s) == IF ui.controller = s THEN [ui EXCEPT !.busy = FALSE, !.controller = None] ELSE ui

\* Fault: the answer is added to the messages of the moment it was asked for.
AnswerToHistory(s) ==
    /\ InUse(s, "ask")
    /\ Ends(s, "ask", [Sent(s) EXCEPT !.messages =
                          Append(calls[s].arg.history, Says("assistant", calls[s].arg.number))])

AnswerArrives(s) ==
    /\ InUse(s, "ask")
    /\ Ends(s, "ask", [Sent(s) EXCEPT !.messages = Append(@, Says("assistant", calls[s].arg.number))])

AnswerFails(s) == Ends(s, "ask", [Sent(s) EXCEPT !.failed = TRUE])

(* The workspace is left: what is under way is aborted, the conversation    *)
(* is gone.                                                                 *)
LeaveConversation ==
    /\ ui.asked > 0
    /\ ui' = AssistantUi /\ calls' = NoCalls
    /\ UNCHANGED <<page, store>>

AssistantUser ==
    \/ TypeMessage \/ SendMessage \/ LeaveConversation
    \/ \E mode \in Modes : ChangeMode(mode)

AssistantAnswered(s) == AnswerArrives(s) \/ AnswerFails(s)

AssistantNext ==
    /\ page = "assistant"
    /\ AssistantUser \/ \E s \in Slots : AssistantAnswered(s)

-----------------------------------------------------------------------------
(* The conversation reads in order: an answer stands right below the        *)
(* question it answers, whatever failed or was hidden before, so that the   *)
(* history sent with the next question pairs them rightly too.              *)
AnswersFollowTheirQuestion ==
    page = "assistant" =>
        \A i \in DOMAIN ui.messages :
            ui.messages[i].role = "assistant" =>
                i > 1 /\ ui.messages[i - 1] = Says("user", ui.messages[i].number)
=============================================================================
