---------------------------- MODULE Conversation ----------------------------
(***************************************************************************)
(* The conversation on the search page (hooks/useConversation.ts, driven   *)
(* by pages/SearchPage.tsx).  A question is prepared, confirmed or sent on *)
(* at once, and executed; a conversation is loaded or begun.  What happens *)
(* between two awaits is one action, as are the updates of React it queues.*)
(* A coroutine is named by the call it waits for.                          *)
(*                                                                         *)
(* The endpoint answers JSON, so an answer arrives as a whole and the      *)
(* buffer of the streamed text is empty between two actions.               *)
(***************************************************************************)
EXTENDS ApiClient

CONSTANTS Query, Conversation, NoQuery, NoConversation

ASSUME ConversationAssumption ==
    /\ NoQuery \notin Query
    /\ NoConversation \notin Conversation \cup 1..MaxCalls
    /\ MaxCalls \in Nat

VARIABLES
    shown,     \* conversationId
    messages,  \* the messages on display
    state,
    original,  \* originalQuery: the question that was sent last
    panel,     \* preprocessResult, by the question it is of
    active     \* abortControllerRef: the call it would cancel, or 0

pageVars == <<shown, messages, state, original, panel, active>>
vars == <<clientVars, pageVars>>

Init ==
    /\ ClientInit
    /\ shown = NoConversation /\ messages = <<>> /\ state = "idle"
    /\ original = NoQuery /\ panel = NoQuery /\ active = 0

Busy == state \in {"preprocessing", "querying"}
May(n) == n <= MaxCalls

(* A message belongs to an execution, by its call, or to a history (0). It *)
(* shows the answer or error (text) and the citations, timings and related *)
(* questions (extras) of executions.                                       *)
Message(role, n, c, status, shows) ==
    [role |-> role, call |-> n, conversation |-> c, status |-> status,
     text |-> shows, extras |-> shows]

Turn(n, c) == <<Message("user", n, c, "completed", {}),
                Message("assistant", n, c, "streaming", {})>>
Histories(c) ==
    LET asked == <<Message("user", 0, c, "completed", {})>> IN
    {asked, Append(asked, Message("assistant", 0, c, "completed", {0}))}

(* An update of the last message, when it is the assistant's.              *)
LastIsAnswer == messages # <<>> /\ messages[Len(messages)].role = "assistant"
Last(m) == IF LastIsAnswer THEN [messages EXCEPT ![Len(messages)] = m] ELSE messages

(* The list is replaced: calls on their way will find another one.         *)
Overtake(calls) ==
    [n \in DOMAIN calls |->
        IF Under(calls[n]) THEN [calls[n] EXCEPT !.overtaken = TRUE] ELSE calls[n]]

(* The controller of a call is dropped when the call ends.                 *)
Released(n) == IF active = n THEN 0 ELSE active

-----------------------------------------------------------------------------
(* executeConfirmedQuery, up to its await.  The conversation is that of    *)
(* the closure; without one a new conversation gets a name, here the       *)
(* number of the call.                                                     *)
Execute(calls, cancels, query, conversation) ==
    LET n == Len(calls) + 1
        new == conversation = NoConversation
        c == IF new THEN n ELSE conversation
    IN  /\ May(n)
        /\ call' = Append(Cut(calls, cancels), Sent("execute", query, c))
        /\ shown' = IF new THEN c ELSE shown
        /\ messages' = messages \o Turn(n, c)
        /\ state' = "querying" /\ active' = n

(* handlePreprocessReady: a clear question is executed at once.            *)
Ready(calls, cancels, query, conversation) ==
    /\ panel' = query
    /\ \/ Execute(calls, cancels, query, conversation)
       \/ /\ state' = "confirming" /\ active' = cancels
          /\ call' = calls
          /\ UNCHANGED <<shown, messages>>

Known(query) ==
    \E n \in DOMAIN call :
        call[n].kind = "prepare" /\ call[n].query = query /\ call[n].pc = "answered"

(* sendQuery: from the input, which is off while the page is busy, or from *)
(* a related question under an answer, which is not.                       *)
Send(query) ==
    /\ state # "confirming"
    /\ \/ ~Busy
       \/ \E k \in DOMAIN messages :
             messages[k].status = "completed" /\ messages[k].extras # {}
    /\ original' = query
    /\ LET calls == Cut(call, active)
           n == Len(calls) + 1
       IN  IF Known(query)
           THEN Ready(calls, 0, query, shown)
           ELSE /\ May(n)
                /\ call' = Append(calls, Sent("prepare", query, shown))
                /\ state' = "preprocessing" /\ panel' = NoQuery /\ active' = n
                /\ UNCHANGED <<shown, messages>>
    /\ UNCHANGED refreshing

(* The preparation arrives, cancelled or not.                              *)
Prepared(n) ==
    /\ call[n].kind = "prepare" /\ call[n].pc = "reading"
    /\ Ready(End(call, n, "answered"), Released(n), call[n].query, call[n].conversation)
    /\ UNCHANGED <<refreshing, original>>

(* confirmAndExecute: the question that was sent last, in the conversation *)
(* on display.                                                             *)
Confirm ==
    /\ state = "confirming" /\ panel # NoQuery
    /\ Execute(call, active, original, shown)
    /\ UNCHANGED <<refreshing, original, panel>>

CancelConfirmation ==
    /\ state = "confirming"
    /\ call' = Cut(call, active) /\ active' = 0
    /\ state' = "idle" /\ panel' = NoQuery
    /\ UNCHANGED <<refreshing, shown, messages, original>>

-----------------------------------------------------------------------------
(* The answer: timings and citations go to the last message, the text too  *)
(* as long as it is streaming.                                             *)
Answer(n) ==
    /\ call[n].kind = "execute" /\ call[n].pc = "reading"
    /\ call' = End(call, n, "answered")
    /\ LET m == messages[Len(messages)]
           named == [m EXCEPT !.extras = @ \cup {n}]
       IN  messages' = Last(IF m.status = "streaming"
                            THEN [named EXCEPT !.text = @ \cup {n}, !.status = "completed"]
                            ELSE named)
    /\ state' = "completed" /\ active' = Released(n)
    /\ UNCHANGED <<refreshing, shown, original, panel>>

(* The backend asks back: the last message is taken for the placeholder of *)
(* the answer, and the panel opens again.                                  *)
Clarify(n) ==
    /\ call[n].kind = "execute" /\ call[n].pc = "reading"
    /\ call' = End(call, n, "answered")
    /\ messages' = SubSeq(messages, 1, Len(messages) - 1)
    /\ state' = "confirming" /\ panel' = call[n].query /\ active' = Released(n)
    /\ UNCHANGED <<refreshing, shown, original>>

(* Mutant: the state is left as it is.                                     *)
ExecuteFailsQuietly(n) ==
    /\ call[n].kind = "execute" /\ CanFail(n)
    /\ call' = End(call, n, "over")
    /\ messages' = Last([messages[Len(messages)] EXCEPT !.status = "error", !.text = {n}])
    /\ active' = Released(n)
    /\ UNCHANGED <<refreshing, state, shown, original, panel>>

(* An error replaces the last message, streaming or not.                   *)
ExecuteFails(n) ==
    /\ call[n].kind = "execute" /\ CanFail(n)
    /\ call' = End(call, n, "over")
    /\ messages' = Last([messages[Len(messages)] EXCEPT !.status = "error", !.text = {n}])
    /\ state' = "error" /\ active' = Released(n)
    /\ UNCHANGED <<refreshing, shown, original, panel>>

PrepareFails(n) ==
    /\ call[n].kind = "prepare" /\ CanFail(n)
    /\ call' = End(call, n, "over")
    /\ state' = "error" /\ active' = Released(n)
    /\ UNCHANGED <<refreshing, shown, messages, original, panel>>

-----------------------------------------------------------------------------
(* Mutant: the messages stay until the history is there.                   *)
LoadKeeping(c) ==
    /\ May(Len(call) + 1)
    /\ call' = Append(Overtake(call), Sent("load", NoQuery, c))
    /\ shown' = c /\ state' = "idle" /\ panel' = NoQuery
    /\ UNCHANGED <<refreshing, messages, original, active>>

(* loadConversation: nothing is cancelled.                                 *)
Load(c) ==
    /\ May(Len(call) + 1)
    /\ call' = Append(Overtake(call), Sent("load", NoQuery, c))
    /\ shown' = c /\ messages' = <<>> /\ state' = "idle" /\ panel' = NoQuery
    /\ UNCHANGED <<refreshing, original, active>>

Loaded(n) ==
    /\ call[n].kind = "load" /\ call[n].pc = "reading"
    /\ messages' \in Histories(call[n].conversation)
    /\ call' = Overtake(End(call, n, "answered"))
    /\ UNCHANGED <<refreshing, shown, state, original, panel, active>>

LoadFails(n) ==
    /\ call[n].kind = "load" /\ CanFail(n)
    /\ call' = End(call, n, "over")
    /\ UNCHANGED <<refreshing, pageVars>>

StartNewConversation ==
    /\ state # "confirming"
    /\ call' = Overtake(Cut(call, active)) /\ active' = 0
    /\ shown' = NoConversation /\ messages' = <<>> /\ state' = "idle"
    /\ original' = NoQuery /\ panel' = NoQuery
    /\ UNCHANGED refreshing

-----------------------------------------------------------------------------
Network(n) == (Headers(n) \/ Unauthorized(n)) /\ UNCHANGED pageVars
Settle(n) ==
    \/ Prepared(n) \/ PrepareFails(n) \/ Answer(n) \/ Clarify(n) \/ ExecuteFails(n)
    \/ Loaded(n) \/ LoadFails(n)
RefreshEnds == (RefreshSucceeds \/ RefreshFails) /\ UNCHANGED pageVars

User ==
    \/ \E q \in Query : Send(q)
    \/ Confirm \/ CancelConfirmation \/ StartNewConversation
    \/ \E c \in Conversation : Load(c)

Next ==
    \/ User \/ RefreshEnds
    \/ OtherUnauthorized /\ UNCHANGED pageVars
    \/ \E n \in DOMAIN call : Network(n) \/ Settle(n)

Spec == Init /\ [][Next]_vars

(* A call comes to an end: the network answers or fails.  Nobody has to    *)
(* send, confirm or load anything.                                         *)
Fairness ==
    /\ WF_vars(RefreshEnds)
    /\ \A n \in 1..MaxCalls : WF_vars(n \in DOMAIN call /\ (Network(n) \/ Settle(n)))

FairSpec == Spec /\ Fairness

-----------------------------------------------------------------------------
Cancelled == {n \in DOMAIN call : call[n].cancelled /\ call[n].pc # "over"}
Overtaken == {n \in DOMAIN call : call[n].overtaken}

(* Calls whose own message is not in the list: it was replaced, or late    *)
(* answers have taken messages from its end.                               *)
Homeless ==
    {n \in DOMAIN call : \A k \in DOMAIN messages :
        messages[k].role = "assistant" => messages[k].call # n}

(* A message shows the answer to its own question.  Anything of another    *)
(* execution gets in only if that one was cancelled too late, when its     *)
(* body was being read, or if its own message is gone; and when the list   *)
(* was replaced under it, its text does not get in, unless as an error.    *)
(* Unless a cancelled call went on, the text of a completed message is     *)
(* there.                                                                  *)
MessagesFit ==
    \A k \in DOMAIN messages :
        LET m == messages[k]
            strays == {n \in DOMAIN call : call[n].cancelled}
            astray == IF m.status = "error" THEN Homeless ELSE Homeless \ Overtaken
            completed == m.role = "assistant" /\ m.status = "completed"
        IN  /\ m.text \subseteq {m.call} \cup strays \cup astray
            /\ m.extras \subseteq {m.call} \cup strays \cup Homeless
            /\ completed /\ Cancelled = {} => m.text = {m.call}

(* What is on display belongs to the conversation the next question will   *)
(* be asked in, unless a call went on that was cancelled, or that was on   *)
(* its way when the user turned to another conversation.                   *)
ConversationFits ==
    \A k \in DOMAIN messages :
        messages[k].conversation = shown \/ Cancelled \cup Overtaken # {}

(* The panel asks about the question that Confirm will send, unless a      *)
(* cancelled call went on.                                                 *)
PanelFits == state = "confirming" => panel = original \/ Cancelled # {}

(* A busy page waits for a call that is on its way, that its cancel would  *)
(* reach, and that is of the kind the state says: an answer that comes too *)
(* late for one question never leaves the page waiting for nobody.  A call *)
(* that refreshes the token does so under the flag that others wait for.   *)
BusyWaits ==
    Busy =>
        /\ active \in DOMAIN call
        /\ LET c == call[active] IN
            /\ Under(c) /\ ~c.cancelled
            /\ c.kind = IF state = "querying" THEN "execute" ELSE "prepare"
            /\ c.pc = "refreshing" => refreshing

(* The page does not stay busy, and the input off, unless a call waits for *)
(* a refresh that has failed.                                              *)
Settles == Busy ~> (~Busy \/ Stranded)

=============================================================================
