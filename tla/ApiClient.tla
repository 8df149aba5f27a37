----------------------------- MODULE ApiClient -----------------------------
(***************************************************************************)
(* The calls of the frontend (api/client.ts).  A call is a request that is *)
(* sent, may be answered 401, waits then for one refresh of the token that *)
(* all calls share, is sent a second time and has its body read.           *)
(*                                                                         *)
(* pc of a call: "sent", "refreshing" (it makes the refresh), "waiting"    *)
(* (another one makes it), "again" (sent the second time), "reading" (the  *)
(* headers are here, the body is not), "failed" (the error is made), then  *)
(* "answered", or "over" for a call whose caller was not answered.         *)
(***************************************************************************)
EXTENDS Naturals, Sequences

CONSTANT MaxCalls   \* bound: calls in a behaviour

VARIABLES
    call,       \* the calls, in the order in which they were made
    refreshing  \* isRefreshing

clientVars == <<call, refreshing>>

ClientInit == call = <<>> /\ refreshing = FALSE

Sent(kind, query, conversation) ==
    [kind |-> kind, query |-> query, conversation |-> conversation,
     pc |-> "sent", cancelled |-> FALSE, overtaken |-> FALSE]

Under(c) == c.pc \notin {"answered", "over"}

(* Mutant: the signal reaches nothing.                                     *)
CutNothing(calls, n) == calls

(* The signal of the caller.  It ends a call whose headers are not here    *)
(* yet.  No one listens to it while the token is refreshed nor, for want   *)
(* of the listener that cleanup() has removed, while the body is read.     *)
Cut(calls, n) ==
    IF n = 0 THEN calls
    ELSE [calls EXCEPT ![n].cancelled = TRUE,
                       ![n].pc = IF @ \in {"sent", "again"} THEN "over" ELSE @]

End(calls, n, pc) == [calls EXCEPT ![n].pc = pc]

-----------------------------------------------------------------------------
Headers(n) ==
    /\ call[n].pc \in {"sent", "again"}
    /\ call' = End(call, n, "reading")
    /\ UNCHANGED refreshing

(* 401: one refresh at a time, and one for all who ask for it.             *)
Unauthorized(n) ==
    /\ call[n].pc = "sent"
    /\ call' = End(call, n, IF refreshing THEN "waiting" ELSE "refreshing")
    /\ refreshing' = TRUE

(* Some other request of the page is the first to be answered 401.         *)
OtherUnauthorized == ~refreshing /\ refreshing' = TRUE /\ UNCHANGED call

(* There is a new token: every call that waits is sent again, under the    *)
(* signal it had; one that was cancelled meanwhile ends there.             *)
RefreshSucceeds ==
    /\ refreshing
    /\ refreshing' = FALSE
    /\ call' = [n \in DOMAIN call |->
                  IF call[n].pc \notin {"refreshing", "waiting"} THEN call[n]
                  ELSE [call[n] EXCEPT !.pc = IF call[n].cancelled THEN "over" ELSE "again"]]

(* There is none: the call that made the refresh fails.  Those that wait   *)
(* are not told, they wait for the next refresh that succeeds.             *)
RefreshFails ==
    /\ refreshing
    /\ refreshing' = FALSE
    /\ call' = [n \in DOMAIN call |->
                  IF call[n].pc # "refreshing" THEN call[n]
                  ELSE [call[n] EXCEPT !.pc = "failed"]]

(* What the caller sees as an error: no answer in time, an answer that is  *)
(* no success, a second 401, a body that cannot be read, no token.         *)
CanFail(n) == call[n].pc \in {"sent", "again", "reading", "failed"}

(* Calls that wait while nothing is under way that would wake them.        *)
Stranded == ~refreshing /\ \E n \in DOMAIN call : call[n].pc = "waiting"

=============================================================================
