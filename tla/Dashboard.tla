----------------------------- MODULE Dashboard -----------------------------
(***************************************************************************)
(* The status server (internal/statusserver/server.go) beside the Workflow *)
(* controller whose cache it reads, and the page it serves: the page asks  *)
(* once for a snapshot and listens to the event stream.                    *)
(***************************************************************************)
EXTENDS Workflow

VARIABLES
    fetch,   \* the snapshot: "closed", "asked", "answered" with it, or "over"
    stream,  \* handleStream: whether it is open, lastPayload, events on their way
    shown    \* the phase and tasks the page shows

page == <<fetch, stream, shown>>

PageInit ==
    /\ fetch = [pc |-> "closed", answer |-> None] /\ shown = None
    /\ stream = [open |-> FALSE, last |-> None, events |-> <<>>]

(***************************************************************************)
(* lookupWorkflow: the cached Workflow has the transaction id, and is in   *)
(* the index, once its status has been written.                            *)
(***************************************************************************)
found  == cache[Wf] # None /\ cache[Wf].phase # ""
status == [phase |-> cache[Wf].phase, tasks |-> cache[Wf].tasks, notified |-> cache[Wf].notified]

(* The page is loaded: its script starts the fetch, and then the stream. *)
Load ==
    /\ fetch.pc = "closed"
    /\ fetch' = [fetch EXCEPT !.pc = "asked"] /\ stream' = [stream EXCEPT !.open = TRUE]
    /\ UNCHANGED shown

(* handleWorkflowJSON; the page makes nothing of a 404. *)
Answer ==
    /\ fetch.pc = "asked"
    /\ fetch' = IF found THEN [pc |-> "answered", answer |-> status] ELSE [fetch EXCEPT !.pc = "over"]
    /\ UNCHANGED <<stream, shown>>

(* One second has passed in handleStream. *)
Tick ==
    /\ stream.open /\ found
    /\ stream' = [open   |-> ~isTerminal(status.phase),
                  last   |-> status,
                  events |-> IF status = stream.last THEN stream.events
                             ELSE Append(stream.events, status)]
    /\ UNCHANGED <<fetch, shown>>

(* render, with what the fetch brought or with the next event. *)
render(st) == shown' = [phase |-> st.phase, tasks |-> st.tasks]

ShowSnapshot ==
    /\ fetch.pc = "answered"
    /\ render(fetch.answer) /\ fetch' = [fetch EXCEPT !.pc = "over"]
    /\ UNCHANGED stream

ShowEvent ==
    /\ stream.events # <<>>
    /\ render(Head(stream.events)) /\ stream' = [stream EXCEPT !.events = Tail(@)]
    /\ UNCHANGED fetch

(* The connection is lost: onerror closes the EventSource for good. *)
Disconnect ==
    /\ stream.open /\ Spend("failures")
    /\ stream' = [stream EXCEPT !.open = FALSE]
    /\ UNCHANGED <<api, cache, behind, queued, w, fetch, shown>>

PageStep == Load \/ Answer \/ Tick \/ ShowSnapshot \/ ShowEvent

PageNext == \/ Next /\ UNCHANGED page
            \/ PageStep /\ UNCHANGED vars
            \/ Disconnect

(* The controller keeps going, what is on its way arrives, the ticker ticks. *)
PageSpec ==
    /\ Init /\ PageInit /\ [][PageNext]_<<vars, page>> /\ Fairness
    /\ WF_<<vars, page>>((Answer \/ ShowSnapshot) /\ UNCHANGED vars)
    /\ WF_<<vars, page>>((Tick \/ ShowEvent) /\ UNCHANGED vars)

-----------------------------------------------------------------------------
(***************************************************************************)
(* server.go:64-66 "handleStream pushes the workflow's status to the       *)
(* browser every time it changes, via Server-Sent Events, until the        *)
(* workflow reaches a terminal phase - that's what makes the page update   *)
(* live instead of needing refresh": when the Workflow has ended, a page   *)
(* shows how it ended.                                                     *)
(***************************************************************************)
NoRefreshNeeded ==
    <>[](fetch.pc # "closed" /\ isTerminal(api[Wf].phase) =>
            shown # None /\ shown.phase = api[Wf].phase)
=============================================================================
