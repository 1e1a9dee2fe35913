------------------------- MODULE IncidentWorkspace -------------------------
(***************************************************************************)
(* One window of the incident workspace over the shared store: the shell   *)
(* (IncidentWorkspace.tsx) with its queue, its copy of the selected        *)
(* timeline (IncidentTimelineView), its action panel (IncidentActions.tsx) *)
(* and its comment thread (IncidentCommentThread.tsx).                     *)
(*                                                                         *)
(* Every callback runs against the render it was created in and resumes,   *)
(* when its answer comes, in a window that may show another incident by    *)
(* then.  actionRequestRef numbers actions and selections; the panel and   *)
(* the thread are mounted without a key, so their own state outlives a     *)
(* selection.  Other responders commit to the same incidents meanwhile.    *)
(***************************************************************************)
EXTENDS IncidentTimelineView

CONSTANT MaxRequests  \* bound on actions and clicks in the queue

VARIABLES
    version,          \* the stored rows' versions
    listed,           \* the queue's copies, 0 before the page arrives
    override,         \* incidentOverride: a row newer than the listed one
    timelineOverride, \* the page read after a conflict
    conflict,         \* the notice: the event it names
    actionRequest,    \* actionRequestRef
    actionPending,    \* the shell's pending mark
    action,           \* the panel's pending command (localPending)
    displayed,        \* whose status the panel displays
    comment,          \* the pending comment (commentSubmitting)
    optimistic        \* entries of the thread shown before they are stored

hookVars == <<selected, view, ticket, inFlight, fetchOwed, mail>>
panelVars == <<override, timelineOverride, conflict>>
actionVars == <<actionRequest, actionPending, action>>
threadVars == <<comment, optimistic>>
workspaceVars == <<length, selected, view, ticket, inFlight, fetchOwed,
                   mail, version, listed, override, timelineOverride, conflict,
                   actionRequest, actionPending, action, displayed, comment,
                   optimistic>>

NoRow == [id |-> None, version |-> 0]
NoEvents == [id |-> None, events |-> << >>]
NoConflict == [id |-> None, event |-> 0, asOf |-> 0]
NoAction == [id |-> None, request |-> 0, verb |-> "none", expected |-> 0,
             stage |-> "none", got |-> {}, row |-> 0, page |-> NoPage,
             asOf |-> 0]
NoComment == [id |-> None, stage |-> "none", event |-> 0]

\* The row the detail region shows, and the events.
ShownVersion == IF override.id = selected THEN override.version
                                          ELSE listed[selected]
DetailEvents == IF timelineOverride.id = selected THEN timelineOverride.events
                                                  ELSE view.events

WorkspaceInit ==
    /\ ViewInit
    /\ version = [i \in Incidents |-> 1]
    /\ listed = [i \in Incidents |-> 0]
    /\ override = NoRow
    /\ timelineOverride = NoEvents
    /\ conflict = NoConflict
    /\ actionRequest = 0
    /\ actionPending = FALSE
    /\ action = NoAction
    /\ displayed = None
    /\ comment = NoComment
    /\ optimistic = {}

-----------------------------------------------------------------------------
(* The store, the queue and the selection. *)

\* Another responder commits a command (a new version) or a comment.
OtherResponder(i) ==
    /\ length[i] < MaxEvents
    /\ length' = [length EXCEPT ![i] = @ + 1]
    /\ version' = [version EXCEPT ![i] = @ + 1] \/ version' = version
    /\ UNCHANGED <<hookVars, listed, panelVars, actionVars, displayed,
                   threadVars>>

\* The queue's page arrives; nothing in the workspace asks for it again.
LoadQueue ==
    /\ \A i \in Incidents : listed[i] = 0
    /\ listed' = version
    /\ UNCHANGED <<length, hookVars, version, panelVars, actionVars, displayed,
                   threadVars>>

\* The thread's effect on a new list of events: entries whose stored event
\* is among them go.
Reconcile ==
    optimistic' = {o \in optimistic :
        \A k \in DOMAIN DetailEvents' : DetailEvents'[k] # Event(o.of, o.event)}

\* A click in the queue, also on the row already selected, or the first
\* selection the shell makes itself.  The panel's effect runs when the
\* incident it is given is another object.
SelectIncident(i) ==
    /\ listed[i] # 0
    /\ actionRequest < MaxRequests
    /\ \/ Select(i)
       \/ selected = i /\ UNCHANGED <<length, hookVars>>
    /\ actionRequest' = actionRequest + 1
    /\ actionPending' = FALSE
    /\ override' = NoRow
    /\ timelineOverride' = NoEvents
    /\ conflict' = NoConflict
    /\ displayed' = IF selected = i /\ override = NoRow THEN displayed ELSE i
    /\ IF selected = i /\ timelineOverride = NoEvents
       THEN UNCHANGED optimistic ELSE Reconcile
    /\ UNCHANGED <<version, listed, action, comment>>

-----------------------------------------------------------------------------
(* The timeline hook's own steps. *)

FetchFirst ==
    /\ FirstFetch
    /\ UNCHANGED <<version, listed, panelVars, actionVars, displayed,
                   threadVars>>

\* An answer that lands under the selection is a new list of events, unless
\* the page read after a conflict is shown in its place.
HandleTimeline ==
    /\ UNCHANGED <<version, listed, panelVars, actionVars, displayed, comment>>
    /\ \E m \in mail :
          \/ (Serve(m) \/ Drop(m) \/ Settle(m)) /\ UNCHANGED optimistic
          \/ /\ Land(m)
             /\ IF m.id = selected /\ m.page.ok /\ timelineOverride = NoEvents
                THEN Reconcile ELSE UNCHANGED optimistic

-----------------------------------------------------------------------------
(* Versioned commands: runVersionedMutation under the panel's execute. *)

\* transition stands for set_severity too: the panel shows their outcome.
Verbs == {"transition", "assign_role"}

StartAction(verb) ==
    /\ selected # None
    /\ ~actionPending
    /\ action = NoAction
    /\ actionRequest < MaxRequests
    /\ actionRequest' = actionRequest + 1
    /\ actionPending' = TRUE
    /\ conflict' = NoConflict
    /\ action' = [NoAction EXCEPT !.id = selected, !.verb = verb,
                    !.request = actionRequest + 1, !.stage = "sent",
                    !.expected = ShownVersion]
    /\ UNCHANGED <<length, hookVars, version, listed, override,
                   timelineOverride, displayed, threadVars>>

\* The command applies, meets another version, or fails.
ServeAction ==
    LET i == action.id IN
    /\ action.stage = "sent"
    /\ \/ /\ action.expected = version[i]
          /\ length[i] < MaxEvents
          /\ version' = [version EXCEPT ![i] = @ + 1]
          /\ length' = [length EXCEPT ![i] = @ + 1]
          /\ action' = [action EXCEPT !.stage = "accepted",
                                      !.row = action.expected + 1]
       \/ /\ action.expected # version[i]
          /\ action' = [action EXCEPT !.stage = "conflict", !.asOf = length[i]]
          /\ UNCHANGED <<length, version>>
       \/ /\ action' = [action EXCEPT !.stage = "rejected"]
          /\ UNCHANGED <<length, version>>
    /\ UNCHANGED <<hookVars, listed, panelVars, actionRequest, actionPending,
                   displayed, threadVars>>

\* The answer is still awaited by the render that shows it.
Awaited == action.request = actionRequest

\* The command's promise settles: the shell applies an awaited row, execute
\* then displays the status it asked for.
ReturnAccepted ==
    /\ action.stage = "accepted"
    /\ IF Awaited
       THEN /\ override' = [id |-> action.id, version |-> action.row]
            /\ actionPending' = FALSE
            /\ displayed' = action.id
       ELSE /\ UNCHANGED <<override, actionPending>>
            /\ displayed' = IF action.verb = "transition" THEN action.id
                                                          ELSE displayed
    /\ action' = NoAction
    /\ UNCHANGED <<length, hookVars, version, listed, timelineOverride,
                   conflict, actionRequest, threadVars>>

\* Mutant: an early return before the pending mark is taken down.
ReturnRejectedPending ==
    /\ \/ action.stage = "rejected"
       \/ action.stage = "conflict" /\ ~Awaited
    /\ action' = NoAction
    /\ UNCHANGED <<length, hookVars, version, listed, panelVars, actionRequest,
                   actionPending, displayed, threadVars>>

ReturnRejected ==
    /\ \/ action.stage = "rejected"
       \/ action.stage = "conflict" /\ ~Awaited
    /\ actionPending' = IF Awaited THEN FALSE ELSE actionPending
    /\ action' = NoAction
    /\ UNCHANGED <<length, hookVars, version, listed, panelVars, actionRequest,
                   displayed, threadVars>>

\* reloadAfterConflict asks for the row and the first page at once; either
\* may fail, and one that throws ends the wait for both.
StartReload ==
    /\ action.stage = "conflict"
    /\ Awaited
    /\ action' = [action EXCEPT !.stage = "reload"]
    /\ UNCHANGED <<length, hookVars, version, listed, panelVars, actionRequest,
                   actionPending, displayed, threadVars>>

ServeReload ==
    LET i == action.id IN
    /\ action.stage = "reload"
    /\ \/ /\ "row" \notin action.got
          /\ \E v \in {0, version[i]} :
                action' = [action EXCEPT !.got = @ \cup {"row"}, !.row = v]
       \/ /\ "page" \notin action.got
          /\ \E p \in {NoPage, Timeline(i, 0)} :
                action' = [action EXCEPT !.got = @ \cup {"page"}, !.page = p]
       \/ /\ action.got # {"row", "page"}
          /\ action' = [action EXCEPT !.stage = "rejected", !.got = {}]
    /\ UNCHANGED <<length, hookVars, version, listed, panelVars, actionRequest,
                   actionPending, displayed, threadVars>>

\* newestTimelineEvent of a first page.
NewestOf(page) == Len(page.events)

\* Mutant: the reload is applied whatever has been selected meanwhile.
ReturnReloadAlways ==
    /\ action.got = {"row", "page"}
    /\ UNCHANGED <<length, hookVars, version, listed, actionRequest, comment>>
    /\ actionPending' = IF Awaited THEN FALSE ELSE actionPending
    /\ IF action.row # 0
       THEN /\ override' = [id |-> action.id, version |-> action.row]
            /\ displayed' = action.id
       ELSE UNCHANGED <<override, displayed>>
    /\ IF action.page.ok
       THEN /\ timelineOverride' =
                   [id |-> action.id, events |-> action.page.events]
            /\ conflict' = [id |-> action.id, event |-> NewestOf(action.page),
                            asOf |-> action.asOf]
            /\ Reconcile
       ELSE UNCHANGED <<timelineOverride, conflict, optimistic>>
    /\ action' = NoAction

\* Both answers are in: an awaited reload replaces the row and the events
\* and names who changed the incident.
ReturnReload ==
    /\ action.got = {"row", "page"}
    /\ UNCHANGED <<length, hookVars, version, listed, actionRequest, comment>>
    /\ actionPending' = IF Awaited THEN FALSE ELSE actionPending
    /\ IF Awaited /\ action.row # 0
       THEN /\ override' = [id |-> action.id, version |-> action.row]
            /\ displayed' = action.id
       ELSE UNCHANGED <<override, displayed>>
    /\ IF Awaited /\ action.page.ok
       THEN /\ timelineOverride' =
                   [id |-> action.id, events |-> action.page.events]
            /\ conflict' = [id |-> action.id, event |-> NewestOf(action.page),
                            asOf |-> action.asOf]
            /\ Reconcile
       ELSE UNCHANGED <<timelineOverride, conflict, optimistic>>
    /\ action' = NoAction

-----------------------------------------------------------------------------
(* Comments: the thread's submit over the shell's submitComment. *)

StartComment ==
    /\ selected # None
    /\ comment = NoComment
    /\ ticket < MaxTicket
    /\ comment' = [id |-> selected, stage |-> "sent", event |-> 0]
    /\ optimistic' = optimistic \cup {[of |-> selected, event |-> 0]}
    /\ UNCHANGED <<length, hookVars, version, listed, panelVars, actionVars,
                   displayed>>

ServeComment ==
    LET i == comment.id IN
    /\ comment.stage = "sent"
    /\ \/ /\ length[i] < MaxEvents
          /\ length' = [length EXCEPT ![i] = @ + 1]
          /\ comment' = [comment EXCEPT !.stage = "stored",
                                        !.event = length[i] + 1]
       \/ /\ comment' = [comment EXCEPT !.stage = "rejected"]
          /\ UNCHANGED length
    /\ UNCHANGED <<hookVars, version, listed, panelVars, actionVars, displayed,
                   optimistic>>

\* The reload is that of the render the comment was sent from.
ReturnStored ==
    /\ comment.stage = "stored"
    /\ Reload(comment.id)
    /\ optimistic' = (optimistic \ {[of |-> comment.id, event |-> 0]})
                     \cup {[of |-> comment.id, event |-> comment.event]}
    /\ comment' = NoComment
    /\ UNCHANGED <<version, listed, panelVars, actionVars, displayed>>

\* The entry is taken back and its text returned to the composer.
ReturnUnstored ==
    /\ comment.stage = "rejected"
    /\ optimistic' = optimistic \ {[of |-> comment.id, event |-> 0]}
    /\ comment' = NoComment
    /\ UNCHANGED <<length, hookVars, version, listed, panelVars, actionVars,
                   displayed>>

-----------------------------------------------------------------------------

\* What the window and the command host do by themselves.
Respond == \/ FetchFirst
           \/ HandleTimeline
           \/ ServeAction \/ ReturnAccepted \/ ReturnRejected
           \/ StartReload \/ ServeReload \/ ReturnReload
           \/ ServeComment \/ ReturnStored \/ ReturnUnstored

WorkspaceNext ==
    \/ Respond
    \/ LoadQueue
    \/ \E i \in Incidents : OtherResponder(i) \/ SelectIncident(i)
    \/ \E verb \in Verbs : StartAction(verb)
    \/ StartComment

WorkspaceSpec == WorkspaceInit /\ [][WorkspaceNext]_workspaceVars

\* The command host answers a command and the promises it settles run on.
FairActions == WF_workspaceVars(ServeAction \/ ReturnAccepted \/ ReturnRejected
                                \/ StartReload \/ ServeReload \/ ReturnReload)
FairActionsSpec == WorkspaceSpec /\ FairActions

-----------------------------------------------------------------------------
(* Correctness. *)

\* Whatever returns late, the row, the events and the conflict notice shown
\* for a selection are that incident's.
ResultsBelong ==
    /\ override.id \in {selected, None}
    /\ timelineOverride.id \in {selected, None}
    /\ conflict.id \in {selected, None}

\* The action panel comes back: a command, whatever becomes of it and of the
\* selection, does not leave it disabled.
ActionEnds == action # NoAction ~> action = NoAction /\ ~actionPending
=============================================================================
