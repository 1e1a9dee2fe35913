------------------------ MODULE IncidentTimelineView ------------------------
(***************************************************************************)
(* useIncidentTimeline: one window's copy of the timeline of the incident  *)
(* it has selected, read one bounded page at a time while other responders *)
(* append to it.                                                           *)
(*                                                                         *)
(*   ticketRef     every request takes a number; an answer whose number is *)
(*                 no longer the last one is dropped                       *)
(*   inFlightRef   a request is only made while none is in flight          *)
(*                                                                         *)
(* An answer is handled in two turns of the event loop, then/catch (Land)  *)
(* and finally (Settle).  A selection change and the layout effect of its  *)
(* commit are one step, the passive effect that sends the first request    *)
(* another.  loadMore is assumed to be that of a render of the last state: *)
(* its position is a value the callback closed over, not a ref.            *)
(* The server's side is SqliteIncidentRepository::timeline over timelines  *)
(* that only grow (IncidentLog).                                           *)
(***************************************************************************)
EXTENDS Integers, Sequences, FiniteSets

CONSTANTS
    Incidents,  \* incidents of the workspace
    None,       \* no selection
    PageLimit,  \* INCIDENT_TIMELINE_LIMIT
    MaxEvents,  \* bound on a timeline's length
    MaxTicket   \* bound on the requests and selections of one window

ASSUME NoneAssumption == None \notin Incidents
ASSUME PageAssumption == PageLimit \in Nat \ {0}

VARIABLES
    length,     \* per incident, its stored events are numbered 1 .. length
    selected,   \* the incident the hook is called with
    view,       \* KeyedTimelineState: events, loading, failed, hasMore, after
    ticket,     \* ticketRef
    inFlight,   \* inFlightRef
    fetchOwed,  \* the passive effect of the last selection has not run yet
    mail        \* requests made and not settled

viewVars == <<length, selected, view, ticket, inFlight, fetchOwed, mail>>

Event(i, n) == <<i, n>>
FirstEvents(i, n) == [k \in 1 .. n |-> Event(i, k)]

\* afterSequence null is 0: the repository reads both as "from the start".
BlankTimeline(i) ==
    [events |-> << >>, loading |-> i # None, failed |-> FALSE,
     hasMore |-> FALSE, after |-> 0]

NoPage == [ok |-> FALSE, events |-> << >>, next |-> 0]

ViewInit ==
    /\ length = [i \in Incidents |-> 1]
    /\ selected = None
    /\ view = BlankTimeline(None)
    /\ ticket = 0
    /\ inFlight = FALSE
    /\ fetchOwed = FALSE
    /\ mail = {}

-----------------------------------------------------------------------------
(* The repository. *)

\* Mutant: without the one row more than the page that shows there is more.
TimelineExactWindow(i, after) ==
    LET left == length[i] - after
        n == IF left > PageLimit THEN PageLimit ELSE left
    IN  [ok |-> TRUE, events |-> [k \in 1 .. n |-> Event(i, after + k)],
         next |-> 0]

\* One page after a sequence, and the sequence to resume from if the window
\* of one row more than the page was filled.
Timeline(i, after) ==
    LET left == length[i] - after
        more == left > PageLimit
        n == IF more THEN PageLimit ELSE left
    IN  [ok |-> TRUE, events |-> [k \in 1 .. n |-> Event(i, after + k)],
         next |-> IF more THEN after + n ELSE 0]

\* A command of this or another responder commits one event.
AppendEvent(i) ==
    /\ length[i] < MaxEvents
    /\ length' = [length EXCEPT ![i] = @ + 1]
    /\ UNCHANGED <<selected, view, ticket, inFlight, fetchOwed, mail>>

-----------------------------------------------------------------------------
(* fetchPage and its callers. *)

\* fetchPage past its inFlight test, taking ticket t.
Send(i, after, append, t) ==
    /\ inFlight' = TRUE
    /\ ticket' = t
    /\ view' = IF selected = i
               THEN [view EXCEPT !.loading = TRUE, !.failed = FALSE]
               ELSE view
    /\ mail' = mail \cup
         {[ticket |-> t, id |-> i, after |-> after, append |-> append,
           asOf |-> length[i], stage |-> "sent", page |-> NoPage]}

FetchPage(i, after, append) ==
    \/ inFlight /\ UNCHANGED <<view, ticket, inFlight, mail>>
    \/ ~inFlight /\ Send(i, after, append, ticket + 1)

\* Mutant: the layout effect drops the ticket but not the in-flight mark.
SelectStillInFlight(i) ==
    /\ selected # i
    /\ ~fetchOwed
    /\ ticket < MaxTicket
    /\ selected' = i
    /\ view' = BlankTimeline(i)
    /\ ticket' = ticket + 1
    /\ fetchOwed' = TRUE
    /\ UNCHANGED <<length, inFlight, mail>>

\* The selection moves: the state is reset during the render, the layout
\* effect abandons what is in flight.  React runs the passive effect of one
\* commit before it starts the next.
Select(i) ==
    /\ selected # i
    /\ ~fetchOwed
    /\ ticket < MaxTicket
    /\ selected' = i
    /\ view' = BlankTimeline(i)
    /\ ticket' = ticket + 1
    /\ inFlight' = FALSE
    /\ fetchOwed' = TRUE
    /\ UNCHANGED <<length, mail>>

FirstFetch ==
    /\ fetchOwed
    /\ fetchOwed' = FALSE
    /\ FetchPage(selected, 0, FALSE)
    /\ UNCHANGED <<length, selected>>

\* loadMore of a render that shows the state as it was last set.
LoadMore ==
    /\ selected # None
    /\ ticket < MaxTicket
    /\ view.hasMore
    /\ FetchPage(selected, view.after, TRUE)
    /\ UNCHANGED <<length, selected, fetchOwed>>

\* reload as a render with incident i closed over it.
Reload(i) ==
    /\ i # None
    /\ Send(i, 0, FALSE, ticket + 2)
    /\ UNCHANGED <<length, selected, fetchOwed>>

\* The reload a comment ends with is that of the render it was sent from:
\* its incident may have been left since.  Which incidents were shown before
\* is not kept: the window holds no trace of it but the numbers of its
\* tickets, so the comment may be one on any of them.
ReloadAfterComment ==
    /\ selected # None
    /\ ticket < MaxTicket
    /\ \E i \in Incidents : Reload(i)

-----------------------------------------------------------------------------
(* Answers. *)

Forward(m, stage, page) ==
    mail' = (mail \ {m}) \cup {[m EXCEPT !.stage = stage, !.page = page]}

\* The command reads the page, or fails.
Serve(m) ==
    /\ m.stage = "sent"
    /\ \/ Forward(m, "answered", Timeline(m.id, m.after))
       \/ Forward(m, "answered", NoPage)
    /\ UNCHANGED <<length, selected, view, ticket, inFlight, fetchOwed>>

\* A superseded answer changes nothing, in either turn.
Drop(m) ==
    /\ m.stage # "sent"
    /\ m.ticket # ticket
    /\ mail' = mail \ {m}
    /\ UNCHANGED <<length, selected, view, ticket, inFlight, fetchOwed>>

WithPage(v, m) ==
    IF m.page.ok
    THEN [v EXCEPT !.events = IF m.append THEN @ \o m.page.events
                                          ELSE m.page.events,
                   !.after = m.page.next,
                   !.hasMore = m.page.next # 0]
    ELSE [v EXCEPT !.failed = TRUE, !.hasMore = FALSE]

\* Mutant: the ticket alone decides, not the incident the state is keyed by.
LandOnAnyIncident(m) ==
    /\ m.stage = "answered"
    /\ m.ticket = ticket
    /\ view' = WithPage(view, m)
    /\ Forward(m, "landed", m.page)
    /\ UNCHANGED <<length, selected, ticket, inFlight, fetchOwed>>

\* then or catch.
Land(m) ==
    /\ m.stage = "answered"
    /\ m.ticket = ticket
    /\ view' = IF m.id = selected THEN WithPage(view, m) ELSE view
    /\ Forward(m, "landed", m.page)
    /\ UNCHANGED <<length, selected, ticket, inFlight, fetchOwed>>

\* Mutant: the request is settled for the reader only.
SettleInFlight(m) ==
    /\ m.stage = "landed"
    /\ m.ticket = ticket
    /\ view' = IF m.id = selected THEN [view EXCEPT !.loading = FALSE] ELSE view
    /\ mail' = mail \ {m}
    /\ UNCHANGED <<length, selected, ticket, inFlight, fetchOwed>>

\* finally.
Settle(m) ==
    /\ m.stage = "landed"
    /\ m.ticket = ticket
    /\ inFlight' = FALSE
    /\ view' = IF m.id = selected THEN [view EXCEPT !.loading = FALSE] ELSE view
    /\ mail' = mail \ {m}
    /\ UNCHANGED <<length, selected, ticket, fetchOwed>>

-----------------------------------------------------------------------------

\* The steps an answered request takes by itself.
Handle == \E m \in mail : Serve(m) \/ Drop(m) \/ Land(m) \/ Settle(m)

ViewNext ==
    \/ \E i \in Incidents : AppendEvent(i) \/ Select(i)
    \/ FirstFetch
    \/ LoadMore
    \/ ReloadAfterComment
    \/ Handle

ViewSpec == ViewInit /\ [][ViewNext]_viewVars

\* Effects run and the command host answers every call; users and other
\* responders owe nothing.
FairViewSpec ==
    ViewSpec /\ WF_viewVars(FirstFetch) /\ WF_viewVars(Handle)

-----------------------------------------------------------------------------
(* Correctness. *)

Pages == [ok : BOOLEAN, events : Seq(Incidents \X Nat), next : Nat]
PageRequests == [ticket : Nat, id : Incidents, after : Nat, append : BOOLEAN,
                 asOf : Nat, stage : {"sent", "answered", "landed"}, page : Pages]

ViewTypeOK ==
    /\ length \in [Incidents -> Nat]
    /\ selected \in Incidents \cup {None}
    /\ view \in [events : Seq(Incidents \X Nat), loading : BOOLEAN,
                 failed : BOOLEAN, hasMore : BOOLEAN, after : Nat]
    /\ ticket \in Nat
    /\ inFlight \in BOOLEAN
    /\ fetchOwed \in BOOLEAN
    /\ fetchOwed => selected # None
    /\ mail \subseteq PageRequests
    /\ \A m \in mail : m.ticket \in 1 .. ticket
    /\ \A m, n \in mail : m.ticket = n.ticket => m = n

\* The in-flight mark is the current request's: a superseded request neither
\* holds it, which would block the next one for ever, nor clears it, which
\* would let two requests append to the same page.
InFlightIsCurrent == inFlight <=> \E m \in mail : m.ticket = ticket

\* However pages, reloads and selections overlap, the window shows the first
\* events of the selected incident's timeline, in order, none missing and
\* none twice.
ShownIsPrefix ==
    LET n == Len(view.events) IN
    /\ n > 0 => selected # None /\ n <= length[selected]
    /\ selected # None => view.events = FirstEvents(selected, n)

\* While the window offers more, it resumes where the shown events end.
ResumesAtEnd ==
    view.hasMore => /\ selected # None
                    /\ view.after = Len(view.events)
                    /\ view.after < length[selected]

\* A page that says it is the last one leaves nothing out that was stored
\* when it was asked for.
LastPageIsLast ==
    [][\A m \in mail \ mail' :
          /\ m.stage = "answered"
          /\ m.ticket = ticket
          /\ m.id = selected
          /\ m.page.ok
          /\ ~view'.hasMore
          => Len(view'.events) >= m.asOf]_viewVars

\* The window waits for a page of the incident: its first is still to be asked
\* for, or the last ticket asks for one.
PageAwaited(i) ==
    /\ selected = i
    /\ view.loading
    /\ fetchOwed \/ \E m \in mail : m.ticket = ticket /\ m.id = i

\* The reload of a comment on an incident left since has the last ticket.
Superseded == \E m \in mail : m.ticket = ticket /\ m.id # selected

\* A selected incident does not stay "loading": its read ends, with a page or
\* an error, unless the selection moves on, or the reload of a comment on
\* another incident takes its ticket.  That last case is the only one in
\* which the code leaves the window "loading" for good.
SelectionLoads ==
    \A i \in Incidents :
        PageAwaited(i) ~> selected # i \/ ~view.loading \/ Superseded
=============================================================================
