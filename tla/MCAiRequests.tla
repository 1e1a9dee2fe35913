--------------------------- MODULE MCAiRequests ---------------------------
(* Two calls for AiRequests over two providers: a hosted one the request    *)
(* names and a local one after it in the fallback order.  A request is also *)
(* sent again, while it runs and after it was answered.                     *)
EXTENDS AiRequests

\* Only these fields of a descriptor are read by the gateway.
Descriptor(id, maxOutput, inPrice, outPrice) ==
    [id |-> id, context |-> 8, maxOutput |-> maxOutput, system |-> TRUE,
     inPrice |-> inPrice, outPrice |-> outPrice]

MCDeclared == <<"hosted", "spare">>
MCOrder == <<"spare", "hosted">>
MCLocal == {"spare"}
MCModels ==
    [hosted |-> <<Descriptor("large", 4, 3, 3), Descriptor("small", 2, 1, 1)>>,
     spare |-> <<Descriptor("small", 2, None, None)>>]

\* Output is the limit that bites: an answer of one unit leaves no room for a
\* request that may take two.
MCWindow == [input |-> 9, output |-> 2, cost |-> None]

Budget(output) == [input |-> 4, output |-> output, cost |-> None]
Explicit(p, m) == [kind |-> "explicit", provider |-> p, model |-> m]
Capable(output) ==
    [kind |-> "capability",
     need |-> [context |-> None, output |-> output, system |-> FALSE]]

Ask(id, class, selector, output, failover) ==
    [id |-> id, class |-> class, model |-> selector, input |-> 2,
     budget |-> Budget(output), failover |-> failover, wellFormed |-> TRUE,
     authorized |-> TRUE]

\* A public request that may move to the spare provider; another one that
\* needs the hosted provider's larger model; one the policy keeps local.
CallRequests ==
    { Ask("r1", "Public", Explicit("hosted", "small"), 2, TRUE),
      Ask("r2", "Public", Capable(None), 2, FALSE),
      Ask("r2", "Internal", Capable(None), 2, TRUE) }

\* Requests each check of the gateway refuses.
RefusedRequests ==
    { Ask("r1", "Public", Explicit("hosted", "other"), 2, TRUE),
      Ask("r1", "Internal", Explicit("spare", "small"), 2, TRUE),
      [Ask("r1", "Public", Capable(2), 2, TRUE) EXCEPT !.budget.cost = 1],
      [Ask("r2", "Public", Capable(2), 2, TRUE) EXCEPT !.wellFormed = FALSE],
      [Ask("r2", "Public", Capable(2), 2, TRUE) EXCEPT !.authorized = FALSE] }

MCRequests == CallRequests \cup RefusedRequests
MCUsages == {[input |-> 1, output |-> 1, cost |-> None]}
=============================================================================
