----------------------------- MODULE Providers -----------------------------
(***************************************************************************)
(* The AI providers an operator configures.  The configuration lives in    *)
(* the memory of the application, behind a mutex each operation holds from *)
(* its first read to its last write; credentials live in the keychain and  *)
(* outlive it.  A probe holds the mutex for its two ends only.             *)
(***************************************************************************)
EXTENDS Keychain, SequencesExt

CONSTANTS
    ProviderIds,
    Healths       \* what a probe may find

ASSUME HealthsAssumption == None \notin Healths \cup {"unknown"}

VARIABLES
    providers,    \* per identifier None, or its health
    order         \* the fallback order

providerVars == <<providers, order>>

Configured == {p \in ProviderIds : providers[p] # None}

NoProviders == [p \in ProviderIds |-> None]

ProvidersInit == providers = NoProviders /\ order = <<>>

Slot(p) == Reference("provider", p)

\* authorize_ai; policy is asked of the answer only.
StartProvider(c, command) ==
    /\ Admit(c, command, TRUE, command.op)
    /\ UNCHANGED providerVars

\* validate_configuration, then a credential that is not blank.  The answer
\* asks the keychain again, and the configuration stands when that fails.
Configure(c) ==
    /\ At(c, "configure")
    /\ LET q == cmd[c]
       IN  \/ ~q.valid /\ Answer(c, "invalid") /\ UNCHANGED <<secrets, providers>>
           \/ /\ q.valid /\ q.credential
              /\ Answer(c, "credential_failed")
              /\ UNCHANGED <<secrets, providers>>
           \/ /\ q.valid
              /\ secrets' = IF q.credential THEN secrets \cup {Slot(q.id)}
                                            ELSE secrets
              /\ providers' = [providers EXCEPT ![q.id] = "unknown"]
              /\ Answer(c, "ok") \/ Answer(c, "credential_failed")
    /\ UNCHANGED <<undone, order>>

SetProviderOrder(c) ==
    /\ At(c, "order")
    /\ LET ids == cmd[c].ids
       IN  IF ToSet(ids) \subseteq Configured /\ IsInjective(ids)
           THEN order' = ids /\ Answer(c, "ok")
           ELSE Answer(c, "invalid") /\ UNCHANGED order
    /\ UNCHANGED <<secrets, undone, providers>>

\* The adapter is built from the configuration of this moment.
ProbeLoad(c) ==
    /\ At(c, "probe_provider")
    /\ IF cmd[c].id \in Configured
       THEN Goto(c, "probing") \/ Answer(c, "invalid")
       ELSE Answer(c, "not_found")
    /\ UNCHANGED <<secrets, undone, providerVars>>

\* The health is written to whatever configuration now has the identifier;
\* the answer may then fail on the keychain.
ProbeReply(c) ==
    LET p == cmd[c].id
    IN  /\ At(c, "probing")
        /\ \E h \in Healths :
              /\ providers' = IF p \in Configured
                              THEN [providers EXCEPT ![p] = h] ELSE providers
              /\ Answer(c, IF p \in Configured THEN "ok" ELSE "not_found")
                     \/ Answer(c, "credential_failed")
        /\ UNCHANGED <<secrets, undone, order>>

\* Mutant: the order still names the provider.
RemoveProviderKeepsOrder(c) ==
    LET p == cmd[c].id
    IN  /\ At(c, "remove_provider")
        /\ secrets' = secrets \ {Slot(p)}
        /\ providers' = [providers EXCEPT ![p] = None]
        /\ Answer(c, "ok")
        /\ UNCHANGED <<undone, order>>

\* The order without p, which it lists at most once.
Dropped(ids, p) ==
    IF p \in ToSet(ids)
    THEN RemoveAt(ids, CHOOSE i \in DOMAIN ids : ids[i] = p) ELSE ids

\* The credential goes first: a failure to delete it keeps the provider.
RemoveProvider(c) ==
    LET p == cmd[c].id
    IN  /\ At(c, "remove_provider")
        /\ IF p \notin Configured
           THEN /\ Answer(c, "not_found")
                /\ UNCHANGED <<secrets, undone, providerVars>>
           ELSE /\ Forget(c, Slot(p), "ok")
                /\ IF undone' = undone
                   THEN /\ providers' = [providers EXCEPT ![p] = None]
                        /\ order' = Dropped(order, p)
                   ELSE UNCHANGED providerVars

ProviderStep(c) ==
    \/ Configure(c) \/ SetProviderOrder(c)
    \/ ProbeLoad(c) \/ ProbeReply(c)
    \/ RemoveProvider(c)

-----------------------------------------------------------------------------
(* Properties. *)

\* What build_registry needs of the configuration, or every request fails:
\* the fallback order names configured providers, each once, whatever is
\* configured, removed or forgotten by a restart in between.
OrderUsable ==
    /\ ToSet(order) \subseteq Configured
    /\ IsInjective(order)
=============================================================================
