------------------------------- MODULE Policy -------------------------------
(***************************************************************************)
(* The policy runtime every egress path asks: a versioned document of      *)
(* permitted data classes per destination, and in front of it the          *)
(* immutable rule that restricted data and secrets leave for no hosted     *)
(* service whatever the document says.  Decisions are the reason of a      *)
(* refusal, or "Allowed"; the version they carry is the document's.        *)
(***************************************************************************)
EXTENDS Naturals

DataClass == {"Public", "Internal", "Confidential", "Restricted"}
EgressDestination == {"HostedAi", "LocalModel", "LocalStorage", "Ui",
                      "ExternalIntegration", "AuditLog"}

EgressRequest ==
    [class : DataClass, destination : EgressDestination,
     classified : BOOLEAN, redacted : BOOLEAN, secret : BOOLEAN]

Verified(class, destination) ==
    [class |-> class, destination |-> destination,
     classified |-> TRUE, redacted |-> TRUE, secret |-> FALSE]

\* The destinations whose permitted classes a document lists.
Listed == {"HostedAi", "LocalModel", "ExternalIntegration", "AuditLog"}

PolicyDocument == [version : Nat, permits : [Listed -> SUBSET DataClass]]

Baseline ==
    LET internal == DataClass \ {"Restricted"}
    IN  [version |-> 1,
         permits |-> [d \in Listed |->
                        IF d = "HostedAi" THEN {"Public"} ELSE internal]]

\* PolicyRuntime::load: a document without a version is refused.
Loadable(document) == document.version # 0

NeverSent(r) ==
    /\ r.secret \/ r.class = "Restricted"
    /\ r.destination \in {"HostedAi", "ExternalIntegration", "AuditLog"}

EvaluateEgress(document, r) ==
    IF ~(r.classified /\ r.redacted)
    THEN "UnverifiedClassificationOrRedaction"
    ELSE IF NeverSent(r) THEN "ImmutableRestrictedData"
    ELSE IF r.destination \in Listed
            /\ r.class \notin document.permits[r.destination]
    THEN "DataClassNotPermitted"
    ELSE "Allowed"
=============================================================================
