------------------------------ MODULE Keychain ------------------------------
(***************************************************************************)
(* The commands of one application and what they share: the credential     *)
(* store of the operating system, a map from references to secrets of      *)
(* which only the presence matters here, and where each command is.        *)
(*                                                                         *)
(* Every operation on the store may fail.  A connector's reference and a   *)
(* provider's come from disjoint name spaces.                              *)
(***************************************************************************)
EXTENDS Policy, Sequences, FiniteSets

CONSTANTS
    Calls,       \* command invocations, each made at most once
    None

VARIABLES
    secrets,     \* the references that have a secret
    pc, cmd,     \* per call: where it is, the command it serves
    reply,       \* what its caller was told
    undone       \* history: what a failed or a lost step left undone

calls == <<pc, cmd, reply>>

Reference(owner, id) == <<owner, id>>

KeychainInit ==
    /\ pc = [c \in Calls |-> "idle"]
    /\ cmd = [c \in Calls |-> None]
    /\ reply = [c \in Calls |-> None]
    /\ undone = {}

Goto(c, phase) ==
    /\ pc' = [pc EXCEPT ![c] = phase]
    /\ UNCHANGED <<cmd, reply>>

Answer(c, code) ==
    /\ pc' = [pc EXCEPT ![c] = "done"]
    /\ reply' = [reply EXCEPT ![c] = code]
    /\ UNCHANGED cmd

At(c, phase) == pc[c] = phase

\* A command is admitted: a command that is refused changes nothing.
Admit(c, command, permitted, phase) ==
    /\ At(c, "idle")
    /\ cmd' = [cmd EXCEPT ![c] = command]
    /\ IF ~command.authorized
       THEN /\ pc' = [pc EXCEPT ![c] = "done"]
            /\ reply' = [reply EXCEPT ![c] = "permission_denied"]
       ELSE IF ~permitted
       THEN /\ pc' = [pc EXCEPT ![c] = "done"]
            /\ reply' = [reply EXCEPT ![c] = "policy_denied"]
       ELSE pc' = [pc EXCEPT ![c] = phase] /\ UNCHANGED reply
    /\ UNCHANGED <<secrets, undone>>

\* Deletes a secret, of which an absent one is no failure, and answers.
Forget(c, reference, code) ==
    \/ /\ secrets' = secrets \ {reference}
       /\ Answer(c, code)
       /\ UNCHANGED undone
    \/ /\ undone' = undone \cup {reference}
       /\ Answer(c, "credential_failed")
       /\ UNCHANGED secrets
=============================================================================
