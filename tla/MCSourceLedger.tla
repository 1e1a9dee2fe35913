--------------------------- MODULE MCSourceLedger ---------------------------
(* Two stores over a file two workspaces share.  Inputs: a record and its  *)
(* replays with other evidence, one of them the evidence that a row of an  *)
(* elder file names, the same digest under another workspace, another      *)
(* digest under the native identifier, a record of another kind that       *)
(* reuses an evidence identifier, and a change.                            *)
EXTENDS SourceLedger, TLC

CONSTANTS s1, s2, ws, other

Item(id, kind, scope) == [id |-> id, kind |-> kind, scope |-> scope]
Record(kind, digest, native, scope, ids, change) ==
  [kind |-> kind, digest |-> digest, native |-> native, revision |-> "r", scope |-> scope,
   evidence |-> {Item(i, kind, scope) : i \in ids}, allowed |-> TRUE, change |-> change]

MCInputs ==
  { Record("alert", "d1", "n1", ws, {"e1"}, FALSE),
    Record("alert", "d1", "n1", ws, {"e2"}, FALSE),
    Record("alert", "d1", "n1", ws, {"old"}, FALSE),
    Record("alert", "d1", "n1", other, {"e3"}, FALSE),
    Record("alert", "d2", "n1", ws, {"e4"}, FALSE),
    Record("change", "d3", NoNativeId, ws, {"e1"}, TRUE) }

MCLegacy == <<"alert", "d1", "r">> :> [native |-> "n1", scope |-> ws, ids |-> {"old"}]
MCScopes == {ws, other}
=============================================================================
