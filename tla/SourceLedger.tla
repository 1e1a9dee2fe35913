---------------------------- MODULE SourceLedger ----------------------------
(***************************************************************************)
(* The ledger of source records: the SQLite tables source_records,         *)
(* source_record_evidence and change_source_record, and the stores that    *)
(* commands open over them (correlation/source_records.rs).  A store loads *)
(* what its workspace may see, then admits records one after the other;    *)
(* every check it makes reads its own copy or a statement outside the      *)
(* transaction that writes.  A change snapshot keeps its store open while  *)
(* the correlation context it asks for opens another, and a second process *)
(* may have the file open, so stores overlap.                              *)
(*                                                                         *)
(* A payload is known by its digest.  Scopes are the workspaces', one      *)
(* contains another only when they are equal.                              *)
(***************************************************************************)
EXTENDS Naturals, FiniteSets, Functions

CONSTANTS
  Stores,       \* what opens a store: the commands
  Scopes,       \* the workspaces
  Inputs,       \* what adapters hand to retain
  LegacyRows,   \* rows that migration 0003 left, by their keys
  NoNativeId,   \* a record without a native identifier
  MaxOpens,     \* bound: how often stores are opened
  MaxRetains    \* bound: how many retains are begun

ASSUME BoundsAssumption == MaxOpens \in Nat /\ MaxRetains \in Nat

VARIABLES
  rows,       \* source_records: identity -> record
  evidence,   \* source_record_evidence: identifier -> item
  bodies,     \* change_source_record: digests
  store,      \* per store, where its command stands and what it has loaded
  references, \* history: the references retain has returned
  outdated,   \* history: stores that loaded before another one wrote
  raced,      \* history: an outdated store has written
  opens, retains
ledgerVars == <<rows, evidence, bodies, store, references, outdated, raced, opens, retains>>

None == [none |-> TRUE]
Empty == [x \in {} |-> None]

(* The identity of a record, as the unique index and the key of the map    *)
(* have it; and what a row keeps besides.                                  *)
Key(in) == <<in.kind, in.digest, in.revision>>
Ids(in) == {e.id : e \in in.evidence}
Row(of, ids) == [native |-> of.native, scope |-> of.scope, ids |-> ids]

(* Two records of one native identifier and revision must be one digest.   *)
NativeClash(table, in) ==
  /\ in.native # NoNativeId
  /\ \E k \in DOMAIN table : /\ k[1] = in.kind /\ k[3] = in.revision
                             /\ table[k].native = in.native
                             /\ k[2] # in.digest

(* Rows of migration 0003 name evidence that nobody stored with them: an   *)
(* input that uses such an identifier is of the kind of the row.  The code *)
(* does not check this, adapters name evidence so.                         *)
ASSUME LegacyAssumption ==
  \A k \in DOMAIN LegacyRows :
    \A in \in Inputs : LegacyRows[k].ids \cap Ids(in) # {} => in.kind = k[1]

(* What a store of the workspace may load.                                 *)
EvidenceIn(scope) == Restrict(evidence, {i \in DOMAIN evidence : evidence[i].scope = scope})
RowsIn(scope) == Restrict(rows, {k \in DOMAIN rows : rows[k].scope = scope})

(* A row's evidence, where it is found, is of the row's kind and scope.    *)
Loadable(k, row, items) ==
  \A i \in row.ids \cap DOMAIN items : /\ items[i].kind = k[1]
                                       /\ items[i].scope = row.scope

(* What prepare demands of an input, beyond its timestamps and identities. *)
Admissible(in, scope) ==
  /\ in.scope = scope
  /\ in.allowed
  /\ in.evidence # {}
  /\ \A e \in in.evidence : e.kind = in.kind /\ e.scope = in.scope
  /\ Cardinality(Ids(in)) = Cardinality(in.evidence)

(* What retain returns (source_record_ref).                                *)
Reference(in, row) ==
  [key |-> Key(in), native |-> row.native, scope |-> row.scope, ids |-> row.ids]

(* What retain checks in the store's own copy.                             *)
Consistent(mem, in) ==
  /\ \A e \in in.evidence : e.id \in DOMAIN mem.evidence => mem.evidence[e.id] = e
  /\ Key(in) \in DOMAIN mem.rows =>
       mem.rows[Key(in)].native = in.native /\ mem.rows[Key(in)].scope = in.scope
  /\ ~NativeClash(mem.rows, in)

\* Mutant: a replay names only its own evidence.
MergedAnew(mem, in) == Row(in, Ids(in))

Merged(mem, in) ==
  IF Key(in) \in DOMAIN mem.rows
  THEN Row(mem.rows[Key(in)], mem.rows[Key(in)].ids \cup Ids(in))
  ELSE Row(in, Ids(in))

-----------------------------------------------------------------------------
ClosedStore == [at |-> "closed", scope |-> None, rows |-> Empty, evidence |-> Empty, input |-> None]

LedgerInit ==
  /\ rows \in {Empty, LegacyRows}
  /\ evidence = Empty /\ bodies = {}
  /\ store = [s \in Stores |-> ClosedStore]
  /\ references = {} /\ outdated = {} /\ raced = FALSE
  /\ opens = 0 /\ retains = 0

(* What store s is next; its workspace stays.                              *)
Becomes(s, at, mem, items, in) ==
  store' = [store EXCEPT ![s] = [at |-> at, scope |-> store[s].scope, rows |-> mem,
                                 evidence |-> items, input |-> in]]

Moves(s, at) == Becomes(s, at, store[s].rows, store[s].evidence, store[s].input)

(* Opening a store: the evidence of the workspace is read first, its rows  *)
(* by a second statement.                                                  *)
Open(s, scope) ==
  /\ store[s].at = "closed" /\ opens < MaxOpens
  /\ store' = [store EXCEPT ![s] = [at |-> "loading", scope |-> scope, rows |-> Empty,
                                    evidence |-> EvidenceIn(scope), input |-> None]]
  /\ outdated' = outdated \ {s}
  /\ opens' = opens + 1
  /\ UNCHANGED <<rows, evidence, bodies, references, raced, retains>>

LoadRows(s) ==
  /\ store[s].at = "loading"
  /\ LET seen == RowsIn(store[s].scope)
     IN IF \A k \in DOMAIN seen : Loadable(k, seen[k], store[s].evidence)
        THEN Becomes(s, "ready", seen, store[s].evidence, None)
        ELSE store' = [store EXCEPT ![s] = ClosedStore]
  /\ UNCHANGED <<rows, evidence, bodies, references, outdated, raced, opens, retains>>

Retain(s, in) ==
  /\ store[s].at = "ready" /\ retains < MaxRetains
  /\ retains' = retains + 1
  /\ IF Admissible(in, store[s].scope) /\ Consistent(store[s], in)
     THEN Becomes(s, "native", store[s].rows, store[s].evidence, in)
     ELSE UNCHANGED store
  /\ UNCHANGED <<rows, evidence, bodies, references, outdated, raced, opens>>

(* persist looks for another digest under the native identifier, then for  *)
(* the scope of a row of the same identity.                                *)
CheckNative(s) ==
  /\ store[s].at = "native"
  /\ Moves(s, IF NativeClash(rows, store[s].input) THEN "ready" ELSE "scope")
  /\ UNCHANGED <<rows, evidence, bodies, references, outdated, raced, opens, retains>>

ForeignRow(in) == Key(in) \in DOMAIN rows /\ rows[Key(in)].scope # in.scope

CheckScope(s) ==
  /\ store[s].at = "scope"
  /\ Moves(s, IF ForeignRow(store[s].input) THEN "ready" ELSE "writing")
  /\ UNCHANGED <<rows, evidence, bodies, references, outdated, raced, opens, retains>>

WithRow(table, k0, row) ==
  [k \in DOMAIN table \cup {k0} |-> IF k = k0 THEN row ELSE table[k]]

Inserted(in, row) ==
  IF Key(in) \in DOMAIN rows \/ NativeClash(rows, in) THEN rows
  ELSE WithRow(rows, Key(in), row)

Updated(table, in, ids) ==
  IF Key(in) \in DOMAIN table THEN [table EXCEPT ![Key(in)] = Row(@, ids)] ELSE table

\* Mutant: an identifier already stored is left as it is, whatever it names.
SameEvidenceIgnored(in) == TRUE

SameEvidence(in) ==
  \A e \in in.evidence : e.id \in DOMAIN evidence => evidence[e.id] = e

WithEvidence(items, in) ==
  [i \in DOMAIN items \cup Ids(in) |->
     IF i \in DOMAIN items THEN items[i] ELSE CHOOSE e \in in.evidence : e.id = i]

Write(s) ==
  /\ store[s].at = "writing"
  /\ LET in == store[s].input
         row == Merged(store[s], in)
     IN IF SameEvidence(in)
        THEN /\ rows' = Updated(Inserted(in, row), in, row.ids)
             /\ evidence' = WithEvidence(evidence, in)
             /\ Becomes(s, IF in.change THEN "body" ELSE "ready",
                        WithRow(store[s].rows, Key(in), row),
                        WithEvidence(store[s].evidence, in), in)
             /\ references' = references \cup {Reference(in, row)}
             /\ outdated' = outdated \cup {t \in Stores \ {s} : store[t].at # "closed"}
             /\ raced' = (raced \/ s \in outdated)
        ELSE Moves(s, "ready") /\ UNCHANGED <<rows, evidence, references, outdated, raced>>
  /\ UNCHANGED <<bodies, opens, retains>>

(* The body of a change is a row of its own, in a later transaction.       *)
PersistBody(s) ==
  /\ store[s].at = "body"
  /\ bodies' = bodies \cup {store[s].input.digest}
  /\ Moves(s, "ready")
  /\ UNCHANGED <<rows, evidence, references, outdated, raced, opens, retains>>

(* Another connection holds the file past the busy timeout: the statement  *)
(* fails and the adapter reports the source.                               *)
Busy(s) ==
  /\ store[s].at \in {"native", "scope", "writing", "body"}
  /\ Moves(s, "ready")
  /\ UNCHANGED <<rows, evidence, bodies, references, outdated, raced, opens, retains>>

(* The command ends, or the process does: the copy is gone, a transaction  *)
(* not committed is undone.                                                *)
Close(s) ==
  /\ store[s].at # "closed"
  /\ store' = [store EXCEPT ![s] = ClosedStore]
  /\ outdated' = outdated \ {s}
  /\ UNCHANGED <<rows, evidence, bodies, references, raced, opens, retains>>

LedgerNext ==
  \E s \in Stores :
    \/ \E scope \in Scopes : Open(s, scope)
    \/ LoadRows(s)
    \/ \E in \in Inputs : Retain(s, in)
    \/ CheckNative(s)
    \/ CheckScope(s)
    \/ Write(s)
    \/ PersistBody(s)
    \/ Busy(s)
    \/ Close(s)

LedgerSpec == LedgerInit /\ [][LedgerNext]_ledgerVars

-----------------------------------------------------------------------------
(* However stores overlap, no write makes the ledger unreadable: a store   *)
(* that a workspace opens now accepts every row of it.  One row refused    *)
(* fails the whole load, and with it every snapshot                        *)
(* (load_connection, validate_loaded_record).                              *)
LedgerOpens ==
  \A k \in DOMAIN rows : Loadable(k, rows[k], EvidenceIn(rows[k].scope))

(* A reference that retain returned is usable: its row is there, names the *)
(* evidence the reference names, and the evidence is stored.               *)
Usable(r) ==
  /\ r.key \in DOMAIN rows
  /\ rows[r.key].native = r.native /\ rows[r.key].scope = r.scope
  /\ r.ids \subseteq rows[r.key].ids

(* As long as no store has written after another one it did not see wrote, *)
(* every reference stays usable, across replays, restarts and failures.    *)
ReferencesUsable == ~raced => \A r \in references : Usable(r)
=============================================================================
