--------------------------- MODULE SignalGrouping ---------------------------
(***************************************************************************)
(* Components of signals (correlation/grouping.rs): signals that share an  *)
(* exact target belong together, and for the pairs that share none the     *)
(* topology resolver is asked, target by target.  What it answers is       *)
(* recorded pair after pair: an identifier whose path was accepted and     *)
(* that is then given another content stands for nothing.                  *)
(***************************************************************************)
EXTENDS Naturals, Sequences, FiniteSets, SequencesExt, SignalIdentity

CONSTANTS
  Relation(_, _),  \* what the resolver answers for two targets: a path, NoPath or Failed
  TargetOrder      \* the targets in the order of their kinds and identifiers

NoPath == [none |-> TRUE]
Failed == [failed |-> TRUE]

SharesExact(a, b) == ExactTargets(a) \cap b.targets # {}

(* Which classes of a partition two members or a set of members join.      *)
Joined(classes, members) ==
  LET hit == {c \in classes : c \cap members # {}}
  IN (classes \ hit) \cup (IF hit = {} THEN {} ELSE {UNION hit})

SharedTargets(signals) ==
  {t \in UNION {ExactTargets(s) : s \in signals} :
     Cardinality({s \in signals : t \in s.targets}) >= 2}
Holders(signals, t) == {s.id : s \in {x \in signals : t \in x.targets}}

(* The questions put to the resolver: pairs that share nothing exactly,    *)
(* target by target.                                                       *)
Questions(signals) ==
  LET pairs == {p \in signals \X signals : p[1].id < p[2].id /\ ~SharesExact(p[1], p[2])}
  IN UNION {{[a |-> p[1], b |-> p[2], l |-> t[1], r |-> t[2]]
             : t \in {u \in p[1].targets \X p[2].targets : u[1] # u[2]}} : p \in pairs}

NothingSeen == [paths |-> {}, ambiguous |-> {}, links |-> {}, status |-> "fresh"]
Worse(old, new) == IF old = "unverified" THEN old ELSE new

Accepted(seen, q, path) ==
  [seen EXCEPT !.paths = @ \cup {path}, !.links = @ \cup {<<q.a.id, q.b.id, path.id>>}]

\* Mutant: the first content of an identifier stands, whatever comes later.
FirstStands(seen, q, path) ==
  IF path.limited THEN [seen EXCEPT !.status = Worse(@, "unavailable")]
  ELSE IF \E p \in seen.paths : p.id = path.id
       THEN [seen EXCEPT !.links = @ \cup {<<q.a.id, q.b.id, path.id>>}]
       ELSE Accepted(seen, q, path)

Admitted(seen, q, path) ==
  IF path.id \in seen.ambiguous THEN [seen EXCEPT !.status = "unverified"]
  ELSE IF \E p \in seen.paths : p.id = path.id /\ p # path
       THEN [seen EXCEPT !.paths = {p \in @ : p.id # path.id},
                         !.ambiguous = @ \cup {path.id}, !.status = "unverified"]
  ELSE IF path.limited THEN [seen EXCEPT !.status = Worse(@, "unavailable")]
  ELSE IF {q.l.id, q.r.id} \subseteq path.nodes THEN Accepted(seen, q, path)
  ELSE [seen EXCEPT !.status = "unverified"]

Answer(q) == Relation(q.l, q.r)

Observe(seen, q) ==
  CASE Answer(q) = NoPath -> [seen EXCEPT !.status = Worse(@, "unavailable")]
    [] Answer(q) = Failed -> [seen EXCEPT !.status = "unverified"]
    [] OTHER              -> Admitted(seen, q, Answer(q))

(* The loops: by the first signal, the second, their targets in order.     *)
RankIn(t) == CHOOSE i \in DOMAIN TargetOrder : TargetOrder[i] = t
Before(q, r) ==
  \/ q.a.id < r.a.id
  \/ q.a.id = r.a.id /\ q.b.id < r.b.id
  \/ q.a.id = r.a.id /\ q.b.id = r.b.id /\ RankIn(q.l) < RankIn(r.l)
  \/ q.a.id = r.a.id /\ q.b.id = r.b.id /\ q.l = r.l /\ RankIn(q.r) < RankIn(r.r)
LastAsked(asked) == CHOOSE q \in asked : \A r \in asked : ~Before(q, r)

After(asked) ==
  LET after[sofar \in SUBSET asked] ==
        IF sofar = {} THEN NothingSeen
        ELSE LET last == LastAsked(sofar) IN Observe(after[sofar \ {last}], last)
  IN after[asked]

Seen(signals) == After(Questions(signals))

(* Links of a path that turned out ambiguous join nobody.                  *)
Standing(seen) == {l \in seen.links : l[3] \in {p.id : p \in seen.paths}}

TopologyReasons(seen) ==
  {[target |-> NoPath, path |-> p,
    ids |-> UNION {{l[1], l[2]} : l \in {x \in Standing(seen) : x[3] = p}}]
   : p \in {l[3] : l \in Standing(seen)}}

ExactReasons(signals) ==
  {[target |-> t, path |-> "", ids |-> Holders(signals, t)] : t \in SharedTargets(signals)}

Classes(signals, seen) ==
  FoldSet(LAMBDA m, classes : Joined(classes, m), {{s.id} : s \in signals},
          {Holders(signals, t) : t \in SharedTargets(signals)}
            \cup {{l[1], l[2]} : l \in Standing(seen)})

(* Components of two and more, with the reasons that lie inside them.      *)
Components(signals, seen) ==
  LET reasons == ExactReasons(signals) \cup TopologyReasons(seen)
  IN {[ids |-> c, reasons |-> {r \in reasons : r.ids \subseteq c}]
      : c \in {x \in Classes(signals, seen) :
                 Cardinality(x) >= 2 /\ \E r \in reasons : r.ids \subseteq x}}

Grouping(signals) ==
  LET seen == Seen(signals)
  IN [components |-> Components(signals, seen), paths |-> seen.paths, status |-> seen.status]

-----------------------------------------------------------------------------
(* What grouping means: the closure of being related.  A path relates who  *)
(* asked for it unless, after one that connects, its identifier is given   *)
(* another content; what is refused by itself is not remembered.           *)
IsPath(q) == Answer(q) \notin {NoPath, Failed}
Connects(q) == IsPath(q) /\ ~Answer(q).limited /\ {q.l.id, q.r.id} \subseteq Answer(q).nodes
Overrules(r, p) ==
  Before(p, r) /\ IsPath(r) /\ Answer(r).id = Answer(p).id /\ Answer(r) # Answer(p)
Overruled(asked, id) ==
  \E p, r \in asked : Connects(p) /\ Answer(p).id = id /\ Overrules(r, p)
Linking(asked) == {q \in asked : Connects(q) /\ ~Overruled(asked, Answer(q).id)}

Related(signals, linking) ==
  {<<p[1].id, p[2].id>> : p \in {x \in signals \X signals : SharesExact(x[1], x[2])}}
    \cup {<<q.a.id, q.b.id>> : q \in linking}

(* A group is shown when something explains it: a target that two of it    *)
(* share, or a path that joins nobody elsewhere.                           *)
Explained(signals, linking, g) ==
  \/ \E x, y \in signals : x # y /\ {x.id, y.id} \subseteq g /\ SharesExact(x, y)
  \/ \E q \in linking : \A r \in linking :
       Answer(r).id = Answer(q).id => {r.a.id, r.b.id} \subseteq g

(* The classes: the smallest sets that no relation leads out of.           *)
Whole(ids, related) ==
  {g \in SUBSET ids : g # {} /\ \A r \in related : r[1] \in g <=> r[2] \in g}
ReferenceGroups(signals) ==
  LET linking == Linking(Questions(signals))
      related == Related(signals, linking)
      whole == Whole({s.id : s \in signals}, related)
  IN {g \in whole : /\ Cardinality(g) >= 2 /\ Explained(signals, linking, g)
                    /\ ~\E h \in whole : h # g /\ h \subseteq g}
=============================================================================
