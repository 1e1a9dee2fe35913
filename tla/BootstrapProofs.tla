--------------------------- MODULE BootstrapProofs ---------------------------
(***************************************************************************)
(* However many launches open one file beside one another and wherever     *)
(* they are stopped, a launch fails only beside another one, and one that  *)
(* opens has loaded documents that belong together.                        *)
(***************************************************************************)
EXTENDS Bootstrap, SequenceTheorems, TLAPS

-----------------------------------------------------------------------------
(* The inductive invariant. *)

Migrating == {"batch", "select", "insert"}
Loading == {"principal", "create", "load"}
Loaded == {"policy", "seed", "audit", "rebuild", "open"}
Phase == {"idle", "failed", "stopped"} \cup Migrating \cup Loading \cup Loaded

Documents == Launches \cup {Founder}

DataInv ==
    /\ versions \subseteq Migrations
    /\ policy \in BOOLEAN
    /\ rows = [t \in TableNames |-> rows["principals"]]
    /\ rows["principals"] \in Seq(Documents)

LaunchType ==
    /\ pc \in [Launches -> Phase \X Nat]
    /\ session = [l \in Launches |-> session[l]]
    /\ \A l \in Launches : session[l] = [t \in TableNames |-> session[l][t]]

\* Two launches that are opening know of each other.
OverlapInv ==
    \A l, m \in Launches :
        l # m /\ Opening(l) /\ Opening(m) => l \in overlapped

\* What a launch has read may be stale only beside another one.
ReadInv(l, phase, n) ==
    /\ phase = "insert" /\ n \in versions => l \in overlapped
    /\ phase = "seed" /\ policy => l \in overlapped
    /\ phase = "failed" => l \in overlapped

\* What its phase says of the database.
SchemaInv(phase, n) ==
    /\ phase \in Migrating => n \in Migrations /\ 1 .. n - 1 \subseteq versions
    /\ phase \in {"select", "insert"} /\ n = LastVersion => usage # "absent"
    /\ phase \in Loading \cup Loaded => versions = Migrations /\ usage # "absent"
    /\ phase = "open" => usage = "nullable"

\* What it has loaded is the first document of each table, or its own.
SessionInv(l, phase, n) ==
    /\ phase = "load" =>
          /\ n \in 2 .. 5
          /\ rows["principals"] # <<>>
          /\ \A k \in 1 .. n - 1 :
                session[l][Tables[k]] = Head(rows["principals"])
    /\ phase \in Loaded =>
          \A t \in TableNames : session[l][t] = session[l]["principals"]

LaunchInv(l) ==
    /\ ReadInv(l, pc[l][1], pc[l][2])
    /\ SchemaInv(pc[l][1], pc[l][2])
    /\ SessionInv(l, pc[l][1], pc[l][2])

IInv == /\ DataInv /\ LaunchType /\ OverlapInv
        /\ \A l \in Launches : LaunchInv(l)

LEMMA TableFacts ==
    /\ DOMAIN Tables = 1 .. 5 /\ Len(Tables) = 5
    /\ TableNames = {"principals", "organizations", "teams", "workspaces",
                     "memberships"}
    /\ \A n \in 1 .. 5 : Tables[n] \in TableNames
    /\ Tables[1] = "principals"
    /\ \A t \in TableNames : \E n \in 1 .. 5 : t = Tables[n]
<1>1. DOMAIN Tables = 1 .. 5 /\ Len(Tables) = 5
  BY DEF Tables
<1>2. /\ Tables[1] = "principals" /\ Tables[2] = "organizations"
      /\ Tables[3] = "teams" /\ Tables[4] = "workspaces"
      /\ Tables[5] = "memberships"
  BY DEF Tables
<1>3. \A n \in 1 .. 5 : n = 1 \/ n = 2 \/ n = 3 \/ n = 4 \/ n = 5
  OBVIOUS
<1>4. TableNames = {Tables[n] : n \in 1 .. 5}
  BY <1>1 DEF TableNames
<1> QED BY <1>1, <1>2, <1>3, <1>4

LEMMA InitInv == Init => IInv
<1> SUFFICES ASSUME Init PROVE IInv
  OBVIOUS
<1>1. PICK elder \in Elders \cup {0} :
          /\ versions = 1 .. elder
          /\ rows = [t \in TableNames |->
                        IF elder = 0 THEN <<>> ELSE <<Founder>>]
          /\ policy = (elder # 0)
  BY DEF Init
<1>2. elder \in Nat /\ elder <= LastVersion /\ LastVersion \in Nat
  BY VersionAssumption
<1>3. "principals" \in TableNames
  BY TableFacts
<1>4. DataInv
  <2>1. versions \subseteq Migrations
    BY <1>1, <1>2 DEF Migrations
  <2>2. policy \in BOOLEAN
    BY <1>1
  <2>3. rows["principals"] \in Seq(Documents)
    <3>1. Founder \in Documents
      BY DEF Documents
    <3>2. <<>> \in Seq(Documents) /\ <<Founder>> \in Seq(Documents)
      BY <3>1
    <3> QED BY <1>1, <1>3, <3>2
  <2> QED BY <1>1, <1>3, <2>1, <2>2, <2>3 DEF DataInv
<1>5. pc = [l \in Launches |-> <<"idle", 0>>]
  BY DEF Init
<1>6. LaunchType
  BY <1>5 DEF Init, LaunchType, Phase, NoSession
<1>7. \A l \in Launches : pc[l][1] = "idle"
  BY <1>5
<1>8. OverlapInv
  BY <1>7 DEF OverlapInv, Opening
<1>9. \A l \in Launches : LaunchInv(l)
  BY <1>7 DEF LaunchInv, ReadInv, SchemaInv, SessionInv, Migrating, Loading,
              Loaded
<1> QED BY <1>4, <1>6, <1>8, <1>9 DEF IInv

-----------------------------------------------------------------------------
(* What one launch does to another's invariant. *)

\* Every step: the database grows, and what another launch could have read
\* otherwise changes only while that one is opening beside this one.
Grows(l) ==
    /\ versions \subseteq versions' /\ versions' \subseteq Migrations
    /\ policy' \in BOOLEAN /\ (policy => policy')
    /\ usage # "absent" => usage' # "absent"
    /\ usage = "nullable" => usage' = "nullable"
    /\ rows' = [t \in TableNames |-> rows'["principals"]]
    /\ rows'["principals"] \in Seq(Documents)
    /\ rows["principals"] # <<>> =>
          /\ rows'["principals"] # <<>>
          /\ Head(rows'["principals"]) = Head(rows["principals"])
    /\ overlapped \subseteq overlapped'
    /\ \A m \in Launches \ {l} : pc'[m] = pc[m] /\ session'[m] = session[m]
    /\ LaunchType'

\* A step of a launch that is opening, or starts to.
LEMMA StepKeeps ==
    ASSUME IInv, NEW l \in Launches, Grows(l), LaunchInv(l)',
           \/ Opening(l)
           \/ UNCHANGED <<versions, policy>>,
           Opening(l)' /\ ~Opening(l) =>
              \A m \in Launches \ {l} :
                 Opening(m) => l \in overlapped' /\ m \in overlapped'
    PROVE  IInv'
<1>1. DataInv' /\ LaunchType'
  BY DEF Grows, DataInv
<1>2. OverlapInv'
  <2>1. \A m \in Launches \ {l} : Opening(m)' <=> Opening(m)
    BY DEF Grows, Opening
  <2>2. overlapped \subseteq overlapped'
    BY DEF Grows
  <2> QED BY <2>1, <2>2 DEF IInv, OverlapInv
<1>3. ASSUME NEW m \in Launches \ {l} PROVE LaunchInv(m)'
  <2>1. pc'[m] = pc[m] /\ session'[m] = session[m]
    BY DEF Grows
  <2>2. LaunchInv(m)
    BY DEF IInv
  <2>3. ReadInv(m, pc[m][1], pc[m][2])'
    <3>1. CASE UNCHANGED <<versions, policy>>
      BY <2>1, <2>2, <3>1 DEF LaunchInv, ReadInv, Grows
    <3>2. CASE Opening(l)
      <4>1. Opening(m) => m \in overlapped'
        BY <3>2 DEF IInv, OverlapInv, Grows
      <4> QED BY <2>1, <2>2, <4>1 DEF LaunchInv, ReadInv, Grows, Opening
    <3> QED BY <3>1, <3>2
  <2>4. SchemaInv(pc[m][1], pc[m][2])'
    BY <2>1, <2>2 DEF LaunchInv, SchemaInv, Grows
  <2>5. SessionInv(m, pc[m][1], pc[m][2])'
    BY <2>1, <2>2 DEF LaunchInv, SessionInv, Grows
  <2> QED BY <2>1, <2>3, <2>4, <2>5 DEF LaunchInv
<1> QED BY <1>1, <1>2, <1>3 DEF IInv

-----------------------------------------------------------------------------
(* The steps. *)

\* A step that leaves the database alone.
LEMMA QuietGrows ==
    ASSUME IInv, NEW l \in Launches, UNCHANGED database,
           overlapped \subseteq overlapped',
           NEW phase \in Phase, NEW n \in Nat, pc' = [pc EXCEPT ![l] = <<phase, n>>],
           UNCHANGED session
    PROVE  Grows(l) /\ pc'[l] = <<phase, n>>
<1>1. LaunchType' /\ pc'[l] = <<phase, n>>
  BY DEF IInv, LaunchType
<1>2. \A m \in Launches \ {l} : pc'[m] = pc[m] /\ session'[m] = session[m]
  BY DEF IInv, LaunchType
<1> QED BY <1>1, <1>2 DEF Grows, IInv, DataInv, database

LEMMA StartKeeps == ASSUME IInv, NEW l \in Launches, Start(l) PROVE IInv'
<1>1. Grows(l) /\ pc'[l] = <<"batch", 1>>
  BY QuietGrows DEF Start, Goto, Phase, Migrating
<1>2. LaunchInv(l)'
  BY <1>1, VersionAssumption DEF LaunchInv, ReadInv, SchemaInv, SessionInv,
     Migrating, Loading, Loaded, Migrations
<1>3. UNCHANGED <<versions, policy>>
  BY DEF Start, database
<1>4. ASSUME NEW m \in Launches \ {l}, Opening(m)
      PROVE  l \in overlapped' /\ m \in overlapped'
  <2>1. m \in {k \in Launches : Opening(k)}
    BY <1>4
  <2> QED BY <2>1 DEF Start
<1> QED BY <1>1, <1>2, <1>3, <1>4, StepKeeps

\* A launch that reads, fails or stops.
LEMMA ReadKeeps ==
    ASSUME IInv, NEW l \in Launches, Opening(l), UNCHANGED database,
           UNCHANGED <<session, overlapped>>,
           NEW phase \in Phase, NEW n \in Nat, pc' = [pc EXCEPT ![l] = <<phase, n>>],
           ReadInv(l, phase, n), SchemaInv(phase, n), SessionInv(l, phase, n)
    PROVE  IInv'
<1>1. Grows(l) /\ pc'[l] = <<phase, n>>
  BY QuietGrows
<1>2. LaunchInv(l)'
  BY <1>1 DEF LaunchInv, ReadInv, SchemaInv, SessionInv, database
<1>3. Opening(l)
  OBVIOUS
<1> QED BY <1>1, <1>2, <1>3, StepKeeps

LEMMA NextMigration ==
    ASSUME NEW n \in Migrations, 1 .. n - 1 \subseteq versions,
           n \in versions, versions \subseteq Migrations, NEW l,
           n = LastVersion => usage # "absent"
    PROVE  /\ After(n)[1] \in {"principal", "batch"} /\ After(n)[2] \in Nat
           /\ After(n) = <<After(n)[1], After(n)[2]>>
           /\ ReadInv(l, After(n)[1], After(n)[2])
           /\ SchemaInv(After(n)[1], After(n)[2])
           /\ SessionInv(l, After(n)[1], After(n)[2])
<1>1. CASE n = LastVersion
  <2>1. versions = Migrations
    <3>1. \A k \in Migrations : k = n \/ k \in 1 .. n - 1
      BY <1>1, VersionAssumption DEF Migrations
    <3> QED BY <3>1
  <2> QED BY <1>1, <2>1 DEF After, ReadInv, SchemaInv, SessionInv, Migrating,
             Loading, Loaded
<1>2. CASE n # LastVersion
  <2>1. n + 1 \in Migrations /\ 1 .. (n + 1) - 1 \subseteq versions
    BY <1>2, VersionAssumption DEF Migrations
  <2> QED BY <1>2, <2>1 DEF After, ReadInv, SchemaInv, SessionInv, Migrating,
             Loading, Loaded, Migrations
<1> QED BY <1>1, <1>2

LEMMA BatchKeeps == ASSUME IInv, NEW l \in Launches, Batch(l) PROVE IInv'
<1> DEFINE n == pc[l][2]
<1>1. /\ n \in Migrations /\ n \in Nat /\ 1 .. n - 1 \subseteq versions
      /\ Opening(l)
  BY DEF Batch, At, IInv, LaunchInv, SchemaInv, Migrating, Migrations, Opening
<1>2. pc' = [pc EXCEPT ![l] = <<"select", n>>]
  BY DEF Batch, Goto
<1>3. LaunchType' /\ pc'[l] = <<"select", n>>
  BY <1>1, <1>2 DEF IInv, LaunchType, Batch, Phase, Migrating
<1>4. /\ UNCHANGED <<versions, rows, policy, session, overlapped>>
      /\ usage # "absent" => usage' = usage
      /\ n = LastVersion => usage' # "absent"
  BY DEF Batch
<1>5. \A m \in Launches \ {l} : pc'[m] = pc[m]
  BY <1>2 DEF IInv, LaunchType
<1>6. Grows(l)
  BY <1>3, <1>4, <1>5 DEF Grows, IInv, DataInv
<1>7. LaunchInv(l)'
  BY <1>1, <1>3, <1>4 DEF LaunchInv, ReadInv, SchemaInv, SessionInv, Migrating,
     Loading, Loaded
<1> QED BY <1>1, <1>6, <1>7, StepKeeps

LEMMA SelectKeeps == ASSUME IInv, NEW l \in Launches, Select(l) PROVE IInv'
<1> DEFINE n == pc[l][2]
<1>1. /\ n \in Migrations /\ n \in Nat /\ 1 .. n - 1 \subseteq versions
      /\ n = LastVersion => usage # "absent"
      /\ Opening(l)
  BY DEF Select, At, IInv, LaunchInv, SchemaInv, Migrating, Migrations, Opening
<1>2. UNCHANGED database /\ UNCHANGED <<session, overlapped>>
  BY DEF Select
<1>3. CASE n \in versions
  <2> DEFINE a == After(n)
  <2>1. versions \subseteq Migrations
    BY DEF IInv, DataInv
  <2>2. /\ a[1] \in {"principal", "batch"} /\ a[2] \in Nat
        /\ a = <<a[1], a[2]>>
        /\ ReadInv(l, a[1], a[2]) /\ SchemaInv(a[1], a[2])
        /\ SessionInv(l, a[1], a[2])
    BY <1>1, <1>3, <2>1, NextMigration
  <2>3. pc' = [pc EXCEPT ![l] = a]
    BY <1>3 DEF Select
  <2>4. a[1] \in Phase
    BY <2>2 DEF Phase, Migrating, Loading
  <2> HIDE DEF a
  <2>5. pc' = [pc EXCEPT ![l] = <<a[1], a[2]>>]
    BY <2>2, <2>3
  <2> QED BY <1>1, <1>2, <2>2, <2>4, <2>5, ReadKeeps
<1>4. CASE n \notin versions
  <2>1. pc' = [pc EXCEPT ![l] = <<"insert", n>>]
    BY <1>4 DEF Select
  <2>2. /\ ReadInv(l, "insert", n) /\ SchemaInv("insert", n)
        /\ SessionInv(l, "insert", n)
    BY <1>1, <1>4 DEF ReadInv, SchemaInv, SessionInv, Migrating, Loading, Loaded
  <2>3. "insert" \in Phase
    BY DEF Phase, Migrating
  <2> QED BY <1>1, <1>2, <2>1, <2>2, <2>3, ReadKeeps
<1> QED BY <1>3, <1>4

LEMMA FailedFits ==
    ASSUME NEW l \in overlapped, NEW n
    PROVE  /\ ReadInv(l, "failed", n) /\ SchemaInv("failed", n)
           /\ SessionInv(l, "failed", n) /\ "failed" \in Phase
BY DEF ReadInv, SchemaInv, SessionInv, Migrating, Loading, Loaded, Phase

LEMMA InsertKeeps == ASSUME IInv, NEW l \in Launches, Insert(l) PROVE IInv'
<1> DEFINE n == pc[l][2]
<1>1. /\ n \in Migrations /\ n \in Nat /\ 1 .. n - 1 \subseteq versions
      /\ n = LastVersion => usage # "absent"
      /\ n \in versions => l \in overlapped
      /\ Opening(l)
  BY DEF Insert, At, IInv, LaunchInv, SchemaInv, ReadInv, Migrating, Migrations,
     Opening
<1>2. CASE n \in versions
  <2>1. /\ pc' = [pc EXCEPT ![l] = <<"failed", 0>>]
        /\ UNCHANGED database /\ UNCHANGED <<session, overlapped>>
    BY <1>2 DEF Insert, Goto, database
  <2> QED BY <1>1, <1>2, <2>1, FailedFits, ReadKeeps
<1>3. CASE n \notin versions
  <2> DEFINE a == After(n)
  <2>1. /\ versions' = versions \cup {n}
        /\ pc' = [pc EXCEPT ![l] = a]
        /\ UNCHANGED <<rows, policy, usage, session, overlapped>>
    BY <1>3 DEF Insert
  <2>2. versions' \subseteq Migrations /\ versions \subseteq versions'
    BY <1>1, <2>1 DEF IInv, DataInv
  <2>3. /\ a[1] \in {"principal", "batch"} /\ a[2] \in Nat
        /\ a = <<a[1], a[2]>>
        /\ a = <<"principal", 0>> => versions' = Migrations /\ usage # "absent"
        /\ a # <<"principal", 0>> =>
              /\ a[1] = "batch"
              /\ a[2] \in Migrations /\ 1 .. a[2] - 1 \subseteq versions'
    <3>1. CASE n = LastVersion
      <4>1. \A k \in Migrations : k = n \/ k \in 1 .. n - 1
        BY <1>1, <3>1, VersionAssumption DEF Migrations
      <4>2. versions' = Migrations
        BY <1>1, <2>1, <2>2, <4>1
      <4>3. a = <<"principal", 0>>
        BY <3>1 DEF After
      <4> HIDE DEF a
      <4> QED BY <1>1, <3>1, <4>2, <4>3
    <3>2. CASE n # LastVersion
      <4>1. n + 1 \in Migrations /\ 1 .. (n + 1) - 1 \subseteq versions'
        BY <1>1, <2>1, <3>2, VersionAssumption DEF Migrations
      <4> QED BY <1>1, <3>2, <4>1 DEF After
    <3> QED BY <3>1, <3>2
  <2> HIDE DEF a
  <2>4. LaunchType' /\ pc'[l] = a /\ \A m \in Launches \ {l} : pc'[m] = pc[m]
    <3>1. a \in Phase \X Nat
      BY <2>3 DEF Phase, Migrating, Loading
    <3> QED BY <2>1, <3>1 DEF IInv, LaunchType
  <2>5. Grows(l)
    BY <2>1, <2>2, <2>4 DEF Grows, IInv, DataInv
  <2>6. LaunchInv(l)'
    BY <2>1, <2>3, <2>4 DEF LaunchInv, ReadInv, SchemaInv, SessionInv, Migrating,
       Loading, Loaded
  <2> QED BY <1>1, <2>5, <2>6, StepKeeps
<1> QED BY <1>2, <1>3

\* load_or_bootstrap.
LEMMA LoadingKeeps ==
    ASSUME IInv, NEW l \in Launches,
           FindPrincipal(l) \/ LoadOne(l)
    PROVE  IInv'
<1> DEFINE first == Head(rows["principals"])
           n == pc[l][2]
<1>1. /\ versions = Migrations /\ usage # "absent" /\ Opening(l)
      /\ UNCHANGED <<database, overlapped>>
  BY DEF FindPrincipal, LoadOne, At, IInv, LaunchInv, SchemaInv, Loading, Opening
<1>2. ASSUME NEW t \in TableNames, NEW phase \in Phase, NEW k \in Nat,
             rows["principals"] # <<>>, Load(l, t),
             pc' = [pc EXCEPT ![l] = <<phase, k>>],
             (phase = "load" /\ k \in 2 .. 5) \/ phase = "policy",
             \A j \in 1 .. 5 :
                j < k \/ phase = "policy" => session'[l][Tables[j]] = first
      PROVE  IInv'
  <2>1. /\ pc'[l] = <<phase, k>>
        /\ \A m \in Launches \ {l} : pc'[m] = pc[m] /\ session'[m] = session[m]
        /\ LaunchType'
    BY <1>2 DEF IInv, LaunchType, Load
  <2>2. Grows(l)
    BY <1>1, <2>1 DEF Grows, IInv, DataInv, database
  <2>3. SessionInv(l, phase, k)'
    <3>1. rows' = rows
      BY <1>1 DEF database
    <3>2. CASE phase = "load"
      BY <1>2, <3>1, <3>2 DEF SessionInv, Loaded
    <3>3. CASE phase = "policy"
      <4>1. \A u \in TableNames : session'[l][u] = first
        BY <1>2, <3>3, TableFacts
      <4>2. "principals" \in TableNames
        BY TableFacts
      <4> QED BY <3>3, <4>1, <4>2 DEF SessionInv
    <3> QED BY <1>2, <3>2, <3>3
  <2>4. ReadInv(l, phase, k)' /\ SchemaInv(phase, k)'
    BY <1>1, <1>2 DEF ReadInv, SchemaInv, Migrating, Loading, Loaded, database
  <2>5. LaunchInv(l)'
    BY <2>1, <2>3, <2>4 DEF LaunchInv
  <2> QED BY <1>1, <2>2, <2>5, StepKeeps
<1>3. CASE FindPrincipal(l) /\ rows["principals"] = <<>>
  <2>1. pc' = [pc EXCEPT ![l] = <<"create", 0>>] /\ UNCHANGED session
    BY <1>3 DEF FindPrincipal, Goto
  <2>2. /\ ReadInv(l, "create", 0) /\ SchemaInv("create", 0)
        /\ SessionInv(l, "create", 0) /\ "create" \in Phase
    BY <1>1 DEF ReadInv, SchemaInv, SessionInv, Migrating, Loading, Loaded, Phase
  <2> QED BY <1>1, <2>1, <2>2, ReadKeeps
<1>4. CASE FindPrincipal(l) /\ rows["principals"] # <<>>
  <2>1. pc' = [pc EXCEPT ![l] = <<"load", 2>>] /\ Load(l, "principals")
    BY <1>4 DEF FindPrincipal, Goto
  <2>2. "principals" \in TableNames /\ Tables[1] = "principals"
    BY TableFacts
  <2>3. session'[l]["principals"] = first
    BY <2>1, <2>2 DEF Load, IInv, LaunchType
  <2>4. \A j \in 1 .. 5 : j < 2 => session'[l][Tables[j]] = first
    BY <2>2, <2>3
  <2>5. "load" \in Phase /\ 2 \in Nat /\ 2 \in 2 .. 5 /\ "load" # "policy"
    BY DEF Phase, Loading
  <2> HIDE DEF first
  <2> QED BY <1>2, <1>4, <2>1, <2>2, <2>4, <2>5
<1>5. CASE LoadOne(l)
  <2>1. /\ n \in 2 .. 5 /\ rows["principals"] # <<>>
        /\ \A k \in 1 .. n - 1 : session[l][Tables[k]] = first
    BY <1>5 DEF LoadOne, At, IInv, LaunchInv, SessionInv
  <2>2. Tables[n] \in TableNames /\ rows[Tables[n]] = rows["principals"]
    BY <2>1, TableFacts DEF IInv, DataInv
  <2>3. /\ Load(l, Tables[n])
        /\ pc' = [pc EXCEPT ![l] = IF n = 5 THEN <<"policy", 0>>
                                            ELSE <<"load", n + 1>>]
    BY <1>5, <2>1, <2>2, TableFacts DEF LoadOne
  <2>4. \A j \in 1 .. n : session'[l][Tables[j]] = first
    <3>1. session'[l][Tables[n]] = first
      BY <2>2, <2>3 DEF Load, IInv, LaunchType
    <3>2. \A j \in 1 .. n - 1 :
             Tables[j] # Tables[n] =>
                session'[l][Tables[j]] = session[l][Tables[j]]
      BY <2>1, <2>2, <2>3, TableFacts DEF Load, IInv, LaunchType
    <3> QED BY <2>1, <3>1, <3>2
  <2>5. "load" \in Phase /\ "policy" \in Phase
    BY DEF Phase, Loading, Loaded
  <2> HIDE DEF first
  <2>6. CASE n = 5
    <3>1. /\ pc' = [pc EXCEPT ![l] = <<"policy", 0>>] /\ 0 \in Nat
          /\ \A j \in 1 .. 5 :
                j < 0 \/ "policy" = "policy" => session'[l][Tables[j]] = first
      BY <2>3, <2>4, <2>6
    <3>2. ("policy" = "load" /\ 0 \in 2 .. 5) \/ "policy" = "policy"
      OBVIOUS
    <3> HIDE DEF n
    <3> QED BY <1>2, <2>1, <2>2, <2>3, <2>5, <3>1, <3>2
  <2>7. CASE n # 5
    <3>1. /\ pc' = [pc EXCEPT ![l] = <<"load", n + 1>>]
          /\ n + 1 \in 2 .. 5 /\ n + 1 \in Nat
          /\ \A j \in 1 .. 5 :
                j < n + 1 => session'[l][Tables[j]] = first
      BY <2>1, <2>3, <2>4, <2>7
    <3> DEFINE k == n + 1
               t == Tables[n]
    <3>2. /\ t \in TableNames /\ Load(l, t) /\ rows["principals"] # <<>>
          /\ k \in Nat /\ k \in 2 .. 5
          /\ pc' = [pc EXCEPT ![l] = <<"load", k>>]
      BY <2>1, <2>2, <2>3, <3>1
    <3>3. \A j \in 1 .. 5 : j < k \/ "load" = "policy" => session'[l][Tables[j]] = first
      BY <3>1
    <3> HIDE DEF n, k, t
    <3> QED BY <1>2, <2>5, <3>2, <3>3
  <2> QED BY <2>6, <2>7
<1> QED BY <1>3, <1>4, <1>5

LEMMA CreateKeeps == ASSUME IInv, NEW l \in Launches, Create(l) PROVE IInv'
<1>1. /\ versions = Migrations /\ usage # "absent" /\ Opening(l)
      /\ UNCHANGED <<schema, versions, policy, usage, overlapped>>
      /\ rows' = [t \in TableNames |-> Append(rows[t], l)]
      /\ session' = [session EXCEPT ![l] = [t \in TableNames |-> l]]
      /\ pc' = [pc EXCEPT ![l] = <<"policy", 0>>]
  BY DEF Create, Goto, At, IInv, LaunchInv, SchemaInv, Loading, Opening
<1>2. /\ pc'[l] = <<"policy", 0>>
      /\ \A t \in TableNames : session'[l][t] = l
      /\ \A m \in Launches \ {l} : pc'[m] = pc[m] /\ session'[m] = session[m]
      /\ LaunchType'
  BY <1>1 DEF IInv, LaunchType, Phase, Loaded
<1>3. "principals" \in TableNames
  BY TableFacts
<1>4. \A t \in TableNames : rows[t] = rows["principals"]
  BY DEF IInv, DataInv
<1>5. /\ rows' = [t \in TableNames |-> rows'["principals"]]
      /\ rows'["principals"] = Append(rows["principals"], l)
  BY <1>1, <1>3, <1>4
<1>6. /\ rows'["principals"] \in Seq(Documents)
      /\ rows["principals"] # <<>> =>
            /\ rows'["principals"] # <<>>
            /\ Head(rows'["principals"]) = Head(rows["principals"])
  <2>1. rows["principals"] \in Seq(Documents) /\ l \in Documents
    BY DEF IInv, DataInv, Documents
  <2> QED BY <1>5, <2>1, AppendProperties, HeadTailAppend
<1>7. Grows(l)
  BY <1>1, <1>2, <1>5, <1>6 DEF Grows, IInv, DataInv
<1>8. LaunchInv(l)'
  BY <1>1, <1>2, <1>3 DEF LaunchInv, ReadInv, SchemaInv, SessionInv, Migrating,
     Loading, Loaded
<1> QED BY <1>1, <1>7, <1>8, StepKeeps

\* load_or_seed_policy.
LEMMA PolicyKeeps ==
    ASSUME IInv, NEW l \in Launches, FindPolicy(l) \/ SeedPolicy(l)
    PROVE  IInv'
<1>1. /\ versions = Migrations /\ usage # "absent" /\ Opening(l)
      /\ UNCHANGED <<schema, versions, rows, usage, session, overlapped>>
      /\ \A t \in TableNames : session[l][t] = session[l]["principals"]
  BY DEF FindPolicy, SeedPolicy, At, IInv, LaunchInv, SchemaInv, SessionInv,
     Loading, Loaded, Opening, database
<1>2. ASSUME NEW phase \in {"seed", "audit"}
      PROVE  /\ SchemaInv(phase, 0) /\ SchemaInv(phase, 0)'
             /\ SessionInv(l, phase, 0) /\ SessionInv(l, phase, 0)'
             /\ phase \in Phase
  BY <1>1 DEF SchemaInv, SessionInv, Migrating, Loading, Loaded, Phase
<1>3. CASE FindPolicy(l)
  <2> DEFINE phase == IF policy THEN "audit" ELSE "seed"
  <2>1. ReadInv(l, phase, 0) /\ phase \in {"seed", "audit"}
    BY DEF ReadInv
  <2>2. pc' = [pc EXCEPT ![l] = <<phase, 0>>] /\ UNCHANGED database
    BY <1>3 DEF FindPolicy, Goto
  <2> HIDE DEF phase
  <2> QED BY <1>1, <1>2, <2>1, <2>2, ReadKeeps
<1>4. CASE SeedPolicy(l)
  <2> DEFINE phase == IF policy THEN "failed" ELSE "audit"
  <2>1. pc' = [pc EXCEPT ![l] = <<phase, 0>>] /\ policy' = TRUE
    BY <1>4 DEF SeedPolicy, Goto
  <2>2. policy => l \in overlapped
    BY <1>4 DEF SeedPolicy, At, IInv, LaunchInv, ReadInv
  <2>3. /\ pc'[l] = <<phase, 0>>
        /\ \A m \in Launches \ {l} : pc'[m] = pc[m]
        /\ LaunchType'
    BY <1>1, <2>1 DEF IInv, LaunchType, Phase, Loaded
  <2>4. Grows(l)
    BY <1>1, <2>1, <2>3 DEF Grows, IInv, DataInv
  <2>5. LaunchInv(l)'
    BY <1>1, <2>1, <2>2, <2>3 DEF LaunchInv, ReadInv, SchemaInv, SessionInv,
       Migrating, Loading, Loaded
  <2> QED BY <1>1, <2>4, <2>5, StepKeeps
<1> QED BY <1>3, <1>4

\* AiRequestStore::open.
LEMMA UsageKeeps ==
    ASSUME IInv, NEW l \in Launches, FindUsage(l) \/ Rebuild(l)
    PROVE  IInv'
<1> DEFINE phase == IF Rebuild(l) \/ usage = "nullable" THEN "open" ELSE "rebuild"
<1>1. /\ versions = Migrations /\ usage # "absent" /\ Opening(l)
      /\ UNCHANGED <<schema, versions, rows, policy, session, overlapped>>
      /\ \A t \in TableNames : session[l][t] = session[l]["principals"]
  BY DEF FindUsage, Rebuild, At, IInv, LaunchInv, SchemaInv, SessionInv,
     Loading, Loaded, Opening, database
<1>2. /\ pc' = [pc EXCEPT ![l] = <<phase, 0>>]
      /\ usage' = usage \/ usage' = "nullable"
      /\ phase = "open" => usage' = "nullable"
      /\ phase \in {"open", "rebuild"}
  BY DEF FindUsage, Rebuild, Goto, database, At
<1> HIDE DEF phase
<1>3. /\ pc'[l] = <<phase, 0>>
      /\ \A m \in Launches \ {l} : pc'[m] = pc[m]
      /\ LaunchType'
  BY <1>1, <1>2 DEF IInv, LaunchType, Phase, Loaded
<1>4. Grows(l)
  BY <1>1, <1>2, <1>3 DEF Grows, IInv, DataInv
<1>5. LaunchInv(l)'
  BY <1>1, <1>2, <1>3 DEF LaunchInv, ReadInv, SchemaInv, SessionInv, Migrating,
     Loading, Loaded
<1> QED BY <1>1, <1>4, <1>5, StepKeeps

LEMMA EndKeeps ==
    ASSUME IInv, NEW l \in Launches, Busy(l) \/ Stop(l)
    PROVE  IInv'
<1>1. UNCHANGED database /\ UNCHANGED <<session, overlapped>> /\ Opening(l)
  BY DEF Busy, Stop
<1>2. CASE Busy(l)
  <2>1. pc' = [pc EXCEPT ![l] = <<"failed", 0>>] /\ l \in overlapped
    BY <1>2 DEF Busy, Goto
  <2> QED BY <1>1, <2>1, FailedFits, ReadKeeps
<1>3. CASE Stop(l)
  <2>1. pc' = [pc EXCEPT ![l] = <<"stopped", 0>>]
    BY <1>3 DEF Stop, Goto
  <2>2. /\ ReadInv(l, "stopped", 0) /\ SchemaInv("stopped", 0)
        /\ SessionInv(l, "stopped", 0) /\ "stopped" \in Phase
    BY DEF ReadInv, SchemaInv, SessionInv, Migrating, Loading, Loaded, Phase
  <2> QED BY <1>1, <2>1, <2>2, ReadKeeps
<1> QED BY <1>2, <1>3

LEMMA NextInv == IInv /\ [Next]_vars => IInv'
<1> SUFFICES ASSUME IInv, [Next]_vars PROVE IInv'
  OBVIOUS
<1>1. CASE Next
  BY <1>1, StartKeeps, BatchKeeps, SelectKeeps, InsertKeeps, LoadingKeeps,
     CreateKeeps, PolicyKeeps, UsageKeeps, EndKeeps DEF Next
<1>2. CASE UNCHANGED vars
  BY <1>2 DEF vars, database, IInv, DataInv, LaunchType, OverlapInv, Opening,
     LaunchInv, ReadInv, SchemaInv, SessionInv
<1> QED BY <1>1, <1>2

THEOREM Invariant == Spec => []IInv
BY InitInv, NextInv, PTL DEF Spec

-----------------------------------------------------------------------------
(* The properties. *)

\* AppState::open fails only beside another launch, whatever version of the
\* application was here before and wherever earlier launches were stopped; a
\* launch that opens finds every migration recorded.
THEOREM OpensAlone == Spec => []SoloOpens
<1>1. IInv => SoloOpens
  BY DEF IInv, LaunchInv, ReadInv, SchemaInv, SoloOpens, At, Loaded
<1> QED BY <1>1, Invariant, PTL

\* The owner of a session whose documents belong together may run every
\* command.
LEMMA OwnerMay ==
    ASSUME NEW l, NEW d, \A t \in TableNames : session[l][t] = d,
           NEW c \in Capability, NEW command \in CommandsOf[c]
    PROVE  Authorized(SessionOf(l), command, Envelope(command, c, Unbounded))
<1> DEFINE s == SessionOf(l)
           e == Envelope(command, c, Unbounded)
<1>1. /\ s.principal = d /\ s.organization = d /\ s.team = d /\ s.workspace = d
      /\ s.membership = WorkspaceOwner(d, d)
  BY TableFacts DEF SessionOf
<1>2. /\ Unbounded = [k \in Levels \cup {"resources"} |-> Unbounded[k]]
      /\ \A k \in Levels : Unbounded[k] = None
      /\ Unbounded["resources"] = {}
  BY DEF Unbounded, Levels
<1>3. Contains(Unbounded, Unbounded) /\ ~Bounded(Unbounded)
  BY <1>2 DEF Contains, Bounded
<1>4. /\ s.membership.principal = d
      /\ s.membership.status = "Active" /\ s.membership.role = "Owner"
      /\ s.membership.scope = [Unbounded EXCEPT !["workspace"] = d]
  BY <1>1 DEF WorkspaceOwner
<1>5. Contains([Unbounded EXCEPT !["workspace"] = d], WorkspaceScope(d, d, d))
  BY <1>2 DEF Contains, WorkspaceScope, Levels
<1>6. Grants(s.membership, WorkspaceScope(d, d, d))
  BY <1>4, <1>5 DEF Grants
<1>7. RequiredPermission(command) \in PermissionsOf("Owner")
  BY DEF RequiredPermission, PermissionsOf, Permission
<1>8. e.command = command /\ e.capability = c /\ e.scope = Unbounded
  BY DEF Envelope
<1> HIDE DEF s, e
<1>9. Authorized(s, command, e)
  BY <1>1, <1>3, <1>4, <1>6, <1>7, <1>8 DEF Authorized
<1> QED BY <1>9 DEF s, e

\* load_existing_bootstrap reads five tables one by one and first row by first
\* row: since every launch writes its five documents at once, what any launch
\* has loaded is one launch's.
THEOREM OwnersAuthorized == Spec => []OwnerAuthorized
<1>1. IInv => OwnerAuthorized
  <2> SUFFICES ASSUME IInv, NEW l \in Launches, At(l, "open")
               PROVE  \A c \in Capability : \A command \in CommandsOf[c] :
                          Authorized(SessionOf(l), command,
                                     Envelope(command, c, Unbounded))
    BY DEF OwnerAuthorized
  <2>1. \A t \in TableNames : session[l][t] = session[l]["principals"]
    BY DEF IInv, LaunchInv, SessionInv, At, Loaded
  <2> QED BY <2>1, OwnerMay
<1> QED BY <1>1, Invariant, PTL

=============================================================================
