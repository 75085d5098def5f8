---------------------------- MODULE MissionsProofs ----------------------------
(***************************************************************************)
(* A mission's files, lanes and budget, for every plan, every set of       *)
(* clients and drafts, and any number of documents, checkpoints and calls. *)
(***************************************************************************)
EXTENDS Missions, FiniteSetTheorems, TLAPS

-----------------------------------------------------------------------------
(* Sums                                                                    *)

LEMMA UnitsOfOne ==
    ASSUME NEW i, NEW n \in Nat
    PROVE  IsFiniteSet({i} \X (1..n)) /\ Cardinality({i} \X (1..n)) = n
<1> DEFINE T == {i} \X (1..n)
           g == [k \in 1..n |-> <<i, k>>]
<1>1. IsFiniteSet(1..n) /\ Cardinality(1..n) = n
  BY FS_Interval
<1>2. g \in Bijection(1..n, T)
  <2>1. g \in [1..n -> T] /\ DOMAIN g = 1..n /\ \A k \in 1..n : g[k] = <<i, k>>
    OBVIOUS
  <2>2. \A k, l \in 1..n : g[k] = g[l] => k = l
    BY <2>1
  <2>3. ASSUME NEW t \in T PROVE \E k \in 1..n : g[k] = t
    <3>1. t[2] \in 1..n /\ t = <<i, t[2]>>
      OBVIOUS
    <3>2. QED
      BY <2>1, <3>1
  <2>4. QED
    BY <2>1, <2>2, <2>3 DEF Bijection, Injection, IsInjective, Surjection
<1>3. ExistsBijection(1..n, T)
  BY <1>2 DEF ExistsBijection
<1>4. QED
  BY <1>1, <1>3, FS_Bijection

LEMMA UnitsAreFinite ==
    ASSUME NEW S, IsFiniteSet(S), NEW f, \A i \in S : f[i] \in Nat
    PROVE  IsFiniteSet(Units(f, S)) /\ Total(f, S) \in Nat
<1> DEFINE T == {{i} \X (1..f[i]) : i \in S}
           g == [i \in S |-> {i} \X (1..f[i])]
<1>1. g \in Surjection(S, T)
  BY DEF Surjection
<1>2. IsFiniteSet(T)
  BY <1>1, FS_Surjection
<1>3. ASSUME NEW U \in T PROVE IsFiniteSet(U)
  <2>1. PICK i \in S : U = {i} \X (1..f[i])
    OBVIOUS
  <2>2. QED
    BY <2>1, UnitsOfOne
<1>4. IsFiniteSet(Units(f, S))
  BY <1>2, <1>3, FS_UNION DEF Units
<1>5. QED
  BY <1>4, FS_CardinalityType DEF Total

LEMMA TotalOfDisjoint ==
    ASSUME NEW S, IsFiniteSet(S), NEW T, IsFiniteSet(T), S \cap T = {},
           NEW f, \A i \in S \cup T : f[i] \in Nat
    PROVE  Total(f, S \cup T) = Total(f, S) + Total(f, T)
<1>1. Units(f, S \cup T) = Units(f, S) \cup Units(f, T)
  BY DEF Units
<1>2. Units(f, S) \cap Units(f, T) = {}
  BY DEF Units
<1>3. IsFiniteSet(Units(f, S)) /\ IsFiniteSet(Units(f, T))
  BY UnitsAreFinite
<1>4. Cardinality(Units(f, S)) \in Nat /\ Cardinality(Units(f, T)) \in Nat
  BY <1>3, FS_CardinalityType
<1>5. Cardinality(Units(f, S) \cap Units(f, T)) = 0
  BY <1>2, FS_EmptySet
<1>6. QED
  <2> DEFINE A == Units(f, S)
             B == Units(f, T)
  <2>1. Cardinality(A \cup B) = Cardinality(A) + Cardinality(B) - Cardinality(A \cap B)
    BY <1>3, FS_Union
  <2>2. Cardinality(A \cup B) = Cardinality(A) + Cardinality(B)
    BY <1>4, <1>5, <2>1
  <2>3. QED
    BY <1>1, <2>2 DEF Total

LEMMA TotalOfOne ==
    ASSUME NEW i, NEW f, f[i] \in Nat
    PROVE  Total(f, {i}) = f[i]
<1>1. Units(f, {i}) = {i} \X (1..f[i])
  BY DEF Units
<1>2. QED
  BY <1>1, UnitsOfOne DEF Total

LEMMA TotalOfNone == \A f : Total(f, {}) = 0
  BY FS_EmptySet DEF Total, Units

LEMMA TotalAgrees ==
    ASSUME NEW S, NEW f, NEW g, \A i \in S : f[i] = g[i]
    PROVE  Total(f, S) = Total(g, S)
<1>1. Units(f, S) = Units(g, S)
  BY DEF Units
<1>2. QED
  BY <1>1 DEF Total

LEMMA TotalWith ==
    ASSUME NEW S, IsFiniteSet(S), NEW i, i \notin S,
           NEW f, \A j \in S \cup {i} : f[j] \in Nat
    PROVE  Total(f, S \cup {i}) = Total(f, S) + f[i]
<1>1. IsFiniteSet({i})
  BY FS_Singleton
<1>2. S \cap {i} = {}
  OBVIOUS
<1>3. QED
  <2>1. Total(f, S \cup {i}) = Total(f, S) + Total(f, {i})
    BY <1>1, <1>2, TotalOfDisjoint
  <2>2. f[i] \in Nat
    OBVIOUS
  <2>3. QED
    BY <2>1, <2>2, TotalOfOne

-----------------------------------------------------------------------------
(* The inductive invariant                                                 *)

Projections == [completed : SUBSET Items, active : SUBSET Items, blocked : SUBSET Items]
Leads == {d.lead : d \in Drafts} \cup {[i \in Items |-> "none"]}
Bundles ==
    [own : [Items -> SUBSET Paths], tokens : [Items -> Nat], rank : [Items -> Int],
     pos : [Items -> Nat], lead : Leads, total : Nat, integration : Nat,
     recovery : Nat, execution : Nat, dependsOn : {Deps}, status : [Items -> Statuses],
     legible : BOOLEAN, exists : BOOLEAN]
Calls ==
    [at : {"idle", "deciding", "answered"}, todo : SUBSET Items, limit : Int,
     slots : Nat, tokens : Nat, locks : SUBSET (Items \X Paths), selected : SUBSET Items,
     denied : SUBSET Items, plan : Bundles]
Typed ==
    /\ TypeOK /\ bundle \in Bundles /\ sched \in Calls /\ checks \in Seq(Projections)

(* What a bundle that was saved says: it is consistent, grants something   *)
(* to each item, and takes for done only what is proven.                   *)
Sound(b) ==
    /\ Consistent(b) /\ Done(b) \subseteq proven
    /\ \A i \in Items : b.tokens[i] > 0

(* A lane runs after what its item depends on.                             *)
LanesAreSound == \A i \in Running : Deps[i] \subseteq proven

(* The scheduling call holds a lock for each scope of what runs and of what*)
(* it has selected, and has not promised more than is left.                *)
LocksAreHeld ==
    /\ \A i \in Running \cup sched.selected : \A p \in sched.plan.own[i] :
            <<i, p>> \in sched.locks
    /\ \A i \in sched.selected, j \in Running \cup sched.selected :
            i # j => ~OverlapSets(sched.plan.own[i], sched.plan.own[j])
BudgetIsKept ==
    \/ spent + Reserved + Total(sched.plan.tokens, sched.selected) + sched.tokens
            <= sched.plan.execution
    \/ sched.selected = {} /\ sched.tokens = 0
CallIsSound ==
    sched.at # "idle" =>
        /\ Sound(sched.plan)
        /\ \A i \in sched.selected : Deps[i] \subseteq proven
        /\ sched.selected \cap (sched.todo \cup Running) = {}
        /\ LocksAreHeld /\ BudgetIsKept

(* What the loop has passed over could not start when it was its turn, and *)
(* cannot now.                                                             *)
Hindered(i) ==
    \/ Conflict(sched.plan, i, sched.locks) \/ ~Affordable(sched, i) \/ sched.slots = 0
PassedAreHindered ==
    sched.at = "deciding" =>
        \A i \in Items \ (sched.todo \cup sched.selected \cup sched.denied) :
            Ready(sched.plan, i) => Hindered(i)

IInv ==
    /\ Typed /\ RefIsReadable /\ Completed(doc) \subseteq proven
    /\ bundle.exists => Sound(bundle)
    /\ LanesAreSound /\ CallIsSound /\ PassedAreHindered

-----------------------------------------------------------------------------
(* Types                                                                   *)

LEMMA RunningIsFinite ==
    ASSUME MissionsAssumption, NEW S \in SUBSET Items
    PROVE  IsFiniteSet(S) /\ Cardinality(S) \in Nat
<1>1. IsFiniteSet(S)
  BY FS_Subset DEF MissionsAssumption
<1>2. QED
  BY <1>1, FS_CardinalityType

LEMMA ReservedIsNat ==
    ASSUME MissionsAssumption, TypeOK
    PROVE  Reserved \in Nat
<1> DEFINE f == [i \in Items |-> lane[i].tokens]
<1>1. Running \in SUBSET Items
  BY DEF Running
<1>2. \A i \in Running : f[i] \in Nat
  BY <1>1 DEF TypeOK
<1>3. IsFiniteSet(Running)
  BY <1>1, RunningIsFinite
<1>4. Total(f, Running) \in Nat
  BY <1>2, <1>3, UnitsAreFinite
<1>5. QED
  BY <1>4 DEF Reserved

LEMMA DocsAreTyped ==
    /\ NoDoc \in Docs
    /\ \A d \in Docs, r \in Nat : [d EXCEPT !.ref = r] \in Docs
    /\ \A d \in Docs, i \in Items, st \in Statuses, c \in Claims :
            [d EXCEPT !.status[i] = st, !.claim[i] = c] \in Docs
    /\ \A d \in Docs : Completed(d) \subseteq Items /\ Projection(d) \in Projections
  BY DEF NoDoc, Docs, Statuses, Claims, Completed, Projection, Projections, Active, Blocked

LEMMA BundlesAreTyped ==
    /\ MissionsAssumption => NoBundle \in Bundles
    /\ MissionsAssumption /\ TypeOK =>
            \A d \in Drafts : Compilable(d) => Bundle(d) \in Bundles
<1>1. MissionsAssumption => NoBundle \in Bundles
  <2>2. [i \in Items |-> "pending"] \in [Items -> Statuses]
    BY DEF Statuses
  <2>3. [i \in Items |-> {}] \in [Items -> SUBSET Paths]
    OBVIOUS
  <2>4. QED
    BY <2>2, <2>3 DEF NoBundle, Bundles, Leads
<1>2. ASSUME MissionsAssumption, TypeOK, NEW d \in Drafts, Compilable(d)
      PROVE  Bundle(d) \in Bundles
  <2>1. d \in Draft
    BY <1>2 DEF MissionsAssumption
  <2>2. Execution(d) \in Nat
    BY <1>2, <2>1 DEF Compilable, Execution, Draft, Positive
  <2>3. doc.status \in [Items -> Statuses]
    BY <1>2 DEF TypeOK, Docs
  <2>4. Legible(d) \in BOOLEAN
    BY DEF Legible
  <2>5. QED
    BY <2>1, <2>2, <2>3, <2>4 DEF Bundle, Bundles, Draft, Positive, Leads
<1>3. QED
  BY <1>1, <1>2

LEMMA CallsAreTyped ==
    ASSUME MissionsAssumption
    PROVE  NoCall \in Calls
  BY BundlesAreTyped DEF NoCall, Calls

(* One turn of the loop: the candidate is passed over, refused or selected.*)
LEMMA DecidedCall ==
    ASSUME sched \in Calls, NEW i \in sched.todo, NEW allowed \in BOOLEAN,
           sched' = Decided(sched, i, allowed)
    PROVE  /\ sched' \in Calls
           /\ sched'.at = sched.at /\ sched'.plan = sched.plan
           /\ sched'.todo = sched.todo \ {i}
           /\ \/ /\ \/ ~Ready(sched.plan, i) /\ sched'.denied = sched.denied
                    \/ sched'.denied = sched.denied \cup {i}
                    \/ Hindered(i) /\ sched'.denied = sched.denied
                 /\ sched'.selected = sched.selected /\ sched'.slots = sched.slots
                 /\ sched'.tokens = sched.tokens /\ sched'.locks = sched.locks
              \/ /\ Ready(sched.plan, i) /\ ~Conflict(sched.plan, i, sched.locks)
                 /\ Affordable(sched, i) /\ sched.slots > 0
                 /\ sched'.denied = sched.denied
                 /\ sched'.selected = sched.selected \cup {i}
                 /\ sched'.slots = sched.slots - 1
                 /\ sched'.tokens = sched.tokens - sched.plan.tokens[i]
                 /\ sched'.locks = sched.locks \cup ({i} \X sched.plan.own[i])
<1> DEFINE c == sched
<1>1. i \in Items /\ c.slots \in Nat /\ c.tokens \in Nat /\ c.plan.tokens[i] \in Nat
      /\ c.plan.own[i] \subseteq Paths
  BY DEF Calls, Bundles
<1> DEFINE e == Passed(sched, i)
<1>p. /\ e \in Calls /\ e.at = c.at /\ e.plan = c.plan /\ e.todo = c.todo \ {i}
      /\ e.selected = c.selected /\ e.slots = c.slots /\ e.tokens = c.tokens
      /\ e.locks = c.locks /\ e.denied = c.denied
  BY DEF Passed, Calls
<1> HIDE DEF e
<1>2. CASE ~Ready(c.plan, i)
  <2>1. sched' = e
    BY <1>2 DEF Decided, e
  <2>2. QED
    BY <1>2, <1>p, <2>1
<1>3. CASE Ready(c.plan, i) /\ ~allowed
  <2>1. sched' = [e EXCEPT !.denied = @ \cup {i}]
    BY <1>3 DEF Decided, e
  <2>2. QED
    BY <1>1, <1>p, <2>1 DEF Calls
<1>4. CASE /\ Ready(c.plan, i) /\ allowed
           /\ Conflict(c.plan, i, c.locks) \/ ~Affordable(c, i) \/ c.slots <= 0
  <2>1. sched' = e
    BY <1>4 DEF Decided, e
  <2>2. Hindered(i)
    BY <1>1, <1>4 DEF Hindered
  <2>3. QED
    BY <1>p, <2>1, <2>2
<1>5. CASE /\ Ready(c.plan, i) /\ allowed
           /\ ~(Conflict(c.plan, i, c.locks) \/ ~Affordable(c, i) \/ c.slots <= 0)
  <2>1. sched' = Selecting(e, i)
    BY <1>5 DEF Decided, e
  <2>2. c.slots > 0 /\ c.slots - 1 \in Nat /\ c.tokens - c.plan.tokens[i] \in Nat
    BY <1>1, <1>5 DEF Affordable
  <2>3. {i} \X c.plan.own[i] \subseteq Items \X Paths
    BY <1>1
  <2>4. sched' = [at |-> e.at, todo |-> e.todo, limit |-> e.limit, slots |-> e.slots - 1,
                 tokens |-> e.tokens - e.plan.tokens[i],
                 locks |-> e.locks \cup ({i} \X e.plan.own[i]),
                 selected |-> e.selected \cup {i}, denied |-> e.denied, plan |-> e.plan]
    BY <1>p, <2>1 DEF Selecting, Calls
  <2>5. e.locks \cup ({i} \X e.plan.own[i]) \in SUBSET (Items \X Paths)
    BY <1>1, <1>p, <2>3 DEF Calls
  <2>6. sched' \in Calls
    BY <1>1, <1>p, <2>2, <2>4, <2>5 DEF Calls
  <2>7. /\ sched'.at = sched.at /\ sched'.plan = sched.plan /\ sched'.todo = sched.todo \ {i}
        /\ sched'.denied = sched.denied /\ sched'.selected = sched.selected \cup {i}
        /\ sched'.slots = sched.slots - 1
        /\ sched'.tokens = sched.tokens - sched.plan.tokens[i]
        /\ sched'.locks = sched.locks \cup ({i} \X sched.plan.own[i])
    BY <1>p, <2>4
  <2>8. QED
    BY <1>5, <2>2, <2>6, <2>7
<1>6. QED
  BY <1>2, <1>3, <1>4, <1>5

-----------------------------------------------------------------------------
(* What a step of the host leaves as it is                                 *)

LEMMA TypedStep ==
    ASSUME MissionsAssumption, Typed, [Next]_vars
    PROVE  Typed'
<1>0. /\ doc \in Docs /\ seen \in [Clients -> Docs] /\ listed \in BOOLEAN
      /\ checks \in Seq(Projections) /\ proven \subseteq Items /\ puts \in 0..MaxPuts
      /\ MaxPuts \in Nat /\ spent \in Nat
      /\ lane \in [Items -> [runs : BOOLEAN, own : SUBSET Paths, tokens : Nat]]
  BY DEF Typed, TypeOK, MissionsAssumption
<1>c. sched' \in Calls =>
        /\ sched'.at \in {"idle", "deciding", "answered"}
        /\ sched'.selected \subseteq Items /\ sched'.denied \subseteq Items
        /\ sched'.todo \subseteq Items /\ sched'.locks \subseteq Items \X Paths
        /\ sched'.tokens \in Nat /\ sched'.slots \in Nat
  BY DEF Calls
<1>w. ASSUME NEW d \in Docs, NEW died \in BOOLEAN, Written(d, died)
      PROVE  doc' \in Docs /\ listed' \in BOOLEAN /\ proven' \subseteq Items
  BY <1>0, <1>w, DocsAreTyped DEF Written
<1>1. ASSUME NEW died \in BOOLEAN, Create(died) PROVE Typed'
  <2>1. [NoDoc EXCEPT !.exists = TRUE] \in Docs
    BY DocsAreTyped DEF Docs
  <2>2. doc' \in Docs /\ listed' \in BOOLEAN /\ proven' \subseteq Items
    BY <1>1, <1>w, <2>1 DEF Create
  <2>3. QED
    BY <1>1, <2>2 DEF Create, Typed, TypeOK
<1>2. ASSUME NEW died \in BOOLEAN, CheckpointPost(died) PROVE Typed'
  <2>1. checks' \in Seq(Projections)
    <3>1. Projection(doc) \in Projections
      BY <1>0, DocsAreTyped
    <3>2. checks' = Append(checks, Projection(doc))
      BY <1>2 DEF CheckpointPost, CheckpointFile
    <3>3. QED
      BY <1>0, <3>1, <3>2
  <2>2. [doc EXCEPT !.ref = Len(checks) + 1] \in Docs
    <3>1. Len(checks) + 1 \in Nat
      BY <1>0
    <3>2. QED
      BY <1>0, <3>1, DocsAreTyped
  <2>3. doc' \in Docs /\ listed' \in BOOLEAN /\ proven' \subseteq Items
    BY <1>0, <1>2, <1>w, <2>2 DEF CheckpointPost, CheckpointDone
  <2>4. QED
    BY <1>2, <2>1, <2>3 DEF CheckpointPost, Typed, TypeOK
<1>3. ASSUME NEW died \in BOOLEAN, NEW c \in Clients, NEW i \in Items, NEW m \in Marks,
             Put(c, i, m, died)
      PROVE  Typed'
  <2> DEFINE d == [seen[c] EXCEPT !.status[i] = m[1], !.claim[i] = m[2]]
  <2>1. m[1] \in Statuses /\ m[2] \in Claims
    BY DEF MissionsAssumption
  <2>2. d \in Docs
    BY <1>0, <2>1, DocsAreTyped
  <2>3. Written(d, died) /\ seen' = [seen EXCEPT ![c] = d]
    BY <1>3 DEF Put
  <2> HIDE DEF d
  <2>4. doc' \in Docs /\ listed' \in BOOLEAN /\ proven' \subseteq Items
    BY <1>w, <2>2, <2>3
  <2>5. seen' \in [Clients -> Docs] /\ puts' \in 0..MaxPuts
    BY <1>0, <1>3, <2>2, <2>3 DEF Put
  <2>6. QED
    BY <1>3, <2>4, <2>5 DEF Put, Typed, TypeOK
<1>4. ASSUME NEW c \in Clients, Read(c) PROVE Typed'
  BY <1>0, <1>4 DEF Read, Typed, TypeOK
<1>5. CASE Compile
  <2>1. bundle' \in Bundles
    BY <1>5, BundlesAreTyped DEF Compile, Typed
  <2>2. QED
    BY <1>5, <2>1 DEF Compile, Typed, TypeOK
<1>6. ASSUME NEW n \in Limits, Ask(n) PROVE Typed'
  <2>1. n \in Int /\ Clamped(n) \in Int
    BY DEF MissionsAssumption, Clamped
  <2>2. Cardinality(Running) \in Nat /\ Reserved \in Nat
    BY RunningIsFinite, ReservedIsNat DEF Running, Typed
  <2>3. bundle.execution \in Nat /\ bundle \in Bundles
    BY DEF Typed, Bundles
  <2>4. /\ Max0(Clamped(n) - Cardinality(Running)) \in Nat
        /\ Max0(bundle.execution - spent - Reserved) \in Nat
    BY <1>0, <2>1, <2>2, <2>3 DEF Max0
  <2>5. LaneLocks(bundle) \subseteq Items \X Paths
    BY DEF LaneLocks
  <2>6. sched' \in Calls
    BY <1>6, <2>1, <2>3, <2>4, <2>5 DEF Ask, Calls
  <2>7. QED
    BY <1>6, <1>c, <2>6 DEF Ask, Typed, TypeOK
<1>7. ASSUME NEW allowed \in BOOLEAN, Decide(allowed) PROVE Typed'
  <2>1. PICK i \in sched.todo : sched' = Decided(sched, i, allowed)
    BY <1>7 DEF Decide
  <2>2. sched' \in Calls
    BY <2>1, DecidedCall DEF Typed
  <2>3. QED
    BY <1>7, <1>c, <2>2 DEF Decide, Typed, TypeOK
<1>8. CASE Answer
  <2>1. sched' \in Calls
    BY <1>8 DEF Answer, Typed, Calls
  <2>2. QED
    BY <1>8, <1>c, <2>1 DEF Answer, Typed, TypeOK
<1>9. CASE Start
  <2>1. sched' \in Calls
    BY <1>9, CallsAreTyped DEF Start
  <2>2. /\ sched.plan.own \in [Items -> SUBSET Paths]
        /\ sched.plan.tokens \in [Items -> Nat]
    BY DEF Typed, Calls, Bundles
  <2>3. lane' \in [Items -> [runs : BOOLEAN, own : SUBSET Paths, tokens : Nat]]
    BY <1>0, <1>9, <2>2 DEF Start
  <2>4. QED
    BY <1>9, <1>c, <2>1, <2>3 DEF Start, Typed, TypeOK
<1>10. ASSUME NEW i \in Items, End(i) PROVE Typed'
  <2>1. spent' \in Nat
    BY <1>0, <1>10 DEF End
  <2>2. lane' \in [Items -> [runs : BOOLEAN, own : SUBSET Paths, tokens : Nat]]
    BY <1>0, <1>10 DEF End, NoLane
  <2>3. QED
    BY <1>10, <2>1, <2>2 DEF End, Typed, TypeOK
<1>11. CASE UNCHANGED vars
  BY <1>11 DEF vars, Typed, TypeOK
<1>12. QED
  BY <1>1, <1>2, <1>3, <1>4, <1>5, <1>6, <1>7, <1>8, <1>9, <1>10, <1>11 DEF Next

(* A write of the host touches neither the lanes nor the call, and what is *)
(* proven stays proven.                                                    *)
LEMMA HostStep ==
    ASSUME UNCHANGED <<sched, lane, spent>>, proven \subseteq proven',
           LanesAreSound, CallIsSound, PassedAreHindered
    PROVE  LanesAreSound' /\ CallIsSound' /\ PassedAreHindered'
<1>1. Running' = Running /\ Reserved' = Reserved
  BY DEF Running, Reserved
<1>3. LanesAreSound'
  BY <1>1 DEF LanesAreSound
<1>4. \A b : Sound(b) => Sound(b)'
  BY DEF Sound, Consistent, Done
<1>5. LocksAreHeld' <=> LocksAreHeld
  BY <1>1 DEF LocksAreHeld
<1>6. BudgetIsKept' <=> BudgetIsKept
  BY <1>1 DEF BudgetIsKept
<1>7. CallIsSound'
  BY <1>1, <1>4, <1>5, <1>6 DEF CallIsSound
<1>8. PassedAreHindered'
  BY DEF PassedAreHindered, Hindered, Ready, Affordable
<1>9. QED
  BY <1>3, <1>7, <1>8

LEMMA BundleStays ==
    ASSUME UNCHANGED bundle, proven \subseteq proven', bundle.exists => Sound(bundle)
    PROVE  (bundle.exists => Sound(bundle))'
  BY DEF Sound, Consistent, Done

(* What the compiler accepts passes the checks made on reading it back.    *)
LEMMA CompiledIsSound ==
    ASSUME MissionsAssumption, TypeOK, Completed(doc) \subseteq proven,
           NEW d \in Drafts, Compilable(d)
    PROVE  Sound(Bundle(d))
<1>1. d \in Draft
  BY DEF MissionsAssumption
<1>2. /\ d.total \in Nat /\ d.integration \in Nat /\ d.recovery \in Nat
      /\ d.tokens \in [Items -> Positive]
  BY <1>1 DEF Draft, Positive
<1> DEFINE b == Bundle(d)
<1>3. /\ b.own = d.own /\ b.tokens = d.tokens /\ b.lead = d.lead /\ b.total = d.total
      /\ b.integration = d.integration /\ b.recovery = d.recovery
      /\ b.execution = Execution(d) /\ b.dependsOn = Deps /\ b.status = doc.status
  BY DEF Bundle
<1> HIDE DEF b
<1>4. b.execution + b.integration + b.recovery = b.total
  BY <1>2, <1>3 DEF Execution
<1>5. b.integration * 5 >= b.total
  BY <1>3 DEF Compilable, EnoughReserve
<1>6. Total(b.tokens, Items) <= b.execution
  BY <1>3 DEF Compilable
<1>7. \A i, j \in Items : i # j /\ OverlapSets(b.own[i], b.own[j]) =>
         (j \in b.dependsOn[i] \/ i \in b.dependsOn[j]) /\ b.lead[i] = b.lead[j]
  BY <1>3 DEF Compilable, Planned
<1>8. Done(b) \subseteq proven
  BY <1>3 DEF Done, Completed
<1>9. \A i \in Items : b.tokens[i] > 0
  BY <1>2, <1>3 DEF Positive
<1>10. Sound(b)
  BY <1>3, <1>4, <1>5, <1>6, <1>7, <1>8, <1>9 DEF Sound, Consistent
<1>11. QED
  BY <1>10 DEF b

-----------------------------------------------------------------------------
(* The scheduling call                                                     *)

LEMMA OverlapIsSymmetric ==
    \A P, Q : OverlapSets(P, Q) <=> OverlapSets(Q, P)
  BY DEF OverlapSets, Overlap

LEMMA AskedIsSound ==
    ASSUME MissionsAssumption, IInv, NEW n \in Limits, Ask(n)
    PROVE  CallIsSound' /\ PassedAreHindered'
<1>1. /\ sched'.at = "deciding" /\ sched'.todo = Items /\ sched'.selected = {}
      /\ sched'.plan = bundle /\ sched'.locks = LaneLocks(bundle)
      /\ sched'.tokens = Max0(bundle.execution - spent - Reserved)
      /\ UNCHANGED <<lane, spent, proven>>
  BY DEF Ask
<1>2. Running' = Running /\ Reserved' = Reserved /\ Running \subseteq Items
  BY <1>1 DEF Running, Reserved
<1>3. Sound(bundle)
  BY DEF IInv, Ask
<1>4. Sound(sched.plan)'
  BY <1>1, <1>3 DEF Sound, Consistent, Done
<1>5. LocksAreHeld'
  <2>1. bundle.own \in [Items -> SUBSET Paths]
    BY DEF IInv, Typed, Bundles
  <2>2. \A i \in Running : \A p \in bundle.own[i] : <<i, p>> \in LaneLocks(bundle)
    BY <1>2, <2>1 DEF LaneLocks
  <2>3. QED
    BY <1>1, <1>2, <2>2 DEF LocksAreHeld
<1>6. BudgetIsKept'
  <2>1. bundle.execution \in Nat /\ spent \in Nat /\ Reserved \in Nat
    BY ReservedIsNat DEF IInv, Typed, TypeOK, Bundles
  <2>2. Total(sched'.plan.tokens, sched'.selected) = 0
    BY <1>1, TotalOfNone
  <2>3. \/ spent + Reserved + 0 + sched'.tokens <= bundle.execution
        \/ sched'.tokens = 0
    BY <1>1, <2>1 DEF Max0
  <2>4. QED
    BY <1>1, <1>2, <2>2, <2>3 DEF BudgetIsKept
<1>7. CallIsSound'
  BY <1>1, <1>4, <1>5, <1>6 DEF CallIsSound
<1>8. PassedAreHindered'
  BY <1>1 DEF PassedAreHindered
<1>9. QED
  BY <1>7, <1>8

LEMMA DecidedIsSound ==
    ASSUME MissionsAssumption, IInv, NEW allowed \in BOOLEAN, Decide(allowed)
    PROVE  CallIsSound' /\ PassedAreHindered'
<1>0. /\ sched.at = "deciding" /\ UNCHANGED <<doc, bundle, lane, spent, proven>>
      /\ sched \in Calls /\ CallIsSound /\ PassedAreHindered
  BY DEF Decide, IInv, Typed
<1>1. PICK i \in sched.todo : sched' = Decided(sched, i, allowed)
  BY DEF Decide
<1> DEFINE c == sched
           b == sched.plan
<1>2. /\ b \in Bundles /\ c.todo \subseteq Items /\ c.selected \subseteq Items
      /\ c.tokens \in Nat /\ c.slots \in Nat /\ i \in Items
      /\ b.tokens \in [Items -> Nat] /\ b.execution \in Nat /\ b.dependsOn = Deps
      /\ b.own \in [Items -> SUBSET Paths] /\ spent \in Nat
  BY <1>0 DEF Calls, Bundles, IInv, Typed, TypeOK
<1>3. Running' = Running /\ Reserved' = Reserved /\ Running \subseteq Items
  BY <1>0 DEF Running, Reserved
<1>4. /\ Sound(b) /\ \A k \in c.selected : Deps[k] \subseteq proven
      /\ c.selected \cap (c.todo \cup Running) = {} /\ LocksAreHeld /\ BudgetIsKept
  BY <1>0 DEF CallIsSound
<1>5. /\ sched'.at = c.at /\ sched'.plan = b /\ sched'.todo = c.todo \ {i}
  BY <1>0, <1>1, DecidedCall
<1>6. Sound(sched.plan)'
  BY <1>0, <1>4, <1>5 DEF Sound, Consistent, Done
<1>7. \A j \in Items : Ready(b, j) <=> Ready(b, j)'
  BY <1>0, <1>5 DEF Ready
<1>8. CASE /\ \/ ~Ready(b, i) /\ sched'.denied = c.denied
              \/ sched'.denied = c.denied \cup {i}
              \/ Hindered(i) /\ sched'.denied = c.denied
           /\ sched'.selected = c.selected /\ sched'.slots = c.slots
           /\ sched'.tokens = c.tokens /\ sched'.locks = c.locks
  <2>1. LocksAreHeld' /\ BudgetIsKept'
    <3>1. LocksAreHeld'
      BY <1>3, <1>4, <1>5, <1>8 DEF LocksAreHeld
    <3>2. BudgetIsKept'
      BY <1>0, <1>3, <1>4, <1>5, <1>8 DEF BudgetIsKept
    <3>3. QED
      BY <3>1, <3>2
  <2>2. CallIsSound'
    BY <1>0, <1>3, <1>4, <1>5, <1>6, <1>8, <2>1 DEF CallIsSound
  <2>3. \A j \in Items : Hindered(j) <=> Hindered(j)'
    BY <1>5, <1>8 DEF Hindered, Affordable
  <2>4. ASSUME NEW j \in Items \ (sched'.todo \cup sched'.selected \cup sched'.denied),
               Ready(b, j)
        PROVE  Hindered(j)
    <3>1. CASE j = i
      BY <1>8, <2>4, <3>1
    <3>2. CASE j # i
      <4>1. j \in Items \ (c.todo \cup c.selected \cup c.denied)
        BY <1>5, <1>8, <2>4, <3>2
      <4>2. QED
        BY <1>0, <2>4, <4>1 DEF PassedAreHindered
    <3>3. QED
      BY <3>1, <3>2
  <2>5. PassedAreHindered'
    BY <1>5, <1>7, <2>3, <2>4 DEF PassedAreHindered
  <2>6. QED
    BY <2>2, <2>5
<1>9. CASE /\ Ready(b, i) /\ ~Conflict(b, i, c.locks)
           /\ Affordable(c, i) /\ c.slots > 0
           /\ sched'.denied = c.denied
           /\ sched'.selected = c.selected \cup {i}
           /\ sched'.slots = c.slots - 1
           /\ sched'.tokens = c.tokens - b.tokens[i]
           /\ sched'.locks = c.locks \cup ({i} \X b.own[i])
  <2>1. i \notin Running /\ Deps[i] \subseteq proven
    <3>1. ~lane[i].runs /\ Deps[i] \subseteq Done(b)
      BY <1>2, <1>9 DEF Ready
    <3>2. QED
      BY <1>4, <3>1 DEF Running, Sound
  <2>2. i \notin c.selected
    BY <1>4
  <2>3. LocksAreHeld'
    <3>1. \A k \in Running \cup sched'.selected : \A p \in b.own[k] : <<k, p>> \in sched'.locks
      BY <1>4, <1>9 DEF LocksAreHeld
    <3>2. ASSUME NEW j \in Running \cup c.selected, j # i
          PROVE  ~OverlapSets(b.own[i], b.own[j])
      <4>1. \A p \in b.own[j] : <<j, p>> \in c.locks
        BY <1>4 DEF LocksAreHeld
      <4>2. \A p \in b.own[j], q \in b.own[i] : ~Overlap(q, p)
        <5>1. SUFFICES ASSUME NEW p \in b.own[j], NEW q \in b.own[i], Overlap(q, p) PROVE FALSE
          OBVIOUS
        <5>2. <<j, p>> \in c.locks /\ <<j, p>>[1] # i /\ Overlap(q, <<j, p>>[2])
          BY <3>2, <4>1, <5>1
        <5>3. QED
          BY <1>9, <5>2 DEF Conflict
      <4>3. QED
        BY <4>2 DEF OverlapSets
    <3>3. \A k \in sched'.selected, j \in Running \cup sched'.selected :
             k # j => ~OverlapSets(b.own[k], b.own[j])
      <4>1. SUFFICES ASSUME NEW k \in sched'.selected,
                            NEW j \in Running \cup sched'.selected, k # j
                     PROVE  ~OverlapSets(b.own[k], b.own[j])
        OBVIOUS
      <4>2. CASE k = i
        BY <1>9, <3>2, <4>1, <4>2
      <4>3. CASE j = i
        <5>1. k \in c.selected
          BY <1>9, <4>1, <4>3
        <5>2. QED
          BY <3>2, <4>1, <4>3, <5>1, OverlapIsSymmetric
      <4>4. CASE k # i /\ j # i
        <5>1. k \in c.selected /\ j \in Running \cup c.selected
          BY <1>9, <4>1, <4>4
        <5>2. QED
          BY <1>4, <4>1, <5>1 DEF LocksAreHeld
      <4>5. QED
        BY <4>2, <4>3, <4>4
    <3>4. QED
      BY <1>3, <1>5, <3>1, <3>3 DEF LocksAreHeld
  <2>4. BudgetIsKept'
    <3>1. b.tokens[i] <= c.tokens /\ b.tokens[i] > 0 /\ b.tokens[i] \in Nat
      BY <1>2, <1>4, <1>9 DEF Affordable, Sound
    <3>2. spent + Reserved + Total(b.tokens, c.selected) + c.tokens <= b.execution
      BY <1>2, <1>4, <3>1 DEF BudgetIsKept
    <3>3. IsFiniteSet(c.selected)
      BY <1>2, RunningIsFinite
    <3>4. Total(b.tokens, c.selected \cup {i}) = Total(b.tokens, c.selected) + b.tokens[i]
      <4>1. \A j \in c.selected \cup {i} : b.tokens[j] \in Nat
        BY <1>2
      <4>2. QED
        BY <2>2, <3>3, <4>1, TotalWith
    <3>5. Total(b.tokens, c.selected) \in Nat
      <4>1. \A j \in c.selected : b.tokens[j] \in Nat
        BY <1>2
      <4>2. QED
        BY <3>3, <4>1, UnitsAreFinite
    <3>6. Reserved \in Nat
      BY ReservedIsNat DEF IInv, Typed
    <3>7. spent + Reserved + Total(b.tokens, c.selected \cup {i}) + (c.tokens - b.tokens[i])
             <= b.execution
      BY <1>2, <3>1, <3>2, <3>4, <3>5, <3>6
    <3>8. QED
      BY <1>0, <1>3, <1>5, <1>9, <3>7 DEF BudgetIsKept
  <2>5. CallIsSound'
    <3>1. sched'.selected \cap (sched'.todo \cup Running') = {}
      BY <1>3, <1>4, <1>5, <1>9, <2>1
    <3>2. \A k \in sched'.selected : Deps[k] \subseteq proven'
      BY <1>0, <1>4, <1>9, <2>1
    <3>3. QED
      BY <1>6, <2>3, <2>4, <3>1, <3>2 DEF CallIsSound
  <2>6. \A j \in Items : Hindered(j) => Hindered(j)'
    <3>1. ASSUME NEW j \in Items, Hindered(j) PROVE Hindered(j)'
      <4>1. b.tokens[j] \in Nat /\ b.tokens[i] \in Nat
        BY <1>2
      <4>2. CASE Conflict(b, j, c.locks)
        BY <1>5, <1>9, <4>2 DEF Hindered, Conflict
      <4>3. CASE ~Affordable(c, j)
        BY <1>2, <1>5, <1>9, <4>1, <4>3 DEF Hindered, Affordable
      <4>4. CASE c.slots = 0
        BY <1>9, <4>4
      <4>5. QED
        BY <3>1, <4>2, <4>3, <4>4 DEF Hindered
    <3>2. QED
      BY <3>1
  <2>7. \A j \in Items \ (sched'.todo \cup sched'.selected \cup sched'.denied) :
           j \in Items \ (c.todo \cup c.selected \cup c.denied)
    BY <1>5, <1>9
  <2>8. PassedAreHindered'
    BY <1>0, <1>5, <1>7, <2>6, <2>7 DEF PassedAreHindered
  <2>9. QED
    BY <2>5, <2>8
<1>10. QED
  BY <1>0, <1>1, <1>8, <1>9, DecidedCall

-----------------------------------------------------------------------------
(* The lanes                                                               *)

(* What starts fits what is left of the execution tokens.                  *)
LEMMA StartedIsSound ==
    ASSUME MissionsAssumption, IInv, Start
    PROVE  /\ LanesAreSound' /\ CallIsSound' /\ PassedAreHindered'
           /\ Running' \subseteq Running \/ spent + Reserved' <= sched.plan.execution
<1> DEFINE b == sched.plan
           S == sched.selected
<1>0. /\ sched' = NoCall /\ UNCHANGED <<doc, bundle, spent, proven>>
      /\ \A i \in Items : lane'[i] = IF i \in S
                THEN [runs |-> TRUE, own |-> b.own[i], tokens |-> b.tokens[i]] ELSE lane[i]
  BY DEF Start
<1>2. /\ b.tokens \in [Items -> Nat] /\ b.execution \in Nat /\ S \subseteq Items
      /\ b.own \in [Items -> SUBSET Paths] /\ spent \in Nat /\ sched.tokens \in Nat
      /\ lane \in [Items -> [runs : BOOLEAN, own : SUBSET Paths, tokens : Nat]]
  BY DEF IInv, Typed, TypeOK, Calls, Bundles
<1>1. /\ sched' = NoCall /\ UNCHANGED <<doc, bundle, spent, proven>>
      /\ \A i \in S : /\ lane'[i].runs /\ lane'[i].own = b.own[i]
                      /\ lane'[i].tokens = b.tokens[i]
      /\ \A i \in Items \ S : lane'[i] = lane[i]
  <2>1. \A i \in S :
           lane'[i] = [runs |-> TRUE, own |-> b.own[i], tokens |-> b.tokens[i]]
    BY <1>0, <1>2
  <2>2. \A i \in S : /\ lane'[i].runs /\ lane'[i].own = b.own[i]
                     /\ lane'[i].tokens = b.tokens[i]
    <3>1. SUFFICES ASSUME NEW i \in S
                   PROVE  /\ lane'[i].runs /\ lane'[i].own = b.own[i]
                          /\ lane'[i].tokens = b.tokens[i]
      OBVIOUS
    <3>2. lane'[i] = [runs |-> TRUE, own |-> b.own[i], tokens |-> b.tokens[i]]
      BY <2>1
    <3>3. QED
      BY <3>2
  <2>3. \A i \in Items \ S : lane'[i] = lane[i]
    BY <1>0
  <2>4. QED
    BY <1>0, <2>2, <2>3
<1>3. /\ Sound(b) /\ \A i \in S : Deps[i] \subseteq proven
      /\ S \cap Running = {} /\ LocksAreHeld /\ BudgetIsKept
  BY DEF Start, IInv, CallIsSound
<1>4. Running' = Running \cup S /\ Running \subseteq Items
  BY <1>1, <1>2 DEF Running
<1>5. CallIsSound' /\ PassedAreHindered'
  BY <1>1 DEF CallIsSound, PassedAreHindered, NoCall
<1>6. \A i \in Running : lane'[i] = lane[i]
  BY <1>1, <1>3, <1>4
<1>7. LanesAreSound'
  <2>1. ASSUME NEW i \in Running' PROVE Deps[i] \subseteq proven
    <3>1. CASE i \in S
      BY <1>3, <3>1
    <3>2. CASE i \in Running
      BY <3>2 DEF IInv, LanesAreSound
    <3>3. QED
      BY <1>4, <2>1, <3>1, <3>2
  <2>2. QED
    BY <1>1, <2>1 DEF LanesAreSound
<1>10. Running' \subseteq Running \/ spent + Reserved' <= b.execution
  <2> DEFINE f == [i \in Items |-> lane[i].tokens]
             g == [i \in Items |-> lane'[i].tokens]
  <2>1. SUFFICES ASSUME S # {} PROVE spent + Reserved' <= b.execution
    BY <1>4
  <2>2. spent + Reserved + Total(b.tokens, S) + sched.tokens <= b.execution
    BY <1>3, <2>1 DEF BudgetIsKept
  <2>3. IsFiniteSet(S) /\ IsFiniteSet(Running)
    BY <1>2, <1>4, RunningIsFinite
  <2>4. \A i \in Running : g[i] = f[i] /\ f[i] \in Nat
    BY <1>2, <1>4, <1>6
  <2>5. \A i \in S : g[i] = b.tokens[i] /\ b.tokens[i] \in Nat
    BY <1>1, <1>2
  <2>6. Reserved = Total(f, Running) /\ Reserved' = Total(g, Running \cup S)
    BY <1>4 DEF Reserved
  <2> HIDE DEF f, g
  <2>7. Total(g, Running) = Total(f, Running) /\ Total(g, S) = Total(b.tokens, S)
    BY <2>4, <2>5, TotalAgrees
  <2>8. \A i \in Running \cup S : g[i] \in Nat
    BY <2>4, <2>5
  <2>9. Total(g, Running \cup S) = Total(g, Running) + Total(g, S)
    BY <1>3, <2>3, <2>8, TotalOfDisjoint
  <2>10. Total(g, Running) \in Nat /\ Total(g, S) \in Nat
    <3>1. (\A i \in Running : g[i] \in Nat) /\ (\A i \in S : g[i] \in Nat)
      BY <2>8
    <3>2. QED
      BY <2>3, <3>1, UnitsAreFinite
  <2>11. QED
    BY <1>2, <2>2, <2>6, <2>7, <2>9, <2>10
<1>11. QED
  BY <1>5, <1>7, <1>10

(* A lane that ends gives its scopes back, and of its tokens at most what  *)
(* it did not use.                                                         *)
LEMMA EndedIsSound ==
    ASSUME MissionsAssumption, IInv, NEW i \in Items, End(i)
    PROVE  /\ LanesAreSound' /\ CallIsSound' /\ PassedAreHindered'
           /\ Running' \subseteq Running /\ \A j \in Running' : lane'[j] = lane[j]
<1>1. /\ UNCHANGED <<doc, bundle, proven, sched>> /\ sched.at # "deciding"
      /\ lane' = [lane EXCEPT ![i] = NoLane] /\ i \in Running
  BY DEF End, Free, Running
<1>2. PICK used \in {0, lane[i].tokens} : spent' = spent + used
  BY DEF End
<1>3. /\ lane \in [Items -> [runs : BOOLEAN, own : SUBSET Paths, tokens : Nat]]
      /\ spent \in Nat /\ Running \subseteq Items /\ sched.plan.execution \in Nat
      /\ sched.plan.tokens \in [Items -> Nat] /\ sched.selected \subseteq Items
      /\ sched.tokens \in Nat
  BY DEF IInv, Typed, TypeOK, Running, Calls, Bundles
<1>4. Running' = Running \ {i} /\ \A j \in Running' : lane'[j] = lane[j]
  BY <1>1, <1>3 DEF Running, NoLane
<1>5. LanesAreSound'
  BY <1>1, <1>4 DEF IInv, LanesAreSound
<1>6. PassedAreHindered'
  BY <1>1 DEF PassedAreHindered
<1>7. spent' + Reserved' <= spent + Reserved /\ Reserved' \in Nat /\ Reserved \in Nat
      /\ spent' \in Nat
  <2> DEFINE f == [j \in Items |-> lane[j].tokens]
             g == [j \in Items |-> lane'[j].tokens]
             R == Running \ {i}
  <2>1. IsFiniteSet(R)
    BY <1>3, RunningIsFinite
  <2>2. \A j \in R : g[j] = f[j]
    BY <1>3, <1>4
  <2>3. \A j \in R \cup {i} : f[j] \in Nat
    BY <1>1, <1>3
  <2>4. Reserved = Total(f, R \cup {i}) /\ Reserved' = Total(g, R) /\ f[i] = lane[i].tokens
    BY <1>1, <1>3, <1>4 DEF Reserved
  <2> HIDE DEF f, g
  <2>5. Total(g, R) = Total(f, R)
    BY <2>2, TotalAgrees
  <2>6. Total(f, R \cup {i}) = Total(f, R) + f[i]
    BY <2>1, <2>3, TotalWith
  <2>7. Total(f, R) \in Nat
    <3>1. \A j \in R : f[j] \in Nat
      BY <2>3
    <3>2. QED
      BY <2>1, <3>1, UnitsAreFinite
  <2>8. f[i] \in Nat
    BY <2>3
  <2>9. QED
    BY <1>2, <1>3, <2>4, <2>5, <2>6, <2>7, <2>8
<1>8. CallIsSound'
  <2>1. SUFFICES ASSUME sched.at # "idle" PROVE CallIsSound'
    BY <1>1 DEF CallIsSound
  <2>2. CallIsSound /\ Sound(sched.plan) /\ LocksAreHeld /\ BudgetIsKept
    BY <2>1 DEF IInv, CallIsSound
  <2>3. Sound(sched.plan)'
    BY <1>1, <2>2 DEF Sound, Consistent, Done
  <2>4. LocksAreHeld'
    BY <1>1, <1>4, <2>2 DEF LocksAreHeld
  <2>5. BudgetIsKept'
    <3>1. Total(sched.plan.tokens, sched.selected) \in Nat
      <4>1. \A j \in sched.selected : sched.plan.tokens[j] \in Nat
        BY <1>3
      <4>2. IsFiniteSet(sched.selected)
        BY <1>3, RunningIsFinite
      <4>3. QED
        BY <4>1, <4>2, UnitsAreFinite
    <3>2. \/ spent' + Reserved' + Total(sched.plan.tokens, sched.selected) + sched.tokens
                <= sched.plan.execution
          \/ sched.selected = {} /\ sched.tokens = 0
      <4>1. PICK n \in Nat, q \in Nat : n = spent' /\ q = Reserved'
        BY <1>7
      <4>2. PICK r \in Nat, t \in Nat : r = Reserved /\ t = Total(sched.plan.tokens, sched.selected)
        BY <1>7, <3>1
      <4>3. PICK m \in Nat, k \in Nat, e \in Nat :
              m = spent /\ k = sched.tokens /\ e = sched.plan.execution
        BY <1>3
      <4>4. n + q <= m + r
        BY <1>7, <4>1, <4>2, <4>3
      <4>5. (m + r) + t + k <= e \/ (sched.selected = {} /\ sched.tokens = 0)
        <5>1. CASE sched.selected = {} /\ sched.tokens = 0
          BY <5>1
        <5>2. CASE spent + Reserved + Total(sched.plan.tokens, sched.selected) + sched.tokens
                      <= sched.plan.execution
          BY <4>2, <4>3, <5>2
        <5>3. QED
          BY <2>2, <5>1, <5>2 DEF BudgetIsKept
      <4>6. m + r + t + k <= e => n + q + t + k <= e
        BY <4>4
      <4>7. QED
        BY <4>1, <4>2, <4>3, <4>5, <4>6
    <3>3. QED
      BY <1>1, <3>2 DEF BudgetIsKept
  <2>6. QED
    BY <1>1, <1>4, <2>1, <2>2, <2>3, <2>4, <2>5 DEF CallIsSound
<1>9. QED
  BY <1>4, <1>5, <1>6, <1>8

-----------------------------------------------------------------------------
(* The checkpoint a document names                                         *)

LEMMA RefStep ==
    ASSUME MissionsAssumption, Typed, RefIsReadable, [Next]_vars
    PROVE  RefIsReadable'
<1>0. /\ doc.ref \in 0..Len(checks) /\ \A c \in Clients : seen[c].ref \in 0..Len(checks)
      /\ Len(checks) \in Nat /\ doc \in Docs /\ seen \in [Clients -> Docs]
      /\ checks \in Seq(Projections)
  BY DEF RefIsReadable, Typed, TypeOK
<1>1. CASE UNCHANGED <<doc, checks, seen>>
  BY <1>0, <1>1 DEF RefIsReadable
<1>2. ASSUME NEW died \in BOOLEAN, Create(died) PROVE RefIsReadable'
  <2>1. doc' = [NoDoc EXCEPT !.exists = TRUE] /\ UNCHANGED <<checks, seen>>
    BY <1>2 DEF Create, Written
  <2>2. doc'.ref = 0
    BY <2>1 DEF NoDoc
  <2>3. QED
    BY <1>0, <2>1, <2>2 DEF RefIsReadable
<1>3. ASSUME NEW died \in BOOLEAN, CheckpointPost(died) PROVE RefIsReadable'
  <2>1. checks' = Append(checks, Projection(doc)) /\ UNCHANGED seen
    BY <1>3 DEF CheckpointPost, CheckpointFile
  <2>2. Len(checks') = Len(checks) + 1
    <3>1. Projection(doc) \in Projections
      BY <1>0, DocsAreTyped
    <3>2. QED
      BY <1>0, <2>1, <3>1
  <2>3. doc' = [doc EXCEPT !.ref = Len(checks) + 1] \/ doc' = doc
    BY <1>3 DEF CheckpointPost, CheckpointDone, Written
  <2>4. doc'.ref = Len(checks) + 1 \/ doc'.ref = doc.ref
    BY <1>0, <2>3 DEF Docs
  <2>5. QED
    BY <1>0, <2>1, <2>2, <2>4 DEF RefIsReadable
<1>4. ASSUME NEW died \in BOOLEAN, NEW c \in Clients, NEW i \in Items, NEW m \in Marks,
             Put(c, i, m, died)
      PROVE  RefIsReadable'
  <2> DEFINE d == [seen[c] EXCEPT !.status[i] = m[1], !.claim[i] = m[2]]
  <2>1. doc' = d /\ seen' = [seen EXCEPT ![c] = d] /\ UNCHANGED checks
    BY <1>4 DEF Put, Written
  <2>2. d.ref = seen[c].ref
    BY <1>0 DEF Docs
  <2> HIDE DEF d
  <2>3. \A e \in Clients : seen'[e] = IF e = c THEN d ELSE seen[e]
    BY <1>0, <2>1
  <2>4. QED
    BY <1>0, <2>1, <2>2, <2>3 DEF RefIsReadable
<1>5. ASSUME NEW c \in Clients, Read(c) PROVE RefIsReadable'
  <2>1. UNCHANGED <<doc, checks>> /\ seen' = [seen EXCEPT ![c] = doc]
    BY <1>5 DEF Read
  <2>2. \A e \in Clients : seen'[e] = IF e = c THEN doc ELSE seen[e]
    BY <1>0, <2>1
  <2>3. QED
    BY <1>0, <2>1, <2>2 DEF RefIsReadable
<1>6. QED
  BY <1>1, <1>2, <1>3, <1>4, <1>5 DEF Next, vars, Compile, Ask, Decide, Answer, Start, End

-----------------------------------------------------------------------------
(* The invariant is inductive                                              *)

LEMMA Initially ==
    ASSUME MissionsAssumption, Init
    PROVE  IInv
<1>1. NoDoc \in Docs /\ NoBundle \in Bundles /\ NoCall \in Calls
  BY DocsAreTyped, BundlesAreTyped, CallsAreTyped
<1>2. NoLane \in [runs : BOOLEAN, own : SUBSET Paths, tokens : Nat]
  BY DEF NoLane
<1>3. 0 \in Nat /\ 0 \in 0..MaxPuts /\ <<>> \in Seq(Projections)
  BY DEF MissionsAssumption
<1>4. /\ sched.at = "idle" /\ sched.selected = {} /\ sched.denied = {} /\ sched.todo = {}
      /\ sched.locks = {} /\ sched.tokens = 0 /\ sched.slots = 0
  BY DEF Init, NoCall
<1>5. TypeOK
  BY <1>1, <1>2, <1>3, <1>4 DEF Init, TypeOK
<1>6. Typed
  BY <1>1, <1>3, <1>5 DEF Init, Typed
<1>7. Running = {}
  BY DEF Init, Running, NoLane
<1>8. RefIsReadable
  BY DEF Init, RefIsReadable, NoDoc
<1>9. Completed(doc) \subseteq proven /\ ~bundle.exists
  BY DEF Init, Completed, NoDoc, NoBundle
<1>10. QED
  BY <1>4, <1>6, <1>7, <1>8, <1>9
     DEF IInv, LanesAreSound, CallIsSound, PassedAreHindered

LEMMA Stepwise ==
    ASSUME MissionsAssumption, IInv, [Next]_vars
    PROVE  IInv' /\ (Running' \subseteq Running \/ spent + Reserved' <= sched.plan.execution)
<1>0. /\ Typed /\ RefIsReadable /\ Completed(doc) \subseteq proven
      /\ (bundle.exists => Sound(bundle)) /\ LanesAreSound /\ CallIsSound
      /\ PassedAreHindered
  BY DEF IInv
<1>1. Typed' /\ RefIsReadable'
  BY <1>0, TypedStep, RefStep
<1> DEFINE Kept == /\ Completed(doc)' \subseteq proven'
                   /\ (bundle.exists => Sound(bundle))' /\ LanesAreSound'
                   /\ CallIsSound' /\ PassedAreHindered'
           Spares == Running' \subseteq Running \/ spent + Reserved' <= sched.plan.execution
<1>2. SUFFICES Kept /\ Spares
  BY <1>1 DEF IInv
<1>h. ASSUME UNCHANGED <<bundle, sched, lane, spent>>,
             proven \subseteq proven', Completed(doc') \subseteq proven'
      PROVE  Kept /\ Spares
  <2>1. Running' = Running
    BY <1>h DEF Running
  <2>2. (bundle.exists => Sound(bundle))'
    BY <1>0, <1>h, BundleStays
  <2>3. LanesAreSound' /\ CallIsSound' /\ PassedAreHindered'
    BY <1>0, <1>h, HostStep
  <2>4. QED
    BY <1>h, <2>1, <2>2, <2>3
<1>s. ASSUME UNCHANGED <<doc, bundle, proven>>
      PROVE  Completed(doc)' \subseteq proven' /\ (bundle.exists => Sound(bundle))'
  BY <1>0, <1>s, BundleStays
<1>3. ASSUME NEW died \in BOOLEAN, Create(died) PROVE Kept /\ Spares
  BY <1>3, <1>h DEF Create, Written
<1>4. ASSUME NEW died \in BOOLEAN, CheckpointPost(died) PROVE Kept /\ Spares
  <2>1. /\ UNCHANGED <<bundle, sched, lane, spent>>
        /\ proven \subseteq proven' /\ Completed(doc') \subseteq proven'
    BY <1>0, <1>4 DEF CheckpointPost, CheckpointDone, Written
  <2>2. QED
    BY <1>h, <2>1
<1>5. ASSUME NEW died \in BOOLEAN, NEW c \in Clients, NEW i \in Items, NEW m \in Marks,
             Put(c, i, m, died)
      PROVE  Kept /\ Spares
  BY <1>5, <1>h DEF Put, Written
<1>6. ASSUME NEW c \in Clients, Read(c) PROVE Kept /\ Spares
  BY <1>0, <1>6, <1>h DEF Read
<1>7. CASE Compile
  <2>1. UNCHANGED <<doc, sched, lane, spent, proven>>
    BY <1>7 DEF Compile
  <2>2. PICK d \in Drafts : Compilable(d) /\ bundle' = Bundle(d)
    BY <1>7 DEF Compile
  <2>3. Sound(bundle')
    BY <1>0, <2>2, CompiledIsSound DEF Typed
  <2>4. Sound(bundle)'
    BY <2>1, <2>3 DEF Sound, Consistent, Done
  <2>5. LanesAreSound' /\ CallIsSound' /\ PassedAreHindered'
    BY <1>0, <2>1, HostStep
  <2>6. Running' = Running
    BY <2>1 DEF Running
  <2>7. QED
    BY <1>0, <2>1, <2>4, <2>5, <2>6
<1>8. ASSUME NEW n \in Limits, Ask(n) PROVE Kept /\ Spares
  <2>1. UNCHANGED <<doc, bundle, lane, spent, proven>>
    BY <1>8 DEF Ask
  <2>2. CallIsSound' /\ PassedAreHindered'
    BY <1>8, AskedIsSound
  <2>3. Running' = Running /\ LanesAreSound'
    BY <1>0, <2>1 DEF Running, LanesAreSound
  <2>4. QED
    BY <1>s, <2>1, <2>2, <2>3
<1>9. ASSUME NEW allowed \in BOOLEAN, Decide(allowed) PROVE Kept /\ Spares
  <2>1. UNCHANGED <<doc, bundle, lane, spent, proven>>
    BY <1>9 DEF Decide
  <2>2. CallIsSound' /\ PassedAreHindered'
    BY <1>9, DecidedIsSound
  <2>3. Running' = Running /\ LanesAreSound'
    BY <1>0, <2>1 DEF Running, LanesAreSound
  <2>4. QED
    BY <1>s, <2>1, <2>2, <2>3
<1>10. CASE Answer
  <2>1. /\ UNCHANGED <<doc, bundle, lane, spent, proven>>
        /\ sched.at # "idle" /\ sched'.at = "answered"
        /\ sched'.plan = sched.plan /\ sched'.todo = sched.todo
        /\ sched'.selected = sched.selected /\ sched'.locks = sched.locks
        /\ sched'.tokens = sched.tokens
    BY <1>0, <1>10 DEF Answer, Typed, Calls
  <2>2. /\ Running' = Running /\ Reserved' = Reserved
        /\ LanesAreSound'
    BY <1>0, <2>1 DEF Running, Reserved, LanesAreSound
  <2>3. Sound(sched.plan) /\ LocksAreHeld /\ BudgetIsKept
    BY <1>0, <2>1 DEF CallIsSound
  <2>4. Sound(sched.plan)'
    BY <2>1, <2>3 DEF Sound, Consistent, Done
  <2>5. LocksAreHeld'
    BY <2>1, <2>2, <2>3 DEF LocksAreHeld
  <2>6. BudgetIsKept'
    BY <2>1, <2>2, <2>3 DEF BudgetIsKept
  <2>7. CallIsSound' /\ PassedAreHindered'
    BY <1>0, <2>1, <2>2, <2>4, <2>5, <2>6 DEF CallIsSound, PassedAreHindered
  <2>8. QED
    BY <1>s, <2>1, <2>2, <2>7
<1>11. CASE Start
  <2>1. UNCHANGED <<doc, bundle, proven>>
    BY <1>11 DEF Start
  <2>2. QED
    BY <1>s, <1>11, <2>1, StartedIsSound
<1>12. ASSUME NEW i \in Items, End(i) PROVE Kept /\ Spares
  <2>1. UNCHANGED <<doc, bundle, proven>>
    BY <1>12 DEF End
  <2>2. QED
    BY <1>s, <1>12, <2>1, EndedIsSound
<1>13. CASE UNCHANGED vars
  <2>1. UNCHANGED <<doc, bundle, sched, lane, spent, proven>>
    BY <1>13 DEF vars
  <2>2. QED
    BY <1>0, <1>h, <2>1
<1>14. QED
  BY <1>3, <1>4, <1>5, <1>6, <1>7, <1>8, <1>9, <1>10, <1>11, <1>12, <1>13 DEF Next

LEMMA SoundnessFollows ==
    ASSUME IInv
    PROVE  PlanIsSound
<1>1. RefIsReadable
  BY DEF IInv
<1>2. CompiledStaysConsistent
  BY DEF IInv, Sound, CompiledStaysConsistent
<1>3. WorkFollowsItsDependencies
  BY DEF IInv, LanesAreSound, WorkFollowsItsDependencies
<1>4. SelectionIsMaximal
  BY DEF IInv, PassedAreHindered, Hindered, SelectionIsMaximal
<1>5. SelectedScopesAreFree
  BY DEF IInv, CallIsSound, LocksAreHeld, SelectedScopesAreFree
<1>6. QED
  BY <1>1, <1>2, <1>3, <1>4, <1>5 DEF PlanIsSound

-----------------------------------------------------------------------------
(* What holds of every plan                                                *)

(* Documents, bundles, calls and lanes keep their types, and no call is    *)
(* left with a negative number of slots or tokens (scheduler.ts:151).      *)
THEOREM MissionsAreTyped ==
    ASSUME MissionsAssumption
    PROVE  Spec => []TypeOK
<1>1. Init => IInv
  BY Initially
<1>2. IInv /\ [Next]_vars => IInv'
  BY Stepwise
<1>3. IInv => TypeOK
  BY DEF IInv, Typed
<1>4. QED
  BY <1>1, <1>2, <1>3, PTL DEF Spec

(* For every plan, any clients that put stale documents back, any deaths   *)
(* between two writes and any sequence of calls: the checkpoint a document *)
(* names is on disk, a saved bundle passes again the checks it passed when *)
(* it was compiled, what is selected overlaps nothing that runs, an item   *)
(* runs after what it depends on was completed with evidence, and nothing  *)
(* that could start is passed over (persist.ts:263, receipts.ts:485,       *)
(* scheduler.ts:125, 151).                                                 *)
THEOREM PlansAreSound ==
    ASSUME MissionsAssumption
    PROVE  Spec => []PlanIsSound
<1>1. Init => IInv
  BY Initially
<1>2. IInv /\ [Next]_vars => IInv'
  BY Stepwise
<1>3. IInv => PlanIsSound
  BY SoundnessFollows
<1>4. QED
  BY <1>1, <1>2, <1>3, PTL DEF Spec

(* No step that starts a lane spends the integration and recovery reserves *)
(* of the bundle it was selected from: what has been consumed and what     *)
(* every lane holds fits its execution tokens (scheduler.ts:141-147).      *)
THEOREM ReservesAreKept ==
    ASSUME MissionsAssumption
    PROVE  Spec => ReservesAreProtected
<1>1. Init => IInv
  BY Initially
<1>2. IInv /\ [Next]_vars => IInv'
  BY Stepwise
<1>3. IInv /\ [Next]_vars =>
        [Running' \subseteq Running \/ spent + Reserved' <= sched.plan.execution]_vars
  BY Stepwise
<1>4. QED
  BY <1>1, <1>2, <1>3, PTL DEF Spec, ReservesAreProtected
=============================================================================
