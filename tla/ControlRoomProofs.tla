--------------------------- MODULE ControlRoomProofs ---------------------------
(* The panel of the durable missions, for every set of missions and documents,  *)
(* any writers and any order in which answers arrive.                           *)
EXTENDS ControlRoom, WellFoundedInduction, TLAPS

-----------------------------------------------------------------------------
(* What the host can hold, and what a fetch can bring                           *)

Submitted == Bodies \cup {Created(b) : b \in Bodies} \cup {Imported(b) : b \in Bodies}
Held == {NoBody} \cup {Sanitized(b) : b \in {d \in Submitted : Accepted(d)}}
Checks == {NoCheckpoint} \cup {Checkpoint(b, n) : b \in Held, n \in Nat}
Records == [body : Held, at : Nat, check : Checks]
Answers ==
    [kind : {"ok", "failed", None}, id : Missions \cup {None}, ids : SUBSET Missions,
     body : Held, at : Nat, check : Checks, persisted : BOOLEAN]
LegRecs == [stage : {"sent", "body", "done"}, ans : Answers]
Runs == [of : Missions \cup {"list"}, settled : BOOLEAN, since : Nat, leg : [Legs -> LegRecs]]
Details ==
    [status : {"idle", "loading", "ready", "error"}, m : Missions \cup {None},
     mission : Answers, check : Answers]

Typed ==
    /\ store \in [Missions -> Records] /\ writes \in 1..MaxWrites /\ open \in BOOLEAN
    /\ \A m \in Missions : store[m].at <= writes
    /\ list \in [status : {"loading", "ready", "error"}, ids : SUBSET Missions]
    /\ chosen \in Missions \cup {None} /\ detail \in Details
    /\ runs \in Seq(Runs) /\ Len(runs) <= MaxRuns
    /\ listRun \in 0..Len(runs) /\ detailRun \in 0..Len(runs) /\ due \in BOOLEAN

(* Each leg of a fetch of a mission is asked after the fetch began, and answers *)
(* with that mission as it was then or later.                                   *)
LegsAreTrue ==
    \A r \in DOMAIN runs :
        /\ runs[r].since <= writes
        /\ runs[r].of # "list" =>
            /\ runs[r].since <= store[runs[r].of].at
            /\ \A l \in Legs : runs[r].leg[l].ans.kind = "ok" =>
                /\ runs[r].leg[l].ans.id = runs[r].of
                /\ runs[r].since <= runs[r].leg[l].ans.at

(* The two effects: each knows its own fetch, and the detail is about the       *)
(* mission its fetch is for.                                                    *)
PanelIsTrue ==
    /\ listRun # 0 => runs[listRun].of = "list"
    /\ detailRun # 0 =>
        runs[detailRun].of = detail.m /\ detail.m # "list" /\ detail.status # "idle"
    /\ open /\ detail.status # "idle" => detailRun # 0
    /\ open /\ ~due /\ detail.status # "idle" => detail.m = chosen
    /\ open /\ detail.status = "ready" =>
        detail.mission.id = detail.m /\ runs[detailRun].since <= detail.mission.at

IInv == Typed /\ LegsAreTrue /\ PanelIsTrue

-----------------------------------------------------------------------------
(* Lemmas                                                                       *)

LEMMA Least ==
    ASSUME NEW S \in SUBSET Nat, S # {}
    PROVE  \E m \in S : \A k \in S : m <= k
<1>1. PICK m \in S : \A k \in S : ~(<<k, m>> \in OpToRel(<, Nat))
  BY NatLessThanWellFounded, WFMin, Zenon
<1>2. \A k \in S : ~(k < m)
  BY <1>1, Zenon DEF OpToRel
<1>3. QED
  BY <1>2

(* The list has a newest mission whenever it has one.                           *)
LEMMA NewestIsStored ==
    ASSUME Typed
    PROVE  Newest \in Missions \cup {None}
<1>1. CASE Stored = {}
  BY <1>1 DEF Newest
<1>2. CASE Stored # {}
  <2> DEFINE S == {writes - store[m].at : m \in Stored}
  <2>1. \A m \in Stored : m \in Missions /\ store[m].at \in Nat /\ writes \in Nat
                          /\ store[m].at <= writes
    BY DEF Typed, Stored, Records
  <2>2. S \in SUBSET Nat /\ S # {}
    BY <1>2, <2>1
  <2>3. PICK n \in S : \A k \in S : n <= k
    BY <2>2, Least
  <2>4. PICK m \in Stored : n = writes - store[m].at
    OBVIOUS
  <2>5. \A k \in Stored : store[k].at <= store[m].at
    <3>1. SUFFICES ASSUME NEW k \in Stored PROVE store[k].at <= store[m].at
      OBVIOUS
    <3>2. writes - store[k].at \in S
      OBVIOUS
    <3>3. writes - store[m].at <= writes - store[k].at
      BY <2>3, <2>4, <3>2
    <3>4. QED
      BY <2>1, <3>3
  <2>6. Newest \in Stored
    BY <1>2, <2>5 DEF Newest
  <2>7. QED
    BY <2>1, <2>6
<1>3. QED
  BY <1>1, <1>2

LEMMA Replaced ==
    ASSUME NEW S, NEW q \in Seq(S), NEW r \in DOMAIN q, NEW x \in S
    PROVE  LET p == [q EXCEPT ![r] = x]
           IN  /\ p \in Seq(S) /\ Len(p) = Len(q) /\ p[r] = x
               /\ \A k \in DOMAIN q : k # r => p[k] = q[k]
  OBVIOUS

(* Whatever the host holds passed the sanitizer.                                *)
Backed(b) ==
    /\ \A i \in DOMAIN b.item :
            b.item[i].st = "completed" => b.item[i].out = "completed" /\ b.item[i].ev
    /\ \A s \in DOMAIN b.stone :
            b.stone[s].st = "completed" => b.stone[s].out = "completed" /\ b.stone[s].ev
    /\ \A e \in b.edges :
            e.sat => e.ev /\ e.from \in DOMAIN b.item \cup DOMAIN b.stone

LEMMA SubmittedIsShaped ==
    ASSUME ControlRoomAssumption, NEW b \in Submitted
    PROVE  /\ {"item", "stone", "edges"} \subseteq DOMAIN b
           /\ \A i \in DOMAIN b.item : b.item[i] \in Item
<1>1. \A d \in Bodies : /\ {"item", "stone", "edges"} \subseteq DOMAIN d
                        /\ \A i \in DOMAIN d.item : d.item[i] \in Item
  BY DEF ControlRoomAssumption, IsBody
<1>2. \A d \in Bodies :
        /\ DOMAIN Created(d) = DOMAIN d /\ Created(d).item = d.item
        /\ DOMAIN Imported(d) = DOMAIN d /\ Imported(d).item = d.item
  BY DEF Created, Imported
<1>3. QED
  BY <1>1, <1>2 DEF Submitted

LEMMA HeldIsBacked ==
    ASSUME ControlRoomAssumption, NEW b \in Held
    PROVE  Backed(b)
<1>1. CASE b = NoBody
  <2>1. b.item = <<>> /\ b.stone = <<>> /\ b.edges = {}
    BY <1>1 DEF NoBody
  <2>2. DOMAIN b.item = {} /\ DOMAIN b.stone = {}
    BY <2>1
  <2>3. QED
    BY <2>1, <2>2 DEF Backed
<1>2. CASE b # NoBody
  <2>1. PICK d \in Submitted : Accepted(d) /\ b = Sanitized(d)
    BY <1>2 DEF Held
  <2>2. /\ {"item", "stone", "edges"} \subseteq DOMAIN d
        /\ \A i \in DOMAIN d.item : d.item[i] \in Item
    BY SubmittedIsShaped
  <2>3. /\ b.item = [i \in DOMAIN d.item |-> Known(d.item[i])]
        /\ b.stone = d.stone /\ b.edges = d.edges
    BY <2>1, <2>2 DEF Sanitized
  <2>4. ASSUME NEW i \in DOMAIN b.item, b.item[i].st = "completed"
        PROVE  b.item[i].out = "completed" /\ b.item[i].ev
    <3>1. i \in DOMAIN d.item /\ b.item[i] = Known(d.item[i]) /\ d.item[i] \in Item
      BY <2>2, <2>3
    <3>2. b.item[i] = d.item[i]
      BY <2>4, <3>1 DEF Known, Item
    <3>3. CompletionOk(d.item[i])
      BY <2>1, <3>1 DEF Accepted, ItemOk
    <3>4. QED
      BY <2>4, <3>2, <3>3 DEF CompletionOk
  <2>5. \A s \in DOMAIN b.stone :
            b.stone[s].st = "completed" => b.stone[s].out = "completed" /\ b.stone[s].ev
    BY <2>1, <2>3 DEF Accepted, StoneOk
  <2>6. DOMAIN b.item = DOMAIN d.item
    BY <2>3
  <2>7. \A e \in b.edges : e.sat => e.ev /\ e.from \in DOMAIN b.item \cup DOMAIN b.stone
    BY <2>1, <2>3, <2>6 DEF Accepted, EdgeOk
  <2>8. QED
    BY <2>4, <2>5, <2>7 DEF Backed
<1>3. QED
  BY <1>1, <1>2

-----------------------------------------------------------------------------
(* Types of what is built                                                       *)

LEMMA ValuesAreTyped ==
    /\ NoBody \in Held /\ NoCheckpoint \in Checks /\ NoRecord \in Records
    /\ NoAnswer.kind = None /\ Failed.kind = "failed"
    /\ Idle.status = "idle" /\ Idle.m = None
    /\ Typed => NoAnswer \in Answers /\ Failed \in Answers /\ ReadList \in Answers
    /\ Typed => Leg \in LegRecs /\ Done \in LegRecs /\ Idle \in Details
<1>1. NoBody \in Held /\ NoCheckpoint \in Checks
  BY DEF Held, Checks
<1>2. NoRecord \in Records
  BY <1>1 DEF NoRecord, Records
<1>3. NoAnswer.kind = None /\ Failed.kind = "failed"
  BY DEF NoAnswer, Failed, ReadList
<1>4. ASSUME Typed PROVE NoAnswer \in Answers /\ Failed \in Answers /\ ReadList \in Answers
  <2>1. Newest \in Missions \cup {None} /\ Stored \subseteq Missions
    BY <1>4, NewestIsStored DEF Stored
  <2>2. ReadList \in Answers
    BY <1>1, <2>1 DEF ReadList, Answers
  <2>3. NoAnswer \in Answers
    BY <2>2 DEF NoAnswer, Answers
  <2>4. QED
    BY <2>2, <2>3 DEF Failed, Answers
<1>5. ASSUME Typed PROVE Leg \in LegRecs /\ Done \in LegRecs /\ Idle \in Details
  BY <1>4, <1>5 DEF Leg, Done, LegRecs, Idle, Details
<1>6. Idle.status = "idle" /\ Idle.m = None
  BY DEF Idle
<1>7. QED
  BY <1>1, <1>2, <1>3, <1>4, <1>5, <1>6

(* What a handler answers of a mission is what the host holds of it.            *)
LEMMA ReadIsTrue ==
    ASSUME Typed, NEW m \in Missions, NEW a \in {Read(m), ReadCheckpoint(m)}
    PROVE  a \in Answers /\ a.kind = "ok" /\ a.id = m /\ a.at = store[m].at
<1>1. store[m] \in Records
  BY DEF Typed
<1>2. /\ store[m].body \in Held /\ store[m].at \in Nat /\ store[m].check \in Checks
      /\ Checkpoint(store[m].body, store[m].at) \in Checks /\ NoCheckpoint \in Checks
  BY <1>1 DEF Records, Checks
<1>3. /\ Read(m) \in Answers /\ Read(m).kind = "ok" /\ Read(m).id = m
      /\ Read(m).at = store[m].at
  BY <1>2 DEF Read, Answers
<1> DEFINE c == IF store[m].check.exists THEN store[m].check
                ELSE Checkpoint(store[m].body, store[m].at)
<1>4. c \in Checks
  BY <1>2
<1>5. store[m].check.exists \in BOOLEAN
  <2>1. CASE store[m].check = NoCheckpoint
    BY <2>1 DEF NoCheckpoint
  <2>2. CASE store[m].check # NoCheckpoint
    <3>1. PICK b \in Held, n \in Nat : store[m].check = Checkpoint(b, n)
      BY <1>2, <2>2 DEF Checks
    <3>2. QED
      BY <3>1 DEF Checkpoint
  <2>3. QED
    BY <2>1, <2>2
<1>6. ReadCheckpoint(m) = [Read(m) EXCEPT !.check = c, !.persisted = store[m].check.exists]
  BY DEF ReadCheckpoint
<1> HIDE DEF c
<1>7. /\ ReadCheckpoint(m) \in Answers /\ ReadCheckpoint(m).kind = "ok"
      /\ ReadCheckpoint(m).id = m /\ ReadCheckpoint(m).at = store[m].at
  BY <1>3, <1>4, <1>5, <1>6 DEF Answers
<1>8. QED
  BY <1>3, <1>7

LEMMA AnswerIsTrue ==
    ASSUME Typed, LegsAreTrue, NEW r \in DOMAIN runs, NEW l \in Legs
    PROVE  /\ Answer(r, l) \in Answers
           /\ runs[r].of # "list" => /\ Answer(r, l).id = runs[r].of
                                     /\ runs[r].since <= Answer(r, l).at
<1>1. CASE runs[r].of = "list"
  BY <1>1, ValuesAreTyped DEF Answer
<1>2. CASE runs[r].of # "list"
  <2>1. runs[r].of \in Missions
    <3>1. runs[r] \in Runs
      BY DEF Typed
    <3>2. QED
      BY <1>2, <3>1 DEF Runs
  <2>2. Answer(r, l) \in {Read(runs[r].of), ReadCheckpoint(runs[r].of)}
    BY <1>2 DEF Answer
  <2>3. QED
    BY <1>2, <2>1, <2>2, ReadIsTrue DEF LegsAreTrue
<1>3. QED
  BY <1>1, <1>2

LEMMA RunIsTyped ==
    ASSUME Typed, NEW of \in Missions \cup {"list"}
    PROVE  /\ Run(of) \in Runs /\ Run(of).of = of /\ Run(of).since <= writes
           /\ of # "list" => Run(of).since = store[of].at
           /\ \A l \in Legs : Run(of).leg[l].ans.kind = None
<1> DEFINE since == IF of = "list" THEN 0 ELSE store[of].at
           leg == IF of = "list" THEN <<Leg, Done>> ELSE <<Leg, Leg>>
<1>1. Run(of) = [of |-> of, settled |-> FALSE, since |-> since, leg |-> leg]
  BY DEF Run
<1>2. since \in Nat /\ since <= writes
  BY DEF Typed, Records
<1>3. Leg \in LegRecs /\ Done \in LegRecs /\ Leg.ans.kind = None /\ Done.ans.kind = None
  BY ValuesAreTyped DEF Leg, Done
<1>4. leg \in [Legs -> LegRecs] /\ \A l \in Legs : leg[l].ans.kind = None
  BY <1>3 DEF Legs
<1>5. of # "list" => since = store[of].at
  OBVIOUS
<1> HIDE DEF since, leg
<1>6. QED
  BY <1>1, <1>2, <1>4, <1>5 DEF Runs

-----------------------------------------------------------------------------
(* What a step does to the fetches                                              *)

(* A fetch keeps what it is for and when it began; its legs change one at a     *)
(* time, or are forgotten when it is settled.                                   *)
Kept(r) == runs'[r].of = runs[r].of /\ runs'[r].since = runs[r].since

LEMMA RunsAreTyped ==
    ASSUME Typed
    PROVE  /\ DOMAIN runs = 1..Len(runs) /\ Len(runs) \in Nat
           /\ \A r \in DOMAIN runs :
                /\ runs[r] \in Runs /\ runs[r].of \in Missions \cup {"list"}
                /\ runs[r].since \in Nat /\ runs[r].leg \in [Legs -> LegRecs]
                /\ \A l \in Legs : runs[r].leg[l].ans \in Answers
<1>1. runs \in Seq(Runs)
  BY DEF Typed
<1>2. \A r \in DOMAIN runs : runs[r] \in Runs
  BY <1>1
<1>3. QED
  BY <1>1, <1>2 DEF Runs, LegRecs

LEMMA RunStarted ==
    ASSUME Typed, LegsAreTrue, UNCHANGED <<store, writes>>,
           NEW of \in Missions \cup {"list"}, runs' = Append(runs, Run(of))
    PROVE  /\ runs' \in Seq(Runs) /\ Len(runs') = Len(runs) + 1
           /\ runs'[Len(runs) + 1].of = of
           /\ \A r \in DOMAIN runs : runs'[r] = runs[r]
           /\ LegsAreTrue'
<1>1. /\ Run(of) \in Runs /\ Run(of).of = of /\ Run(of).since <= writes
      /\ of # "list" => Run(of).since = store[of].at
      /\ \A l \in Legs : Run(of).leg[l].ans.kind = None
  BY RunIsTyped
<1>2. runs \in Seq(Runs) /\ Len(runs) \in Nat
  BY DEF Typed
<1>3. /\ runs' \in Seq(Runs) /\ Len(runs') = Len(runs) + 1
      /\ runs'[Len(runs) + 1] = Run(of)
      /\ \A r \in DOMAIN runs : runs'[r] = runs[r]
  BY <1>1, <1>2
<1>4. ASSUME NEW r \in DOMAIN runs'
      PROVE  /\ runs'[r].since <= writes'
             /\ runs'[r].of # "list" =>
                  /\ runs'[r].since <= store'[runs'[r].of].at
                  /\ \A l \in Legs : runs'[r].leg[l].ans.kind = "ok" =>
                      /\ runs'[r].leg[l].ans.id = runs'[r].of
                      /\ runs'[r].since <= runs'[r].leg[l].ans.at
  <2>1. CASE r \in DOMAIN runs
    BY <1>3, <2>1 DEF LegsAreTrue
  <2>2. CASE r = Len(runs) + 1
    <3>1. runs'[r] = Run(of)
      BY <1>3, <2>2
    <3>2. Run(of).since \in Nat
      BY <1>1 DEF Runs
    <3>3. "ok" # None
      BY DEF None
    <3>4. QED
      BY <1>1, <3>1, <3>2, <3>3
  <2>3. QED
    BY <1>2, <1>3, <2>1, <2>2
<1>5. LegsAreTrue'
  BY <1>4 DEF LegsAreTrue
<1>6. QED
  BY <1>1, <1>3, <1>5

LEMMA LegSet ==
    ASSUME Typed, LegsAreTrue, NEW r \in DOMAIN runs, NEW l \in Legs,
           NEW leg \in LegRecs, SetLeg(r, l, leg),
           runs[r].of # "list" /\ leg.ans.kind = "ok" =>
               leg.ans.id = runs[r].of /\ runs[r].since <= leg.ans.at
    PROVE  /\ runs' \in Seq(Runs) /\ Len(runs') = Len(runs)
           /\ \A k \in DOMAIN runs : Kept(k)
           /\ LegsAreTrue'
<1> DEFINE x == [runs[r] EXCEPT !.leg = [runs[r].leg EXCEPT ![l] = leg]]
<1>1. runs' = [runs EXCEPT ![r] = x] /\ UNCHANGED <<store, writes>>
  BY DEF SetLeg, host
<1>2. runs[r] \in Runs /\ runs[r].leg \in [Legs -> LegRecs]
  BY RunsAreTyped
<1>3. /\ x \in Runs /\ x.of = runs[r].of /\ x.since = runs[r].since
      /\ \A k \in Legs : x.leg[k] = IF k = l THEN leg ELSE runs[r].leg[k]
  BY <1>2 DEF Runs
<1> HIDE DEF x
<1>4. /\ runs' \in Seq(Runs) /\ Len(runs') = Len(runs) /\ runs'[r] = x
      /\ \A k \in DOMAIN runs : k # r => runs'[k] = runs[k]
  BY <1>1, <1>3, Replaced DEF Typed
<1>5. DOMAIN runs' = DOMAIN runs
  BY <1>1
<1>6. \A k \in DOMAIN runs : Kept(k)
  BY <1>3, <1>4 DEF Kept
<1>7. \A k \in Legs : x.leg[k] = leg \/ x.leg[k] = runs[r].leg[k]
  BY <1>3
<1>8. ASSUME NEW k \in DOMAIN runs, runs[k].of # "list", NEW h \in Legs,
             runs'[k].leg[h].ans.kind = "ok"
      PROVE  /\ runs'[k].leg[h].ans.id = runs[k].of
             /\ runs[k].since <= runs'[k].leg[h].ans.at
  <2>1. CASE k # r
    BY <1>4, <1>8, <2>1 DEF LegsAreTrue
  <2>2. CASE k = r
    <3>1. runs'[k] = x
      BY <1>4, <2>2
    <3>2. x.leg[h] = leg \/ x.leg[h] = runs[r].leg[h]
      BY <1>7
    <3>3. QED
      BY <1>8, <2>2, <3>1, <3>2 DEF LegsAreTrue
  <2>3. QED
    BY <2>1, <2>2
<1>9. LegsAreTrue'
  BY <1>1, <1>5, <1>6, <1>8 DEF LegsAreTrue, Kept
<1>10. QED
  BY <1>4, <1>6, <1>9

LEMMA SettledRun ==
    ASSUME NEW w \in Runs, NEW g \in [Legs -> LegRecs]
    PROVE  LET x == [w EXCEPT !.settled = TRUE, !.leg = g]
           IN  x \in Runs /\ x.of = w.of /\ x.since = w.since /\ x.leg = g
<1> DEFINE y == [w EXCEPT !.settled = TRUE]
           z == [y EXCEPT !.leg = g]
<1>1. y \in Runs /\ y.of = w.of /\ y.since = w.since
  BY DEF Runs
<1>2. [w EXCEPT !.settled = TRUE, !.leg = g] = z
  OBVIOUS
<1> HIDE DEF y
<1>3. z \in Runs /\ z.of = y.of /\ z.since = y.since /\ z.leg = g
  BY <1>1 DEF Runs
<1> HIDE DEF z
<1>4. QED
  BY <1>1, <1>2, <1>3

LEMMA RunSettled ==
    ASSUME Typed, LegsAreTrue, UNCHANGED <<store, writes>>, NEW r \in DOMAIN runs, Settled(r)
    PROVE  /\ runs' \in Seq(Runs) /\ Len(runs') = Len(runs)
           /\ \A k \in DOMAIN runs : Kept(k)
           /\ LegsAreTrue'
<1> DEFINE x == [runs[r] EXCEPT !.settled = TRUE, !.leg = <<Done, Done>>]
<1>1. runs' = [runs EXCEPT ![r] = x]
  BY DEF Settled
<1>2. runs[r] \in Runs
  BY RunsAreTyped
<1>3. Done \in LegRecs /\ Done.ans.kind # "ok"
  BY ValuesAreTyped DEF Done, None
<1>4. <<Done, Done>> \in [Legs -> LegRecs]
  BY <1>3 DEF Legs
<1>5. /\ x \in Runs /\ x.of = runs[r].of /\ x.since = runs[r].since
      /\ \A k \in Legs : x.leg[k] = Done
  <2> DEFINE leg == <<Done, Done>>
  <2>1. leg \in [Legs -> LegRecs] /\ \A k \in Legs : leg[k] = Done
    BY <1>4 DEF Legs
  <2> HIDE DEF leg
  <2>2. x = [runs[r] EXCEPT !.settled = TRUE, !.leg = leg]
    BY DEF leg
  <2> HIDE DEF x
  <2>3. x \in Runs /\ x.of = runs[r].of /\ x.since = runs[r].since /\ x.leg = leg
    BY <1>2, <2>1, <2>2, SettledRun
  <2>4. QED
    BY <2>1, <2>3
<1> HIDE DEF x
<1>6. /\ runs' \in Seq(Runs) /\ Len(runs') = Len(runs) /\ runs'[r] = x
      /\ \A k \in DOMAIN runs : k # r => runs'[k] = runs[k]
  BY <1>1, <1>5, Replaced DEF Typed
<1>7. DOMAIN runs' = DOMAIN runs
  BY <1>1
<1>8. \A k \in DOMAIN runs : Kept(k)
  BY <1>5, <1>6 DEF Kept
<1>9. \A k \in DOMAIN runs, h \in Legs :
         runs'[k].leg[h].ans.kind = "ok" => runs'[k].leg[h] = runs[k].leg[h]
  BY <1>3, <1>5, <1>6
<1>10. LegsAreTrue'
  BY <1>7, <1>8, <1>9 DEF LegsAreTrue, Kept
<1>11. QED
  BY <1>6, <1>8, <1>10

-----------------------------------------------------------------------------
(* Steps of the host                                                            *)

LEMMA RecordReplaced ==
    ASSUME Typed, NEW m \in Missions, NEW rec \in Records, rec.at = writes + 1,
           store' = [store EXCEPT ![m] = rec], writes' = writes + 1, writes < MaxWrites,
           UNCHANGED <<panel>>, LegsAreTrue, PanelIsTrue, MaxWrites \in Nat
    PROVE  IInv'
<1>1. \A n \in Missions : /\ store'[n] = IF n = m THEN rec ELSE store[n]
                          /\ store[n].at \in Nat /\ store[n].at <= writes
  BY DEF Typed, Records
<1>2. /\ store' \in [Missions -> Records] /\ writes \in Nat /\ writes' \in 1..MaxWrites
      /\ \A n \in Missions : store'[n].at <= writes' /\ store[n].at <= store'[n].at
                             /\ store'[n].at \in Nat
  BY <1>1 DEF Typed
<1>3. Typed'
  BY <1>2 DEF Typed, panel
<1>4. LegsAreTrue'
  <2>1. SUFFICES ASSUME NEW r \in DOMAIN runs
                 PROVE  /\ runs[r].since <= writes'
                        /\ runs[r].of # "list" =>
                            /\ runs[r].since <= store'[runs[r].of].at
                            /\ \A l \in Legs : runs[r].leg[l].ans.kind = "ok" =>
                                /\ runs[r].leg[l].ans.id = runs[r].of
                                /\ runs[r].since <= runs[r].leg[l].ans.at
    BY DEF LegsAreTrue, panel
  <2>2. runs[r].since \in Nat /\ runs[r].of \in Missions \cup {"list"}
    BY RunsAreTyped
  <2>3. runs[r].since <= writes'
    BY <1>2, <2>2 DEF LegsAreTrue
  <2>4. runs[r].of # "list" => runs[r].since <= store'[runs[r].of].at
    <3>1. SUFFICES ASSUME runs[r].of # "list" PROVE runs[r].since <= store'[runs[r].of].at
      OBVIOUS
    <3>2. runs[r].of \in Missions /\ runs[r].since <= store[runs[r].of].at
      BY <2>2, <3>1 DEF LegsAreTrue
    <3>3. /\ store[runs[r].of].at <= store'[runs[r].of].at
          /\ store[runs[r].of].at \in Nat /\ store'[runs[r].of].at \in Nat
      BY <1>1, <1>2, <3>2
    <3>4. QED
      BY <2>2, <3>2, <3>3
  <2>5. QED
    BY <2>3, <2>4 DEF LegsAreTrue
<1>5. PanelIsTrue'
  BY DEF PanelIsTrue, panel
<1>6. QED
  BY <1>3, <1>4, <1>5 DEF IInv

LEMMA RecordWritten ==
    ASSUME NEW w \in Records, NEW n \in Nat
    PROVE  /\ \A b \in Held : LET x == [w EXCEPT !.body = b, !.at = n]
                              IN  x \in Records /\ x.at = n
           /\ \A c \in Checks : LET x == [w EXCEPT !.check = c, !.at = n]
                                IN  x \in Records /\ x.at = n
<1>1. ASSUME NEW y \in Records
      PROVE  [y EXCEPT !.at = n] \in Records /\ [y EXCEPT !.at = n].at = n
  BY DEF Records
<1>2. ASSUME NEW b \in Held
      PROVE  /\ [w EXCEPT !.body = b] \in Records
             /\ [w EXCEPT !.body = b, !.at = n] = [[w EXCEPT !.body = b] EXCEPT !.at = n]
  BY DEF Records
<1>3. ASSUME NEW c \in Checks
      PROVE  /\ [w EXCEPT !.check = c] \in Records
             /\ [w EXCEPT !.check = c, !.at = n] = [[w EXCEPT !.check = c] EXCEPT !.at = n]
  BY DEF Records
<1>4. QED
  BY <1>1, <1>2, <1>3

LEMMA HostWrites ==
    ASSUME ControlRoomAssumption, IInv, NEW m \in Missions,
           Create(m) \/ Import(m) \/ Put(m) \/ Post(m)
    PROVE  IInv'
<1>0. /\ Typed /\ LegsAreTrue /\ PanelIsTrue /\ MaxWrites \in Nat /\ store[m] \in Records
      /\ store \in [Missions -> Records] /\ writes \in Nat /\ writes + 1 \in Nat
  BY DEF IInv, ControlRoomAssumption, Typed
<1>1. ASSUME NEW b \in Submitted, Write(m, b) PROVE IInv'
  <2> DEFINE sb == Sanitized(b)
             rec == [store[m] EXCEPT !.body = sb, !.at = writes + 1]
  <2>1. store' = [store EXCEPT ![m] = rec] /\ writes' = writes + 1 /\ writes < MaxWrites
        /\ UNCHANGED <<panel>> /\ Accepted(b)
    BY <1>1 DEF Write
  <2>2. sb \in Held
    BY <2>1 DEF Held
  <2> HIDE DEF sb
  <2>3. rec \in Records /\ rec.at = writes + 1
    <3>1. store[m] \in Records /\ writes + 1 \in Nat
      BY <1>0
    <3>2. \A x \in Held : /\ [store[m] EXCEPT !.body = x, !.at = writes + 1] \in Records
                          /\ [store[m] EXCEPT !.body = x, !.at = writes + 1].at = writes + 1
      BY <3>1, RecordWritten
    <3>3. QED
      BY <2>2, <3>2
  <2> HIDE DEF rec
  <2>4. QED
    BY <1>0, <2>1, <2>3, RecordReplaced
<1>2. ASSUME Create(m) \/ Import(m) \/ Put(m) PROVE \E b \in Submitted : Write(m, b)
  BY <1>2 DEF Create, Import, Put, Submitted
<1>3. CASE Post(m)
  <2> DEFINE c == Checkpoint(store[m].body, store[m].at)
             rec == [store[m] EXCEPT !.check = c, !.at = writes + 1]
  <2>1. store' = [store EXCEPT ![m] = rec] /\ writes' = writes + 1 /\ writes < MaxWrites
        /\ UNCHANGED <<panel>>
    BY <1>3 DEF Post
  <2>2. store[m].body \in Held /\ store[m].at \in Nat
    BY <1>0 DEF Records
  <2>3. c \in Checks
    BY <2>2 DEF Checks
  <2> HIDE DEF c
  <2>4. rec \in Records /\ rec.at = writes + 1
    BY <1>0, <2>3, RecordWritten
  <2> HIDE DEF rec
  <2>5. QED
    BY <1>0, <2>1, <2>4, RecordReplaced
<1>4. QED
  BY <1>1, <1>2, <1>3

-----------------------------------------------------------------------------
(* Steps of the panel                                                           *)

LEMMA TypedPanel ==
    ASSUME Typed, UNCHANGED <<host>>, runs' \in Seq(Runs), Len(runs') <= MaxRuns,
           open' \in BOOLEAN, due' \in BOOLEAN, chosen' \in Missions \cup {None},
           list' \in [status : {"loading", "ready", "error"}, ids : SUBSET Missions],
           detail' \in Details, listRun' \in 0..Len(runs'), detailRun' \in 0..Len(runs')
    PROVE  Typed'
  BY DEF Typed, host

\* The panel moves and the fetches stay.
LEMMA TypedPanelOnly ==
    ASSUME ControlRoomAssumption, Typed, UNCHANGED <<host>>, UNCHANGED runs,
           open' \in BOOLEAN, due' \in BOOLEAN, chosen' \in Missions \cup {None},
           list' = list, detail' \in Details, listRun' \in {0, listRun},
           detailRun' \in {0, detailRun}
    PROVE  Typed'
<1>1. listRun' \in 0..Len(runs) /\ detailRun' \in 0..Len(runs)
  BY DEF Typed
<1>2. QED
  BY <1>1 DEF Typed, host

LEMMA PanelTypes ==
    ASSUME ControlRoomAssumption, Typed
    PROVE  /\ Len(runs) \in Nat /\ MaxRuns \in Nat /\ DOMAIN runs = 1..Len(runs)
           /\ runs \in Seq(Runs) /\ Len(runs) <= MaxRuns
           /\ listRun \in 0..Len(runs) /\ detailRun \in 0..Len(runs)
           /\ open \in BOOLEAN /\ due \in BOOLEAN /\ chosen \in Missions \cup {None}
           /\ list \in [status : {"loading", "ready", "error"}, ids : SUBSET Missions]
           /\ detail \in Details /\ detail.m \in Missions \cup {None}
           /\ list.ids \subseteq Missions
           /\ Loading \in [status : {"loading", "ready", "error"}, ids : SUBSET Missions]
           /\ "list" \notin Missions \cup {None} /\ Idle \in Details /\ Idle.status = "idle"
  BY ValuesAreTyped DEF Typed, Details, Loading, ControlRoomAssumption, None

LEMMA PanelStays ==
    ASSUME ControlRoomAssumption, Typed, PanelIsTrue, \A r \in DOMAIN runs : Kept(r),
           UNCHANGED <<open, chosen, detail, listRun, detailRun, due>>
    PROVE  PanelIsTrue'
<1>1. /\ listRun # 0 => listRun \in DOMAIN runs
      /\ detailRun # 0 => detailRun \in DOMAIN runs
  BY PanelTypes
<1>2. /\ listRun # 0 => runs'[listRun].of = runs[listRun].of
      /\ detailRun # 0 => /\ runs'[detailRun].of = runs[detailRun].of
                          /\ runs'[detailRun].since = runs[detailRun].since
  BY <1>1 DEF Kept
<1>3. detail.status = "ready" => detail.status # "idle"
  OBVIOUS
<1>4. QED
  BY <1>2, <1>3 DEF PanelIsTrue

LEMMA ListStarted ==
    ASSUME ControlRoomAssumption, IInv, Mount \/ RetryList
    PROVE  IInv'
<1>0. Typed /\ LegsAreTrue /\ PanelIsTrue
  BY DEF IInv
<1>1. /\ runs' = Append(runs, Run("list")) /\ listRun' = Len(runs) + 1 /\ list' = Loading
      /\ Len(runs) < MaxRuns /\ UNCHANGED <<host>> /\ UNCHANGED <<store, writes>>
  BY DEF Mount, RetryList, StartList, host
<1>2. /\ runs' \in Seq(Runs) /\ Len(runs') = Len(runs) + 1
      /\ runs'[Len(runs) + 1].of = "list"
      /\ \A r \in DOMAIN runs : runs'[r] = runs[r]
      /\ LegsAreTrue'
  BY <1>0, <1>1, RunStarted
<1>3. CASE Mount
  <2>1. /\ open' = TRUE /\ chosen' = None /\ detail' = Idle /\ detailRun' = 0 /\ due' = TRUE
    BY <1>3 DEF Mount
  <2>2. Typed'
    BY <1>0, <1>1, <1>2, <2>1, TypedPanel, PanelTypes
  <2>3. PanelIsTrue'
    <3>1. Idle.status = "idle"
      BY DEF Idle
    <3>2. QED
      BY <1>1, <1>2, <2>1, <3>1 DEF PanelIsTrue
  <2>4. QED
    BY <1>2, <2>2, <2>3 DEF IInv
<1>4. CASE RetryList
  <2>1. UNCHANGED <<open, chosen, detail, detailRun, due>>
    BY <1>4 DEF RetryList
  <2>2. Typed'
    BY <1>0, <1>1, <1>2, <2>1, TypedPanel, PanelTypes
  <2>3. detailRun # 0 => runs'[detailRun] = runs[detailRun]
    BY <1>0, <1>2, PanelTypes
  <2>4. PanelIsTrue'
    BY <1>0, <1>1, <1>2, <2>1, <2>3 DEF PanelIsTrue
  <2>5. QED
    BY <1>2, <2>2, <2>4 DEF IInv
<1>5. QED
  BY <1>3, <1>4

LEMMA EffectStep ==
    ASSUME ControlRoomAssumption, IInv, DetailEffect
    PROVE  IInv'
<1>0. /\ Typed /\ LegsAreTrue /\ PanelIsTrue /\ open /\ due' = FALSE
      /\ UNCHANGED <<host>> /\ UNCHANGED <<store, writes, open, list, chosen, listRun>>
  BY DEF IInv, DetailEffect, host
<1>1. CASE chosen = None /\ detail' = Idle /\ detailRun' = 0 /\ UNCHANGED runs
  <2>1. Typed'
    BY <1>0, <1>1, TypedPanelOnly, PanelTypes
  <2>2. LegsAreTrue'
    BY <1>0, <1>1 DEF LegsAreTrue
  <2>3. PanelIsTrue'
    BY <1>0, <1>1, PanelTypes DEF PanelIsTrue
  <2>4. QED
    BY <2>1, <2>2, <2>3 DEF IInv
<1>2. CASE /\ chosen # None /\ Len(runs) < MaxRuns
           /\ runs' = Append(runs, Run(chosen)) /\ detailRun' = Len(runs) + 1
           /\ detail' = [Idle EXCEPT !.status = "loading", !.m = chosen]
  <2>1. chosen \in Missions \cup {"list"} /\ chosen # "list"
    BY <1>0, <1>2, PanelTypes
  <2>2. /\ runs' \in Seq(Runs) /\ Len(runs') = Len(runs) + 1
        /\ runs'[Len(runs) + 1].of = chosen
        /\ \A r \in DOMAIN runs : runs'[r] = runs[r]
        /\ LegsAreTrue'
    BY <1>0, <1>2, <2>1, RunStarted
  <2>3. /\ detail' = [status |-> "loading", m |-> chosen, mission |-> NoAnswer, check |-> NoAnswer]
        /\ NoAnswer \in Answers
    BY <1>0, <1>2, ValuesAreTyped DEF Idle
  <2>4. detail' \in Details /\ detail'.status = "loading" /\ detail'.m = chosen
    BY <2>1, <2>3 DEF Details
  <2>5. Typed'
    <3>1. Len(runs') <= MaxRuns /\ detailRun' \in 0..Len(runs') /\ listRun' \in 0..Len(runs')
      BY <1>0, <1>2, <2>2, PanelTypes
    <3>2. open' \in BOOLEAN /\ due' \in BOOLEAN /\ chosen' \in Missions \cup {None}
          /\ list' \in [status : {"loading", "ready", "error"}, ids : SUBSET Missions]
      BY <1>0, PanelTypes
    <3>3. QED
      BY <1>0, <2>2, <2>4, <3>1, <3>2, TypedPanel
  <2>6. listRun # 0 => runs'[listRun] = runs[listRun]
    BY <1>0, <2>2, PanelTypes
  <2>7. PanelIsTrue'
    <3>1. listRun' # 0 => runs'[listRun'].of = "list"
      BY <1>0, <2>6 DEF PanelIsTrue
    <3>2. detailRun' # 0 /\ runs'[detailRun'].of = detail'.m /\ detail'.m = chosen'
      BY <1>0, <1>2, <2>2, <2>4
    <3>3. QED
      BY <2>1, <2>4, <3>1, <3>2, <1>0 DEF PanelIsTrue
  <2>8. QED
    BY <2>2, <2>5, <2>7 DEF IInv
<1>3. QED
  BY <1>1, <1>2 DEF DetailEffect

LEMMA CaptainStep ==
    ASSUME ControlRoomAssumption, IInv,
           Unmount \/ RetryDetail \/ \E m \in Missions : Choose(m)
    PROVE  IInv'
<1>0. /\ Typed /\ LegsAreTrue /\ PanelIsTrue
      /\ UNCHANGED <<host>> /\ UNCHANGED <<store, writes, list, detail, runs>>
  BY DEF IInv, Unmount, RetryDetail, Choose, host
<1>1. LegsAreTrue'
  BY <1>0 DEF LegsAreTrue
<1>2. CASE Unmount
  <2>1. open' = FALSE /\ listRun' = 0 /\ detailRun' = 0 /\ due' = FALSE /\ UNCHANGED chosen
    BY <1>2 DEF Unmount
  <2>2. Typed'
    BY <1>0, <2>1, TypedPanelOnly, PanelTypes
  <2>3. PanelIsTrue'
    BY <1>0, <2>1 DEF PanelIsTrue
  <2>4. QED
    BY <1>1, <2>2, <2>3 DEF IInv
<1>3. CASE RetryDetail
  <2>1. due' = TRUE /\ UNCHANGED <<open, chosen, listRun, detailRun>>
    BY <1>3 DEF RetryDetail
  <2>2. Typed'
    BY <1>0, <2>1, TypedPanelOnly, PanelTypes
  <2>3. PanelIsTrue'
    BY <1>0, <2>1 DEF PanelIsTrue
  <2>4. QED
    BY <1>1, <2>2, <2>3 DEF IInv
<1>4. ASSUME NEW m \in Missions, Choose(m) PROVE IInv'
  <2>1. chosen' = m /\ due' = (due \/ m # chosen) /\ UNCHANGED <<open, listRun, detailRun>>
    BY <1>4 DEF Choose
  <2>2. due' \in BOOLEAN
    BY <2>1
  <2>3. Typed'
    BY <1>0, <2>1, <2>2, TypedPanelOnly, PanelTypes
  <2>4. ~due' => ~due /\ chosen' = chosen
    BY <2>1
  <2>5. PanelIsTrue'
    BY <1>0, <2>1, <2>4 DEF PanelIsTrue
  <2>6. QED
    BY <1>1, <2>3, <2>5 DEF IInv
<1>5. QED
  BY <1>2, <1>3, <1>4

LEMMA LegStep ==
    ASSUME ControlRoomAssumption, IInv, NEW r, NEW l \in Legs,
           Headers(r, l) \/ BodyArrives(r, l) \/ TimesOut(r, l) \/ Fails(r, l)
    PROVE  IInv'
<1>0. Typed /\ LegsAreTrue /\ PanelIsTrue /\ r \in DOMAIN runs
  BY DEF IInv, Headers, BodyArrives, TimesOut, Fails, InState
<1>1. PICK leg : /\ SetLeg(r, l, leg) /\ leg \in LegRecs
                 /\ runs[r].of # "list" /\ leg.ans.kind = "ok" =>
                        leg.ans.id = runs[r].of /\ runs[r].since <= leg.ans.at
  <2>1. CASE Headers(r, l)
    <3> DEFINE leg == [stage |-> "body", ans |-> Answer(r, l)]
    <3>1. leg \in LegRecs
      BY <1>0, AnswerIsTrue DEF LegRecs
    <3>2. QED
      BY <1>0, <2>1, <3>1, AnswerIsTrue DEF Headers
  <2>2. CASE BodyArrives(r, l)
    <3> DEFINE leg == [stage |-> "done", ans |-> runs[r].leg[l].ans]
    <3>1. leg \in LegRecs
      BY <1>0, RunsAreTyped DEF LegRecs
    <3>2. QED
      BY <1>0, <2>2, <3>1 DEF BodyArrives, LegsAreTrue
  <2>3. CASE TimesOut(r, l) \/ Fails(r, l)
    <3> DEFINE leg == [stage |-> "done", ans |-> Failed]
    <3>1. leg \in LegRecs /\ leg.ans.kind # "ok"
      BY <1>0, ValuesAreTyped DEF LegRecs
    <3>2. SetLeg(r, l, leg)
      BY <2>3 DEF TimesOut, Fails
    <3>3. QED
      BY <3>1, <3>2
  <2>4. QED
    BY <2>1, <2>2, <2>3
<1>2. /\ runs' \in Seq(Runs) /\ Len(runs') = Len(runs)
      /\ \A k \in DOMAIN runs : Kept(k)
      /\ LegsAreTrue'
  BY <1>0, <1>1, LegSet
<1>3. /\ UNCHANGED <<host>>
      /\ UNCHANGED <<open, list, chosen, detail, listRun, detailRun, due>>
  BY <1>1 DEF SetLeg
<1>4. Typed'
  BY <1>0, <1>2, <1>3, TypedPanel, PanelTypes
<1>5. PanelIsTrue'
  BY <1>0, <1>2, <1>3, PanelStays
<1>6. QED
  BY <1>2, <1>4, <1>5 DEF IInv

LEMMA ListStep ==
    ASSUME ControlRoomAssumption, IInv, NEW r, ListAnswered(r)
    PROVE  IInv'
<1>0. /\ Typed /\ LegsAreTrue /\ PanelIsTrue /\ r \in DOMAIN runs /\ Settled(r)
      /\ UNCHANGED <<host>> /\ UNCHANGED <<store, writes, open, detail, listRun, detailRun>>
  BY DEF IInv, ListAnswered, Ended, host
<1>1. /\ runs' \in Seq(Runs) /\ Len(runs') = Len(runs)
      /\ \A k \in DOMAIN runs : Kept(k)
      /\ LegsAreTrue'
  BY <1>0, RunSettled
<1> DEFINE a == Ans(r, 1)
<1>2. a.ids \subseteq Missions /\ a.id \in Missions \cup {None}
  <2>1. a \in Answers
    BY <1>0, RunsAreTyped DEF Ans, Legs
  <2>2. QED
    BY <2>1 DEF Answers
<1>3. CASE UNCHANGED <<chosen, due>> /\ list' \in {list, [status |-> "error", ids |-> {}]}
  <2>1. list' \in [status : {"loading", "ready", "error"}, ids : SUBSET Missions]
    BY <1>0, <1>3, PanelTypes
  <2>2. Typed'
    BY <1>0, <1>1, <1>3, <2>1, TypedPanel, PanelTypes
  <2>3. PanelIsTrue'
    BY <1>0, <1>1, <1>3, PanelStays
  <2>4. QED
    BY <1>1, <2>2, <2>3 DEF IInv
<1>4. CASE /\ list' = [status |-> "ready", ids |-> a.ids]
           /\ chosen' = IF chosen \in a.ids THEN chosen ELSE a.id
           /\ due' = (due \/ chosen' # chosen)
  <2>1. /\ list' \in [status : {"loading", "ready", "error"}, ids : SUBSET Missions]
        /\ chosen' \in Missions \cup {None} /\ due' \in BOOLEAN
    BY <1>0, <1>2, <1>4, PanelTypes
  <2>2. Typed'
    BY <1>0, <1>1, <2>1, TypedPanel, PanelTypes
  <2>3. ~due' => ~due /\ chosen' = chosen
    BY <1>4
  <2>4. /\ listRun # 0 => runs'[listRun].of = runs[listRun].of
        /\ detailRun # 0 => /\ runs'[detailRun].of = runs[detailRun].of
                            /\ runs'[detailRun].since = runs[detailRun].since
    BY <1>0, <1>1, PanelTypes DEF Kept
  <2>5. detail.status = "ready" => detail.status # "idle"
    OBVIOUS
  <2>6. PanelIsTrue'
    BY <1>0, <2>3, <2>4, <2>5 DEF PanelIsTrue
  <2>7. QED
    BY <1>1, <2>2, <2>6 DEF IInv
<1>5. QED
  BY <1>3, <1>4 DEF ListAnswered

LEMMA DetailStep ==
    ASSUME ControlRoomAssumption, IInv, NEW r, DetailAnswered(r)
    PROVE  IInv'
<1>0. /\ Typed /\ LegsAreTrue /\ PanelIsTrue /\ r \in DOMAIN runs /\ Settled(r)
      /\ runs[r].of # "list" /\ UNCHANGED <<host>>
      /\ UNCHANGED <<store, writes, open, list, chosen, listRun, detailRun, due>>
  BY DEF IInv, DetailAnswered, Ended, host
<1>1. /\ runs' \in Seq(Runs) /\ Len(runs') = Len(runs)
      /\ \A k \in DOMAIN runs : Kept(k)
      /\ LegsAreTrue'
  BY <1>0, RunSettled
<1>2. CASE UNCHANGED detail
  <2>1. Typed'
    BY <1>0, <1>1, <1>2, TypedPanel, PanelTypes
  <2>2. PanelIsTrue'
    BY <1>0, <1>1, <1>2, PanelStays
  <2>3. QED
    BY <1>1, <2>1, <2>2 DEF IInv
<1> DEFINE a == Ans(r, 1)
           c == IF a.kind = "ok" THEN Ans(r, 2) ELSE NoAnswer
           st == IF a.kind = "ok" THEN "ready" ELSE "error"
<1>3. CASE /\ Live(r)
           /\ detail' = [status |-> st, m |-> runs[r].of, mission |-> a, check |-> c]
  <2>1. r = detailRun /\ runs[r].of = detail.m /\ detailRun # 0
    <3>1. r # 0
      BY <1>0, PanelTypes
    <3>2. r # listRun
      BY <1>0, <3>1 DEF PanelIsTrue
    <3>3. QED
      BY <1>0, <1>3, <3>1, <3>2 DEF Live, PanelIsTrue
  <2>2. a \in Answers /\ c \in Answers
    BY <1>0, RunsAreTyped, ValuesAreTyped DEF Ans, Legs
  <2>3. a.kind = "ok" => a.id = runs[r].of /\ runs[r].since <= a.at
    BY <1>0 DEF LegsAreTrue, Ans, Legs
  <2>4. runs[r].of \in Missions
    BY <1>0, RunsAreTyped
  <2>5. st \in {"ready", "error"} /\ (st = "ready" => a.kind = "ok")
    OBVIOUS
  <2> HIDE DEF a, c, st
  <2>6. detail' \in Details /\ detail'.m = detail.m /\ detail'.mission = a /\ detail'.status = st
    BY <1>3, <2>1, <2>2, <2>4, <2>5 DEF Details
  <2>7. Typed'
    BY <1>0, <1>1, <2>6, TypedPanel, PanelTypes
  <2>8. /\ listRun # 0 => runs'[listRun].of = runs[listRun].of
        /\ runs'[detailRun].of = runs[detailRun].of
        /\ runs'[detailRun].since = runs[detailRun].since
    BY <1>0, <1>1, <2>1, PanelTypes DEF Kept
  <2>9. open /\ ~due => detail.m = chosen
    <3>1. SUFFICES ASSUME open, ~due PROVE detail.m = chosen
      OBVIOUS
    <3>2. QED
      BY <1>0, <2>1, <3>1 DEF PanelIsTrue
  <2>10. PanelIsTrue'
    BY <1>0, <2>1, <2>3, <2>5, <2>6, <2>8, <2>9 DEF PanelIsTrue
  <2>11. QED
    BY <1>1, <2>7, <2>10 DEF IInv
<1>4. QED
  BY <1>2, <1>3 DEF DetailAnswered

-----------------------------------------------------------------------------
(* The invariant is inductive                                                   *)

LEMMA Initially ==
    ASSUME ControlRoomAssumption, Init
    PROVE  IInv
<1>0. PICK old \in {{}, Missions}, b \in {d \in Bodies : Accepted(d)} :
        store = [m \in Missions |-> IF m \in old THEN [NoRecord EXCEPT !.body = Sanitized(b), !.at = 1]
                                    ELSE NoRecord]
  BY DEF Init
<1>1. NoRecord \in Records /\ NoRecord.at = 0
  BY ValuesAreTyped DEF NoRecord
<1>2. Sanitized(b) \in Held
  BY DEF Held, Submitted
<1>3. [NoRecord EXCEPT !.body = Sanitized(b), !.at = 1] \in Records
      /\ [NoRecord EXCEPT !.body = Sanitized(b), !.at = 1].at = 1
  <2>1. \A x \in Held : /\ [NoRecord EXCEPT !.body = x, !.at = 1] \in Records
                        /\ [NoRecord EXCEPT !.body = x, !.at = 1].at = 1
    BY <1>1, RecordWritten
  <2>2. QED
    BY <1>2, <2>1
<1> DEFINE rec == [NoRecord EXCEPT !.body = Sanitized(b), !.at = 1]
<1> HIDE DEF rec
<1>4. store = [m \in Missions |-> IF m \in old THEN rec ELSE NoRecord]
  BY <1>0 DEF rec
<1>5. rec \in Records /\ rec.at = 1
  BY <1>3 DEF rec
<1>6. store \in [Missions -> Records] /\ \A m \in Missions : store[m].at <= 1
  BY <1>1, <1>4, <1>5
<1>7. /\ writes = 1 /\ open = FALSE /\ list = Loading /\ chosen = None /\ detail = Idle
      /\ runs = <<>> /\ listRun = 0 /\ detailRun = 0 /\ due = FALSE
  BY DEF Init
<1>8. NoAnswer \in Answers
  <2>1. Stored \subseteq Missions
    BY DEF Stored
  <2>2. \A m \in Stored : store[m].at = 1
    <3>1. \A m \in Missions : store[m].at = 0 \/ store[m].at = 1
      BY <1>1, <1>4, <1>5
    <3>2. QED
      BY <3>1 DEF Stored
  <2>3. Newest \in Missions \cup {None}
    <3>1. CASE Stored = {}
      BY <3>1 DEF Newest
    <3>2. CASE Stored # {}
      <4>1. \E m \in Stored : \A n \in Stored : store[n].at <= store[m].at
        BY <2>2, <3>2
      <4>2. Newest \in Stored
        BY <3>2, <4>1 DEF Newest
      <4>3. QED
        BY <2>1, <4>2
    <3>3. QED
      BY <3>1, <3>2
  <2>4. ReadList \in Answers
    BY <2>1, <2>3, ValuesAreTyped DEF ReadList, Answers
  <2>5. QED
    BY <2>4 DEF NoAnswer, Answers
<1>9. Idle \in Details
  BY <1>8 DEF Idle, Details
<1>10. Typed
  <2>1. runs \in Seq(Runs) /\ Len(runs) = 0
    BY <1>7
  <2>2. MaxRuns \in Nat /\ 1 \in 1..MaxWrites
    BY DEF ControlRoomAssumption
  <2>3. Loading \in [status : {"loading", "ready", "error"}, ids : SUBSET Missions]
    BY DEF Loading
  <2>4. open \in BOOLEAN /\ due \in BOOLEAN /\ chosen \in Missions \cup {None}
    BY <1>7
  <2>5. /\ store \in [Missions -> Records] /\ writes \in 1..MaxWrites
        /\ \A m \in Missions : store[m].at <= writes
    BY <1>6, <1>7, <2>2
  <2>6. /\ list \in [status : {"loading", "ready", "error"}, ids : SUBSET Missions]
        /\ detail \in Details
    BY <1>7, <1>9, <2>3
  <2>7. Len(runs) <= MaxRuns /\ listRun \in 0..Len(runs) /\ detailRun \in 0..Len(runs)
    BY <1>7, <2>1, <2>2
  <2>8. QED
    BY <2>1, <2>4, <2>5, <2>6, <2>7 DEF Typed
<1>11. LegsAreTrue /\ PanelIsTrue
  BY <1>7 DEF LegsAreTrue, PanelIsTrue
<1>12. QED
  BY <1>10, <1>11 DEF IInv

LEMMA Stepwise ==
    ASSUME ControlRoomAssumption, IInv, [Next]_vars
    PROVE  IInv'
<1>1. ASSUME NEW m \in Missions, Create(m) \/ Import(m) \/ Put(m) \/ Post(m) PROVE IInv'
  BY <1>1, HostWrites
<1>2. ASSUME NEW m \in Missions, Choose(m) PROVE IInv'
  BY <1>2, CaptainStep
<1>3. CASE Mount \/ RetryList
  BY <1>3, ListStarted
<1>4. CASE DetailEffect
  BY <1>4, EffectStep
<1>5. CASE Unmount \/ RetryDetail
  BY <1>5, CaptainStep
<1>6. ASSUME NEW r, NEW l \in Legs,
             Headers(r, l) \/ BodyArrives(r, l) \/ TimesOut(r, l) \/ Fails(r, l)
      PROVE  IInv'
  BY <1>6, LegStep
<1>7. ASSUME NEW r, ListAnswered(r) \/ DetailAnswered(r) PROVE IInv'
  BY <1>7, ListStep, DetailStep
<1>8. CASE UNCHANGED vars
  BY <1>8 DEF vars, IInv, Typed, LegsAreTrue, PanelIsTrue
<1>9. QED
  BY <1>1, <1>2, <1>3, <1>4, <1>5, <1>6, <1>7, <1>8 DEF Next

-----------------------------------------------------------------------------
(* What the panel shows                                                         *)

LEMMA ShownFollows ==
    ASSUME IInv
    PROVE  ShownIsAsked
<1>1. Shown.id = detail.mission.id /\ Shown.at = detail.mission.at
  BY DEF Shown, View
<1>2. PanelIsTrue
  BY DEF IInv
<1>3. IsShown => open /\ detail.status = "ready" /\ detail.m = chosen
  BY DEF IsShown
<1>4. Typed
  BY DEF IInv
<1>5. detailRun # 0 => runs[detailRun].since \in Nat
  BY <1>4, RunsAreTyped DEF Typed
<1>6. detail.mission.at \in Nat
  BY <1>4 DEF Typed, Details, Answers
<1>7. IsShown => Shown.id = chosen
  BY <1>1, <1>2, <1>3 DEF PanelIsTrue
<1>8. open /\ ~due /\ detail.status # "idle" => detail.m = chosen
  BY <1>2 DEF PanelIsTrue
<1>9. IsShown /\ ~due => Shown.at >= runs[detailRun].since
  <2>1. SUFFICES ASSUME IsShown PROVE Shown.at >= runs[detailRun].since
    OBVIOUS
  <2>2. detailRun # 0 /\ runs[detailRun].since <= detail.mission.at
    BY <1>2, <1>3, <2>1 DEF PanelIsTrue
  <2>3. QED
    BY <1>1, <1>5, <1>6, <2>2
<1>10. QED
  BY <1>7, <1>8, <1>9 DEF ShownIsAsked

LEMMA ProgressFollows ==
    ASSUME ControlRoomAssumption, IInv
    PROVE  ProgressIsBacked
<1> DEFINE b == detail.mission.body
<1>1. b \in Held
  BY DEF IInv, Typed, Details, Answers
<1>2. Backed(b)
  BY <1>1, HeldIsBacked
<1>3. /\ Shown.item = [i \in DOMAIN b.item |-> ItemView(b, i)]
      /\ Shown.stone = [s \in DOMAIN b.stone |-> StoneView(b, s)]
      /\ Shown.loose = Loose(b)
  BY DEF Shown, View
<1>4. DOMAIN Shown.item = DOMAIN b.item /\ DOMAIN Shown.stone = DOMAIN b.stone
  BY <1>3
<1>5. Listed \subseteq DOMAIN b.item
  <2>1. \A s \in DOMAIN b.stone : Shown.stone[s].items = Members(b, s)
    BY <1>3 DEF StoneView
  <2>2. Loose(b) \subseteq DOMAIN b.item /\ \A s : Members(b, s) \subseteq DOMAIN b.item
    BY DEF Members, Loose
  <2>3. SUFFICES ASSUME NEW i \in Listed PROVE i \in DOMAIN b.item
    OBVIOUS
  <2>4. i \in Loose(b) \/ \E s \in DOMAIN b.stone : i \in Members(b, s)
    <3>1. CASE i \in Shown.loose
      BY <1>3, <3>1
    <3>2. CASE i \in UNION {Shown.stone[s].items : s \in DOMAIN Shown.stone}
      <4>1. PICK U \in {Shown.stone[s].items : s \in DOMAIN Shown.stone} : i \in U
        BY <3>2
      <4>2. PICK s \in DOMAIN Shown.stone : U = Shown.stone[s].items
        BY <4>1
      <4>3. QED
        BY <1>4, <2>1, <4>1, <4>2
    <3>3. QED
      BY <3>1, <3>2 DEF Listed
  <2>5. QED
    BY <2>2, <2>4
<1>6. ASSUME NEW i \in Listed, Shown.item[i].st = "completed"
      PROVE  Shown.item[i].badge = "evidence"
  <2>1. i \in DOMAIN b.item
    BY <1>5
  <2>2. Shown.item[i].st = b.item[i].st /\ Shown.item[i].badge = Badge(b.item[i])
    BY <1>3, <2>1 DEF ItemView
  <2>3. b.item[i].st = "completed" /\ b.item[i].out = "completed" /\ b.item[i].ev
    BY <1>2, <1>6, <2>1, <2>2 DEF Backed
  <2>4. QED
    BY <2>2, <2>3 DEF Badge, None
<1>7. ASSUME NEW i \in Listed, Shown.item[i].deps = "satisfied", NEW e \in Incoming(b, i)
      PROVE  e.ev /\ e.from \in DOMAIN Shown.item \cup DOMAIN Shown.stone
  <2>1. Shown.item[i].deps = DepState(b, i)
    BY <1>3, <1>5 DEF ItemView
  <2>2. Waits(b, i) = {}
    BY <1>7, <2>1 DEF DepState, None
  <2>3. e \in b.edges /\ e.sat
    BY <2>2 DEF Waits, Incoming
  <2>4. QED
    BY <1>2, <1>4, <2>3 DEF Backed
<1>8. ASSUME NEW s \in DOMAIN Shown.stone, NEW r \in b.stone[s].deps \ Shown.stone[s].waits
      PROVE  \/ \E e \in b.edges : e.from = r /\ e.ev
             \/ r \in DOMAIN Shown.item /\ b.item[r].out # None
             \/ r \in DOMAIN Shown.stone /\ b.stone[r].ev
  <2>1. Shown.stone[s].waits = Unsatisfied(b, s)
    BY <1>3, <1>4 DEF StoneView
  <2> DEFINE edges == {e \in b.edges : e.to = s /\ e.from = r}
  <2>2. ~(IF edges # {} THEN ~(CHOOSE e \in edges : TRUE).sat
          ELSE IF r \in DOMAIN b.item THEN b.item[r].st # "completed" \/ b.item[r].out = None
          ELSE IF r \in DOMAIN b.stone THEN b.stone[r].st # "completed" ELSE TRUE)
    BY <2>1 DEF Unsatisfied
  <2>3. CASE edges # {}
    <3> DEFINE e == CHOOSE e \in edges : TRUE
    <3>1. e \in edges
      BY <2>3
    <3>2. e \in b.edges /\ e.from = r /\ e.sat
      BY <2>2, <2>3, <3>1
    <3>3. QED
      BY <1>2, <3>2 DEF Backed
  <2>4. CASE edges = {}
    BY <1>2, <1>4, <2>2, <2>4 DEF Backed
  <2>5. QED
    BY <2>3, <2>4
<1>9. QED
  BY <1>6, <1>7, <1>8 DEF ProgressIsBacked

-----------------------------------------------------------------------------
(* What holds for every set of missions and documents                           *)

(* Every fetch, list and detail of the panel keeps its type, and the newest     *)
(* mission of a list is one of the list (missions.ts:49).                       *)
THEOREM ControlRoomIsTyped ==
    ASSUME ControlRoomAssumption
    PROVE  Spec => []TypeOK
<1>1. Init => IInv
  BY Initially
<1>2. IInv /\ [Next]_vars => IInv'
  BY Stepwise
<1>3. IInv => TypeOK
  <2>1. SUFFICES ASSUME IInv PROVE TypeOK
    OBVIOUS
  <2>2. Typed /\ LegsAreTrue
    BY <2>1 DEF IInv
  <2>3. DOMAIN store = Missions /\ \A m \in Missions : store[m].at \in 0..writes
    BY <2>2 DEF Typed, Records
  <2>4. \A r \in DOMAIN runs : \A l \in Legs : runs[r].leg[l].stage \in {"sent", "body", "done"}
    BY <2>2, RunsAreTyped DEF LegRecs
  <2>5. \A r \in DOMAIN runs :
          runs[r].of \in Missions \cup {"list"} /\ runs[r].since \in 0..writes
    BY <2>2, RunsAreTyped DEF LegsAreTrue, Typed
  <2>6. QED
    BY <2>2, <2>3, <2>4, <2>5 DEF TypeOK, Typed, Details
<1>4. QED
  BY <1>1, <1>2, <1>3, PTL DEF Spec

(* Whatever order answers, timeouts and aborts of earlier fetches arrive in, and*)
(* whatever is written meanwhile: the plan on the screen is that of the mission *)
(* the select names, no older than the last time it was asked for, and the      *)
(* progress it claims rests on evidence (enterprise-screen.tsx:235, 955,        *)
(* validate.ts:382, 648).                                                       *)
THEOREM ScreensAreTrue ==
    ASSUME ControlRoomAssumption
    PROVE  Spec => []ScreenIsTrue
<1>1. Init => IInv
  BY Initially
<1>2. IInv /\ [Next]_vars => IInv'
  BY Stepwise
<1>3. IInv => ScreenIsTrue
  BY ShownFollows, ProgressFollows DEF ScreenIsTrue
<1>4. QED
  BY <1>1, <1>2, <1>3, PTL DEF Spec
=============================================================================
