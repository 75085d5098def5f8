---------------------------- MODULE EnterpriseProofs ----------------------------
(* The live teams of the Missions screen, for every set of teams, names and     *)
(* lanes and any number of jobs and clicks.                                     *)
EXTENDS Enterprise, FiniteSetTheorems, TLAPS

-----------------------------------------------------------------------------
(* What a row says of itself, on the screen and in the ledger                   *)

Rows(j) == {jobs[j], disk[j]}

(* A job continues an earlier one at most: neither its turn nor its worktree is *)
(* younger than it is.  What is not there says nothing.                         *)
RowsAreOld ==
    \A j \in Ids : \A r \in Rows(j) :
        /\ r.turn <= j /\ r.wt <= j /\ (r.team = None <=> r.turn = 0)
        /\ r.st = None => r.team = None /\ r.turn = 0 /\ r.wt = 0 /\ ~r.session /\ ~r.given
        /\ r.given => r.accepted

(* Jobs that were not made yet are nowhere, and a job is one job in both places.*)
NotYet == \A j \in Ids : j > made => jobs[j].st = None /\ disk[j].st = None /\ sent[j] = None
OneJob ==
    \A j \in Ids : jobs[j].st # None /\ disk[j].st # None =>
        jobs[j].team = disk[j].team /\ jobs[j].turn = disk[j].turn /\ jobs[j].wt = disk[j].wt

(* A follow-up is in the team its text was typed for, and the text that waits   *)
(* in the field is for the team on the screen.                                  *)
LettersAreAddressed ==
    /\ \A j \in Ids : \A r \in Rows(j) : sent[j] # None /\ r.st # None => sent[j] = r.team
    /\ typed # None => typed = Shown

IInv == TypeOK /\ RowsAreOld /\ NotYet /\ OneJob /\ LettersAreAddressed /\ AcceptedIsDurable

-----------------------------------------------------------------------------
(* Worktrees                                                                    *)

(* buildEnterpriseTeams: turn x of job i comes before turn y of job j           *)
Before(x, i, y, j) == x.turn < y.turn \/ (x.turn = y.turn /\ i < j)

(* A worktree has one team, and a job that has none yet will get one of its own.*)
WorktreesAreOwn ==
    \A i, j \in Ids : \A x \in Rows(i), y \in Rows(j) : i # j =>
        /\ x.wt # 0 /\ x.wt = y.wt => x.team = y.team
        /\ x.st # None /\ x.wt = 0 => y.wt # i

(* What is under way in a worktree is the last of those that were, also of those*)
(* the ledger still lists.                                                      *)
LastIsActive ==
    \A i, j \in Ids : i # j /\ jobs[i].wt # 0 =>
        /\ jobs[i].st \in Active /\ jobs[j].wt = jobs[i].wt => Before(jobs[j], j, jobs[i], i)
        /\ jobs[j].st = None /\ disk[j].wt = jobs[i].wt => Before(disk[j], j, jobs[i], i)

(* Until something fails, what the ledger believes under way is.                *)
LedgerIsCurrent ==
    faults = 0 => \A j \in Ids : disk[j].st \in Active => jobs[j].st = disk[j].st

TurnInv == WorktreesAreOwn /\ LastIsActive /\ LedgerIsCurrent

-----------------------------------------------------------------------------
(* The first and the last job of a team, and the newest team.  They are stated  *)
(* of any rows J, so that they can be compared before and after a step.         *)

Mine(J, t) == {j \in Ids : J[j].st # None /\ J[j].team = t}
Precedes(J, j, i) == J[j].turn < J[i].turn \/ (J[i].turn = J[j].turn /\ j <= i)
FirstIn(J, t) == CHOOSE j \in Mine(J, t) : \A i \in Mine(J, t) : Precedes(J, j, i)
LiveIn(J) == {t \in Teams : Mine(J, t) # {}}
NewestIn(J) == IF LiveIn(J) = {} THEN None
               ELSE CHOOSE t \in LiveIn(J) : \A u \in LiveIn(J) : FirstIn(J, u) <= FirstIn(J, t)

LEMMA Least ==
    ASSUME NEW S \in SUBSET Nat, S # {}
    PROVE  \E m \in S : \A k \in S : m <= k
<1>1. PICK m \in S : \A k \in S : ~(<<k, m>> \in OpToRel(<, Nat))
  BY NatLessThanWellFounded, WFMin, Zenon
<1>2. \A k \in S : ~(k < m)
  BY <1>1, Zenon DEF OpToRel
<1>3. QED
  BY <1>2

LEMMA Greatest ==
    ASSUME NEW m \in Nat, NEW S \in SUBSET (0..m), S # {}
    PROVE  \E n \in S : \A k \in S : k <= n
<1> DEFINE T == {i \in 0..m : m - i \in S}
<1>1. T \in SUBSET Nat
  OBVIOUS
<1>2. PICK s \in S : TRUE
  OBVIOUS
<1>3. m - s \in T
  <2>1. m - s \in 0..m /\ m - (m - s) = s
    BY <1>2
  <2>2. QED
    BY <1>2, <2>1
<1> HIDE DEF T
<1>4. PICK i \in T : \A k \in T : i <= k
  BY <1>1, <1>3, Least
<1> USE DEF T
<1>5. m - i \in S /\ i \in 0..m
  BY <1>4
<1>6. ASSUME NEW k \in S PROVE k <= m - i
  <2>1. m - k \in 0..m /\ m - (m - k) = k
    OBVIOUS
  <2>2. m - k \in T
    BY <2>1
  <2>3. i <= m - k
    BY <1>4, <2>2
  <2>4. QED
    BY <1>5, <2>1, <2>3
<1>7. QED
  BY <1>5, <1>6

LEMMA FirstIsLeast ==
    ASSUME EnterpriseAssumption, NEW J \in [Ids -> Jobs], NEW t, Mine(J, t) # {}
    PROVE  /\ FirstIn(J, t) \in Mine(J, t)
           /\ \A i \in Mine(J, t) : Precedes(J, FirstIn(J, t), i)
<1> DEFINE S == Mine(J, t)
           T == {n \in 0..MaxJobs : \E j \in S : J[j].turn = n}
<1>1. \A j \in Ids : J[j].turn \in 0..MaxJobs /\ j \in Nat
  BY DEF Jobs, Ids, EnterpriseAssumption
<1>2. S \in SUBSET Ids
  BY DEF Mine
<1>3. T \in SUBSET Nat /\ T # {}
  BY <1>1, <1>2 DEF EnterpriseAssumption
<1> HIDE DEF T
<1>4. PICK n \in T : \A k \in T : n <= k
  BY <1>3, Least
<1> USE DEF T
<1> DEFINE U == {j \in S : J[j].turn = n}
<1>5. U # {}
  BY <1>4
<1>6. U \in SUBSET Nat
  BY <1>1, <1>2
<1>7. PICK j \in U : \A i \in U : j <= i
  BY <1>5, <1>6, Least
<1>8. \A i \in S : n <= J[i].turn
  BY <1>1, <1>2, <1>4
<1>9. \A i \in S : Precedes(J, j, i)
  BY <1>1, <1>2, <1>3, <1>4, <1>7, <1>8 DEF Precedes
<1>10. j \in S
  OBVIOUS
<1> HIDE DEF S, T, U
<1>11. QED
  BY <1>9, <1>10 DEF FirstIn, S

LEMMA NewestIsNewest ==
    ASSUME EnterpriseAssumption, NEW J \in [Ids -> Jobs], LiveIn(J) # {}
    PROVE  /\ NewestIn(J) \in LiveIn(J)
           /\ \A u \in LiveIn(J) : FirstIn(J, u) <= FirstIn(J, NewestIn(J))
<1> DEFINE S == {i \in 0..MaxJobs : \E t \in LiveIn(J) : FirstIn(J, t) = i}
<1>1. \A t \in LiveIn(J) : FirstIn(J, t) \in 0..MaxJobs
  <2>1. \A t \in LiveIn(J) : FirstIn(J, t) \in Ids
    BY FirstIsLeast DEF LiveIn, Mine
  <2>2. QED
    BY <2>1 DEF Ids, EnterpriseAssumption
<1>2. S \in SUBSET (0..MaxJobs) /\ S # {}
  BY <1>1
<1>3. MaxJobs \in Nat
  BY DEF EnterpriseAssumption
<1> HIDE DEF S
<1>4. PICK n \in S : \A k \in S : k <= n
  BY <1>2, <1>3, Greatest
<1>5. PICK t \in LiveIn(J) : FirstIn(J, t) = n
  BY <1>4 DEF S
<1>6. \A u \in LiveIn(J) : FirstIn(J, u) <= FirstIn(J, t)
  BY <1>1, <1>4, <1>5 DEF S
<1>7. QED
  BY <1>6 DEF NewestIn

(* The newest team is the same while the teams and their first jobs are.        *)
LEMMA NewestStays ==
    ASSUME EnterpriseAssumption, NEW J \in [Ids -> Jobs], NEW K \in [Ids -> Jobs],
           LiveIn(K) = LiveIn(J),
           \A t \in LiveIn(J) : FirstIn(K, t) = FirstIn(J, t)
    PROVE  NewestIn(K) = NewestIn(J)
<1>1. CASE LiveIn(J) = {}
  BY <1>1 DEF NewestIn
<1>2. CASE LiveIn(J) # {}
  <2> DEFINE t == NewestIn(J)
             u == NewestIn(K)
  <2>1. t \in LiveIn(J) /\ \A v \in LiveIn(J) : FirstIn(J, v) <= FirstIn(J, t)
    BY <1>2, NewestIsNewest
  <2>2. u \in LiveIn(J) /\ \A v \in LiveIn(J) : FirstIn(J, v) <= FirstIn(J, u)
    BY <1>2, NewestIsNewest
  <2>3. FirstIn(J, t) \in Mine(J, t) /\ FirstIn(J, u) \in Mine(J, u)
    BY <2>1, <2>2, FirstIsLeast DEF LiveIn
  <2>4. FirstIn(J, t) \in Nat /\ FirstIn(J, u) \in Nat
    BY <2>3 DEF Mine, Ids, EnterpriseAssumption
  <2> HIDE DEF t, u
  <2>5. FirstIn(J, t) = FirstIn(J, u)
    BY <2>1, <2>2, <2>4
  <2>6. t = u
    BY <2>3, <2>5 DEF Mine
  <2>7. QED
    BY <2>6 DEF t, u
<1>3. QED
  BY <1>1, <1>2

(* What the screen and the panel of a team are about                            *)
LEMMA ShownIsNewest ==
    /\ Live = LiveIn(jobs) /\ Newest(Live) = NewestIn(jobs)
    /\ Shown = IF team # None THEN team ELSE NewestIn(jobs)
    /\ Live' = LiveIn(jobs') /\ Newest(Live)' = NewestIn(jobs')
    /\ Shown' = IF team' # None THEN team' ELSE NewestIn(jobs')
BY DEF Live, LiveIn, JobsOf, Mine, Newest, NewestIn, First, FirstIn, Precedes, Shown

LEMMA ShownIsTeam ==
    ASSUME EnterpriseAssumption, TypeOK
    PROVE  /\ Newest(Live) \in Teams \cup {None} /\ Shown \in Teams \cup {None}
           /\ Live # {} => Newest(Live) \in Live
<1>1. jobs \in [Ids -> Jobs] /\ team \in Teams \cup {None}
  BY DEF TypeOK
<1>2. Live # {} => NewestIn(jobs) \in Live
  BY <1>1, ShownIsNewest, NewestIsNewest
<1>3. Live = {} => NewestIn(jobs) = None
  BY ShownIsNewest DEF NewestIn
<1>4. Live \subseteq Teams
  BY DEF Live
<1>5. QED
  BY <1>1, <1>2, <1>3, <1>4, ShownIsNewest

LEMMA CurrentIsLast ==
    ASSUME EnterpriseAssumption, TypeOK, NEW t \in Live
    PROVE  /\ Current(t) \in JobsOf(t)
           /\ \A i \in JobsOf(t) : Precedes(jobs, i, Current(t))
<1> DEFINE S == JobsOf(t)
           T == {n \in 0..MaxJobs : \E j \in S : jobs[j].turn = n}
<1>1. \A j \in Ids : jobs[j].turn \in 0..MaxJobs /\ j \in 0..MaxJobs /\ j \in Nat
  BY DEF TypeOK, Jobs, Ids, EnterpriseAssumption
<1>2. S \in SUBSET Ids /\ S # {} /\ MaxJobs \in Nat
  BY DEF JobsOf, Live, EnterpriseAssumption
<1>3. T \in SUBSET (0..MaxJobs) /\ T # {}
  BY <1>1, <1>2
<1> HIDE DEF T
<1>4. PICK n \in T : \A k \in T : k <= n
  BY <1>2, <1>3, Greatest
<1> USE DEF T
<1> DEFINE U == {j \in S : jobs[j].turn = n}
<1>5. U # {} /\ U \in SUBSET (0..MaxJobs)
  BY <1>1, <1>2, <1>4
<1> HIDE DEF U
<1>6. PICK j \in U : \A i \in U : i <= j
  BY <1>2, <1>5, Greatest
<1> USE DEF U
<1>7. \A i \in S : jobs[i].turn <= n
  BY <1>1, <1>2, <1>4
<1>8. \A i \in S : jobs[i].turn < jobs[j].turn \/ (jobs[i].turn = jobs[j].turn /\ i <= j)
  BY <1>1, <1>2, <1>6, <1>7
<1>9. j \in JobsOf(t)
  BY <1>6
<1> HIDE DEF S, T, U
<1>10. /\ Current(t) \in JobsOf(t)
       /\ \A i \in JobsOf(t) : jobs[i].turn < jobs[Current(t)].turn
                                \/ (jobs[i].turn = jobs[Current(t)].turn /\ i <= Current(t))
  BY <1>8, <1>9 DEF Current, S
<1>11. QED
  BY <1>10 DEF Precedes

-----------------------------------------------------------------------------
(* Steps of one row                                                             *)

LEMMA RowsAreTyped ==
    ASSUME EnterpriseAssumption, TypeOK, NEW j \in Ids, NEW r \in {jobs[j], disk[j]}
    PROVE  /\ r \in Jobs
           /\ r.st \in Active \cup Terminal \cup {None} /\ r.team \in Teams \cup {None}
           /\ r.turn \in Nat /\ r.wt \in Nat /\ r.session \in BOOLEAN /\ r.summary \in BOOLEAN
           /\ r.accepted \in BOOLEAN /\ r.given \in BOOLEAN /\ r.saved \in BOOLEAN
           /\ j \in Nat /\ j > 0 /\ j <= MaxJobs /\ MaxJobs \in Nat
<1>1. r \in Jobs /\ MaxJobs \in Nat
  BY DEF TypeOK, EnterpriseAssumption
<1>2. j \in Nat /\ j > 0 /\ j <= MaxJobs
  BY <1>1 DEF Ids
<1>3. QED
  BY <1>1, <1>2 DEF Jobs

(* What a handler that moves job j does to its row: the row keeps its team, its *)
(* turn and its worktree, unless it gets one of its own, which is written; it   *)
(* does not become active; the ledger keeps what it has or takes the row, as it *)
(* is or as it was.                                                             *)
Touches(j) ==
    /\ jobs' \in [Ids -> Jobs] /\ disk' \in [Ids -> Jobs]
    /\ \A i \in Ids \ {j} : jobs'[i] = jobs[i] /\ disk'[i] = disk[i]
    /\ disk'[j] \in {disk[j], jobs[j], jobs'[j]}
    /\ jobs[j].st # None /\ jobs'[j].st # None
    /\ jobs'[j].team = jobs[j].team /\ jobs'[j].turn = jobs[j].turn
    /\ \/ jobs'[j].wt = jobs[j].wt
       \/ jobs[j].wt = 0 /\ jobs'[j].wt = j /\ disk'[j] = jobs'[j]
    /\ jobs'[j].st \in Active => jobs[j].st \in Active
    /\ jobs'[j].given => jobs'[j].accepted
    /\ jobs'[j].given /\ j \notin saving' => disk'[j].accepted
    /\ saving \ {j} \subseteq saving'
    /\ faults' = 0 =>
        faults = 0 /\ (disk'[j] = jobs'[j] \/ jobs'[j].st = jobs[j].st)
    /\ UNCHANGED <<made, team, typed, sent>>

LEMMA RowIsTouched ==
    ASSUME EnterpriseAssumption, IInv, NEW j \in Ids, NEW r \in Jobs,
           jobs[j].st # None, r.st # None,
           r.team = jobs[j].team, r.turn = jobs[j].turn,
           jobs' = [jobs EXCEPT ![j] = r],
           disk' = disk \/ disk' = [disk EXCEPT ![j] = r],
           r.wt = jobs[j].wt \/ (jobs[j].wt = 0 /\ r.wt = j /\ disk' # disk),
           r.st \in Active => jobs[j].st \in Active,
           r.given => r.accepted,
           r.given => disk' # disk \/ j \in saving'
                        \/ (jobs[j].given /\ j \notin saving),
           saving \ {j} \subseteq saving',
           faults' = 0 => faults = 0 /\ (disk' # disk \/ r.st = jobs[j].st),
           UNCHANGED <<made, team, typed, sent>>
    PROVE  Touches(j)
<1>1. jobs \in [Ids -> Jobs] /\ disk \in [Ids -> Jobs] /\ jobs[j].given \in BOOLEAN
      /\ disk[j].accepted \in BOOLEAN
  BY RowsAreTyped DEF IInv, TypeOK
<1>2. /\ jobs' \in [Ids -> Jobs] /\ jobs'[j] = r
      /\ \A i \in Ids \ {j} : jobs'[i] = jobs[i]
  BY <1>1
<1>3. /\ disk' \in [Ids -> Jobs] /\ (disk'[j] = disk[j] \/ disk'[j] = r)
      /\ \A i \in Ids \ {j} : disk'[i] = disk[i]
      /\ disk' # disk => disk'[j] = r
  BY <1>1
<1>4. r.given /\ j \notin saving' => disk'[j].accepted
  BY <1>1, <1>3 DEF IInv, AcceptedIsDurable
<1>5. QED
  BY <1>2, <1>3, <1>4 DEF Touches

(* The rest of the type invariant while a row moves                             *)
LEMMA TouchedIsTyped ==
    ASSUME EnterpriseAssumption, IInv, NEW j \in Ids, Touches(j), saving' \subseteq Ids,
           faults' \in 0..MaxFaults, clicks' \in 0..MaxClicks,
           UNCHANGED <<crew, lanes, screen>>
    PROVE  TypeOK'
<1>1. \A i \in Ids : jobs'[i].team = jobs[i].team /\ jobs'[i].turn = jobs[i].turn
  BY DEF Touches
<1>2. \A i \in Ids : jobs'[i].team = None <=> jobs'[i].turn = 0
  BY <1>1 DEF IInv, TypeOK
<1>3. jobs' \in [Ids -> Jobs] /\ disk' \in [Ids -> Jobs] /\ made' = made /\ sent' = sent
  BY DEF Touches
<1>4. /\ crew' = crew /\ lanes' = lanes /\ draft' = draft /\ brief' = brief /\ team' = team
      /\ turn' = turn /\ person' = person /\ typed' = typed
  BY DEF screen
<1>5. QED
  BY <1>2, <1>3, <1>4 DEF IInv, TypeOK

RowStep(j) ==
    /\ Touches(j) /\ saving' \subseteq Ids /\ faults' \in 0..MaxFaults
    /\ clicks' \in 0..MaxClicks /\ UNCHANGED <<crew, lanes, screen>>

(* Stopped, or written to the ledger with the row                               *)
LEMMA WrittenRowSteps ==
    ASSUME EnterpriseAssumption, IInv, NEW j \in Ids, NEW r \in Jobs,
           jobs[j].st # None, r.st # None,
           r.team = jobs[j].team, r.turn = jobs[j].turn,
           jobs' = [jobs EXCEPT ![j] = r], disk' = [disk EXCEPT ![j] = jobs'[j]],
           r.wt = jobs[j].wt \/ (jobs[j].wt = 0 /\ r.wt = j),
           r.st \in Active => jobs[j].st \in Active,
           r.given => r.accepted,
           UNCHANGED <<made, saving, sent>>, UNCHANGED screen,
           faults' = faults \/ faults' = faults + 1
    PROVE  Touches(j)
<1>1. jobs \in [Ids -> Jobs] /\ disk \in [Ids -> Jobs]
  BY DEF IInv, TypeOK
<1>2. jobs'[j] = r
  BY <1>1
<1>3. disk' = [disk EXCEPT ![j] = r]
  BY <1>2
<1>4. team' = team /\ typed' = typed /\ made' = made /\ sent' = sent
  BY DEF screen
<1>5. faults \in Nat
  BY DEF IInv, TypeOK, EnterpriseAssumption
<1>6. jobs[j] \in Jobs /\ disk[j] \in Jobs /\ jobs[j].wt \in Nat
  BY <1>1 DEF Jobs, EnterpriseAssumption
<1>7. CASE disk' # disk
  <2>1. saving \ {j} \subseteq saving' /\ (faults' = 0 => faults = 0)
    BY <1>5
  <2>2. UNCHANGED <<made, team, typed, sent>>
    BY <1>4
  <2>3. r.wt = jobs[j].wt \/ (jobs[j].wt = 0 /\ r.wt = j /\ disk' # disk)
    BY <1>7
  <2>4. faults' = 0 => faults = 0 /\ (disk' # disk \/ r.st = jobs[j].st)
    BY <1>7, <2>1
  <2>5. QED
    BY <1>3, <1>7, <2>1, <2>2, <2>3, <2>4, RowIsTouched
<1>8. CASE disk' = disk
  <2>1. disk[j] = r
    BY <1>1, <1>3, <1>8
  <2>2. /\ jobs' \in [Ids -> Jobs] /\ disk' \in [Ids -> Jobs]
        /\ \A i \in Ids \ {j} : jobs'[i] = jobs[i] /\ disk'[i] = disk[i]
        /\ disk'[j] = r
    BY <1>1, <1>8, <2>1
  <2>3. QED
    BY <1>2, <1>4, <1>5, <2>2 DEF Touches
<1>9. QED
  BY <1>7, <1>8

LEMMA CancelTouches ==
    ASSUME EnterpriseAssumption, IInv, Cancel
    PROVE  \E j \in Ids : RowStep(j)
<1>1. PICK j \in Ids : /\ jobs[j].st \in Active /\ jobs' = [jobs EXCEPT ![j].st = "cancelled"]
                       /\ \/ disk' = [disk EXCEPT ![j] = jobs'[j]] /\ UNCHANGED faults
                          \/ Fault /\ UNCHANGED disk
  BY DEF Cancel
<1> DEFINE r == [jobs[j] EXCEPT !.st = "cancelled"]
<1>2. jobs[j] \in Jobs /\ jobs[j].st # None /\ jobs[j].given \in BOOLEAN
  BY <1>1, RowsAreTyped DEF IInv, Active, None
<1>3. /\ r \in Jobs /\ r.st = "cancelled" /\ r.team = jobs[j].team /\ r.turn = jobs[j].turn
      /\ r.wt = jobs[j].wt /\ r.given = jobs[j].given /\ r.accepted = jobs[j].accepted
  BY <1>2 DEF Jobs, Terminal, Retryable
<1>4. jobs' = [jobs EXCEPT ![j] = r]
  BY <1>1
<1>5. r.given => r.accepted
  BY <1>3 DEF IInv, RowsAreOld, Rows
<1>6. r.st # None /\ r.st \notin Active
  BY <1>3 DEF None, Active
<1>7. UNCHANGED <<made, saving, sent>> /\ UNCHANGED screen
  BY DEF Cancel
<1> HIDE DEF r
<1>8. clicks' \in 0..MaxClicks /\ saving' \subseteq Ids /\ UNCHANGED <<crew, lanes, screen>>
  BY DEF Cancel, Click, IInv, TypeOK, EnterpriseAssumption
<1>9. CASE disk' = [disk EXCEPT ![j] = jobs'[j]] /\ UNCHANGED faults
  <2>1. Touches(j)
    BY <1>1, <1>2, <1>3, <1>4, <1>5, <1>6, <1>7, <1>9, WrittenRowSteps
  <2>2. faults' \in 0..MaxFaults
    BY <1>9 DEF IInv, TypeOK
  <2>3. QED
    BY <1>8, <2>1, <2>2 DEF RowStep
<1>10. CASE Fault /\ UNCHANGED disk
  <2>1. faults' = faults + 1 /\ faults < MaxFaults /\ faults \in Nat /\ MaxFaults \in Nat
    BY <1>10 DEF Fault, IInv, TypeOK, EnterpriseAssumption
  <2>2. faults' # 0 /\ faults' \in 0..MaxFaults
    BY <2>1
  <2>3. disk' = disk /\ saving' = saving /\ UNCHANGED <<made, team, typed, sent>>
    BY <1>7, <1>10 DEF screen
  <2>4. r.given => j \in saving' \/ (jobs[j].given /\ j \notin saving)
    BY <1>3, <2>3
  <2>5. Touches(j)
    BY <1>2, <1>3, <1>4, <1>5, <1>6, <2>2, <2>3, <2>4, RowIsTouched
  <2>6. QED
    BY <1>8, <2>2, <2>5 DEF RowStep
<1>11. QED
  BY <1>1, <1>9, <1>10

LEMMA WrittenTouches ==
    ASSUME EnterpriseAssumption, IInv, Written
    PROVE  \E j \in Ids : RowStep(j)
<1>1. PICK j \in Ids : /\ jobs[j].st = "queued" /\ jobs' = [jobs EXCEPT ![j].saved = TRUE]
                       /\ disk' = [disk EXCEPT ![j] = jobs'[j]]
  BY DEF Written
<1> DEFINE r == [jobs[j] EXCEPT !.saved = TRUE]
<1>2. jobs[j] \in Jobs /\ jobs[j].st # None /\ jobs[j].given \in BOOLEAN
  BY <1>1, RowsAreTyped DEF IInv, None
<1>3. /\ r \in Jobs /\ r.st = jobs[j].st /\ r.team = jobs[j].team /\ r.turn = jobs[j].turn
      /\ r.wt = jobs[j].wt /\ r.given = jobs[j].given /\ r.accepted = jobs[j].accepted
  BY <1>2 DEF Jobs
<1>4. jobs' = [jobs EXCEPT ![j] = r]
  BY <1>1
<1>5. r.given => r.accepted
  BY <1>3 DEF IInv, RowsAreOld, Rows
<1>6. UNCHANGED <<made, saving, sent>> /\ UNCHANGED screen /\ faults' = faults
  BY DEF Written
<1> HIDE DEF r
<1>7. Touches(j)
  BY <1>1, <1>2, <1>3, <1>4, <1>5, <1>6, WrittenRowSteps
<1>8. QED
  BY <1>7 DEF RowStep, Written, IInv, TypeOK

LEMMA PrepareTouches ==
    ASSUME EnterpriseAssumption, IInv, Prepare
    PROVE  \E j \in Ids : RowStep(j)
<1>1. PICK j \in Ids : /\ jobs[j].st = "queued" /\ jobs' = [jobs EXCEPT ![j].st = "starting"]
                       /\ disk' = [disk EXCEPT ![j] = jobs'[j]]
  BY DEF Prepare
<1> DEFINE r == [jobs[j] EXCEPT !.st = "starting"]
<1>2. /\ jobs[j] \in Jobs /\ jobs[j].st # None /\ jobs[j].st \in Active
      /\ jobs[j].given \in BOOLEAN
  BY <1>1, RowsAreTyped DEF IInv, None, Active
<1>3. /\ r \in Jobs /\ r.st = "starting" /\ r.team = jobs[j].team /\ r.turn = jobs[j].turn
      /\ r.wt = jobs[j].wt /\ r.given = jobs[j].given /\ r.accepted = jobs[j].accepted
  BY <1>2 DEF Jobs, Active
<1>4. jobs' = [jobs EXCEPT ![j] = r]
  BY <1>1
<1>5. (r.given => r.accepted) /\ r.st # None
  BY <1>3 DEF IInv, RowsAreOld, Rows, None
<1>6. UNCHANGED <<made, saving, sent>> /\ UNCHANGED screen /\ faults' = faults
  BY DEF Prepare
<1> HIDE DEF r
<1>7. Touches(j)
  BY <1>1, <1>2, <1>3, <1>4, <1>5, <1>6, WrittenRowSteps
<1>8. QED
  BY <1>7 DEF RowStep, Prepare, IInv, TypeOK

LEMMA PrepareFailsTouches ==
    ASSUME EnterpriseAssumption, IInv, PrepareFails
    PROVE  \E j \in Ids : RowStep(j)
<1>1. PICK j \in Ids : /\ jobs[j].st = "starting"
                       /\ \E w \in {jobs[j].wt, IF jobs[j].wt = 0 THEN j ELSE jobs[j].wt} :
                            jobs' = [jobs EXCEPT ![j].st = "failed", ![j].wt = w]
                       /\ disk' = [disk EXCEPT ![j] = jobs'[j]]
  BY DEF PrepareFails
<1>2. PICK w \in {jobs[j].wt, IF jobs[j].wt = 0 THEN j ELSE jobs[j].wt} :
            jobs' = [jobs EXCEPT ![j].st = "failed", ![j].wt = w]
  BY <1>1
<1> DEFINE q == [jobs[j] EXCEPT !.st = "failed"]
           r == [q EXCEPT !.wt = w]
<1>3. /\ jobs[j] \in Jobs /\ jobs[j].st # None /\ jobs[j].given \in BOOLEAN
      /\ jobs[j].wt \in 0..MaxJobs /\ j \in 0..MaxJobs
  BY <1>1, RowsAreTyped DEF IInv, None, Jobs
<1>4. w \in 0..MaxJobs /\ (w = jobs[j].wt \/ (jobs[j].wt = 0 /\ w = j))
  BY <1>3
<1>5. /\ q \in Jobs /\ q.st = "failed" /\ q.team = jobs[j].team /\ q.turn = jobs[j].turn
      /\ q.given = jobs[j].given /\ q.accepted = jobs[j].accepted
  BY <1>3 DEF Jobs, Terminal, Retryable
<1>6. jobs' = [jobs EXCEPT ![j] = r]
  BY <1>2
<1> HIDE DEF q
<1>7. /\ r \in Jobs /\ r.st = "failed" /\ r.team = jobs[j].team /\ r.turn = jobs[j].turn
      /\ r.wt = w /\ r.given = jobs[j].given /\ r.accepted = jobs[j].accepted
  BY <1>4, <1>5 DEF Jobs
<1>8. (r.given => r.accepted) /\ r.st # None /\ r.st \notin Active
  BY <1>7 DEF IInv, RowsAreOld, Rows, None, Active
<1>9. UNCHANGED <<made, saving, sent>> /\ UNCHANGED screen /\ faults' = faults + 1
      /\ faults < MaxFaults
  BY DEF PrepareFails, Fault
<1> HIDE DEF r
<1>10. Touches(j)
  BY <1>1, <1>3, <1>4, <1>6, <1>7, <1>8, <1>9, WrittenRowSteps
<1>11. faults' \in 0..MaxFaults
  BY <1>9 DEF IInv, TypeOK, EnterpriseAssumption
<1>12. QED
  BY <1>10, <1>11 DEF RowStep, PrepareFails, IInv, TypeOK

LEMMA RunStartsTouches ==
    ASSUME EnterpriseAssumption, IInv, RunStarts
    PROVE  \E j \in Ids : RowStep(j)
<1>1. PICK j \in Ids : /\ jobs[j].st = "starting"
                       /\ jobs' = [jobs EXCEPT ![j].st = "running", ![j].session = TRUE,
                                               ![j].wt = IF @ = 0 THEN j ELSE @]
                       /\ disk' = [disk EXCEPT ![j] = jobs'[j]]
  BY DEF RunStarts
<1> DEFINE w == IF jobs[j].wt = 0 THEN j ELSE jobs[j].wt
           q == [jobs[j] EXCEPT !.st = "running"]
           s == [q EXCEPT !.session = TRUE]
           r == [s EXCEPT !.wt = w]
<1>2. /\ jobs[j] \in Jobs /\ jobs[j].st # None /\ jobs[j].st \in Active
      /\ jobs[j].given \in BOOLEAN /\ jobs[j].wt \in 0..MaxJobs /\ j \in 0..MaxJobs
  BY <1>1, RowsAreTyped DEF IInv, None, Active, Jobs
<1>3. w \in 0..MaxJobs /\ (w = jobs[j].wt \/ (jobs[j].wt = 0 /\ w = j))
  BY <1>2
<1>4. /\ q \in Jobs /\ q.st = "running" /\ q.team = jobs[j].team /\ q.turn = jobs[j].turn
      /\ q.wt = jobs[j].wt /\ q.given = jobs[j].given /\ q.accepted = jobs[j].accepted
  BY <1>2 DEF Jobs, Active
<1>5. jobs' = [jobs EXCEPT ![j] = r]
  BY <1>1
<1> HIDE DEF q, w
<1>6. /\ s \in Jobs /\ s.st = "running" /\ s.team = jobs[j].team /\ s.turn = jobs[j].turn
      /\ s.given = jobs[j].given /\ s.accepted = jobs[j].accepted
  BY <1>4 DEF Jobs
<1> HIDE DEF s
<1>7. /\ r \in Jobs /\ r.st = "running" /\ r.team = jobs[j].team /\ r.turn = jobs[j].turn
      /\ r.wt = w /\ r.given = jobs[j].given /\ r.accepted = jobs[j].accepted
  BY <1>3, <1>6 DEF Jobs
<1>8. (r.given => r.accepted) /\ r.st # None
  BY <1>7 DEF IInv, RowsAreOld, Rows, None
<1>9. UNCHANGED <<made, saving, sent>> /\ UNCHANGED screen /\ faults' = faults
  BY DEF RunStarts
<1> HIDE DEF r
<1>10. Touches(j)
  BY <1>1, <1>2, <1>3, <1>5, <1>7, <1>8, <1>9, WrittenRowSteps
<1>11. QED
  BY <1>10 DEF RowStep, RunStarts, IInv, TypeOK

LEMMA RunEndsTouches ==
    ASSUME EnterpriseAssumption, IInv, RunEnds
    PROVE  \E j \in Ids : RowStep(j)
<1>1. PICK j \in Ids, st \in {"completed", "failed"} :
            /\ jobs[j].st = "running" /\ jobs' = [jobs EXCEPT ![j].st = st]
            /\ disk' = [disk EXCEPT ![j] = jobs'[j]]
  BY DEF RunEnds
<1> DEFINE r == [jobs[j] EXCEPT !.st = st]
<1>2. jobs[j] \in Jobs /\ jobs[j].st # None /\ jobs[j].given \in BOOLEAN
  BY <1>1, RowsAreTyped DEF IInv, None
<1>3. /\ r \in Jobs /\ r.st = st /\ r.team = jobs[j].team /\ r.turn = jobs[j].turn
      /\ r.wt = jobs[j].wt /\ r.given = jobs[j].given /\ r.accepted = jobs[j].accepted
  BY <1>2 DEF Jobs, Terminal, Retryable
<1>4. jobs' = [jobs EXCEPT ![j] = r]
  BY <1>1
<1>5. (r.given => r.accepted) /\ r.st # None /\ r.st \notin Active
  BY <1>3 DEF IInv, RowsAreOld, Rows, None, Active
<1>6. UNCHANGED <<made, saving, sent>> /\ UNCHANGED screen /\ faults' = faults
  BY DEF RunEnds
<1> HIDE DEF r
<1>7. Touches(j)
  BY <1>1, <1>2, <1>3, <1>4, <1>5, <1>6, WrittenRowSteps
<1>8. QED
  BY <1>7 DEF RowStep, RunEnds, IInv, TypeOK

LEMMA NotWrittenTouches ==
    ASSUME EnterpriseAssumption, IInv, NotWritten
    PROVE  \E j \in Ids : RowStep(j)
<1>1. PICK j \in Ids : jobs[j].st = "queued" /\ jobs' = [jobs EXCEPT ![j].st = "failed"]
  BY DEF NotWritten
<1> DEFINE r == [jobs[j] EXCEPT !.st = "failed"]
<1>2. jobs[j] \in Jobs /\ jobs[j].st # None /\ jobs[j].given \in BOOLEAN
  BY <1>1, RowsAreTyped DEF IInv, None
<1>3. /\ r \in Jobs /\ r.st = "failed" /\ r.team = jobs[j].team /\ r.turn = jobs[j].turn
      /\ r.wt = jobs[j].wt /\ r.given = jobs[j].given /\ r.accepted = jobs[j].accepted
  BY <1>2 DEF Jobs, Terminal, Retryable
<1>4. jobs' = [jobs EXCEPT ![j] = r]
  BY <1>1
<1>5. (r.given => r.accepted) /\ r.st # None /\ r.st \notin Active
  BY <1>3 DEF IInv, RowsAreOld, Rows, None, Active
<1>6. faults' = faults + 1 /\ faults < MaxFaults /\ faults \in Nat /\ MaxFaults \in Nat
  BY DEF NotWritten, Fault, IInv, TypeOK, EnterpriseAssumption
<1>7. disk' = disk /\ saving' = saving /\ UNCHANGED <<made, team, typed, sent>>
  BY DEF NotWritten, ledger, screen
<1>8. faults' # 0 /\ faults' \in 0..MaxFaults
  BY <1>6
<1>9. r.given => j \in saving' \/ (jobs[j].given /\ j \notin saving)
  BY <1>3, <1>7
<1> HIDE DEF r
<1>10. Touches(j)
  BY <1>2, <1>3, <1>4, <1>5, <1>7, <1>8, <1>9, RowIsTouched
<1>11. QED
  BY <1>7, <1>8, <1>10 DEF RowStep, NotWritten, IInv, TypeOK

LEMMA SummaryTouches ==
    ASSUME EnterpriseAssumption, IInv, Summary
    PROVE  \E j \in Ids : RowStep(j)
<1>1. PICK j \in Ids : jobs[j].session /\ jobs' = [jobs EXCEPT ![j].summary = TRUE]
  BY DEF Summary
<1> DEFINE r == [jobs[j] EXCEPT !.summary = TRUE]
<1>2. jobs[j] \in Jobs /\ jobs[j].st # None /\ jobs[j].given \in BOOLEAN
  BY <1>1, RowsAreTyped DEF IInv, RowsAreOld, Rows
<1>3. /\ r \in Jobs /\ r.st = jobs[j].st /\ r.team = jobs[j].team /\ r.turn = jobs[j].turn
      /\ r.wt = jobs[j].wt /\ r.given = jobs[j].given /\ r.accepted = jobs[j].accepted
  BY <1>2 DEF Jobs
<1>4. jobs' = [jobs EXCEPT ![j] = r]
  BY <1>1
<1>5. r.given => r.accepted
  BY <1>3 DEF IInv, RowsAreOld, Rows
<1>6. disk' = disk /\ saving' = saving /\ faults' = faults /\ UNCHANGED <<made, team, typed, sent>>
  BY DEF Summary, ledger, screen
<1>7. r.given => j \in saving' \/ (jobs[j].given /\ j \notin saving)
  BY <1>3, <1>6
<1> HIDE DEF r
<1>8. Touches(j)
  BY <1>2, <1>3, <1>4, <1>5, <1>6, <1>7, RowIsTouched
<1>9. QED
  BY <1>6, <1>8 DEF RowStep, Summary, IInv, TypeOK

(* A step that moves no row: what is no longer being saved is no longer shown.  *)
AtRest ==
    /\ UNCHANGED <<jobs, made, disk, team, typed, sent>>
    /\ \A i \in saving \ saving' : jobs[i].st = None
    /\ faults' = 0 => faults = 0

LEMMA AcceptTouches ==
    ASSUME EnterpriseAssumption, IInv, Accept
    PROVE  (\E j \in Ids : RowStep(j)) \/ (AtRest /\ TypeOK')
<1> DEFINE j == Current(Shown)
<1>1. /\ jobs[j].summary /\ jobs[j].st \notin Active
      /\ IF jobs[j].accepted THEN UNCHANGED <<jobs, saving>>
         ELSE /\ jobs' = [jobs EXCEPT ![j].accepted = TRUE, ![j].given = TRUE]
              /\ saving' = saving \cup {j}
  BY DEF Accept
<1>2. j \in JobsOf(Shown)
  BY CurrentIsLast DEF Accept, OnScreen, IInv
<1>3. j \in Ids /\ jobs[j].st # None
  BY <1>2 DEF JobsOf
<1>4. /\ jobs[j] \in Jobs /\ jobs[j].given \in BOOLEAN /\ jobs[j].accepted \in BOOLEAN
      /\ saving \subseteq Ids
  BY <1>3, RowsAreTyped DEF IInv, TypeOK
<1>5. disk' = disk /\ faults' = faults /\ UNCHANGED <<made, team, typed, sent>>
  BY DEF Accept, screen
<1>6. clicks' \in 0..MaxClicks /\ faults' \in 0..MaxFaults /\ UNCHANGED <<crew, lanes, screen>>
  BY DEF Accept, Click, IInv, TypeOK, EnterpriseAssumption
<1> HIDE DEF j
<1>7. CASE jobs[j].accepted
  <2>1. jobs' = jobs /\ saving' = saving
    BY <1>1, <1>7
  <2>2. /\ crew' = crew /\ lanes' = lanes /\ draft' = draft /\ brief' = brief
        /\ turn' = turn /\ person' = person
    BY <1>6 DEF screen
  <2>3. TypeOK'
    BY <1>5, <1>6, <2>1, <2>2 DEF IInv, TypeOK
  <2>4. QED
    BY <1>5, <2>1, <2>3 DEF AtRest
<1>8. CASE ~jobs[j].accepted
  <2> DEFINE q == [jobs[j] EXCEPT !.accepted = TRUE]
             r == [q EXCEPT !.given = TRUE]
  <2>1. /\ q \in Jobs /\ q.st = jobs[j].st /\ q.team = jobs[j].team /\ q.turn = jobs[j].turn
        /\ q.wt = jobs[j].wt /\ q.accepted
    BY <1>4 DEF Jobs
  <2>2. jobs' = [jobs EXCEPT ![j] = r] /\ saving' = saving \cup {j}
    BY <1>1, <1>8
  <2> HIDE DEF q
  <2>3. /\ r \in Jobs /\ r.st = jobs[j].st /\ r.team = jobs[j].team /\ r.turn = jobs[j].turn
        /\ r.wt = jobs[j].wt /\ r.accepted
    BY <2>1 DEF Jobs
  <2> HIDE DEF r
  <2>4. saving' \subseteq Ids /\ saving \subseteq saving' /\ j \in saving'
    BY <1>3, <1>4, <2>2
  <2>5. Touches(j)
    BY <1>1, <1>3, <1>5, <2>2, <2>3, <2>4, RowIsTouched
  <2>6. QED
    BY <1>3, <1>6, <2>4, <2>5 DEF RowStep
<1>9. QED
  BY <1>4, <1>7, <1>8

LEMMA AcceptSavedTouches ==
    ASSUME EnterpriseAssumption, IInv, AcceptSaved
    PROVE  (\E j \in Ids : RowStep(j)) \/ (AtRest /\ TypeOK')
<1>1. PICK j \in saving :
            /\ saving' = saving \ {j}
            /\ disk' = IF jobs[j].st = None THEN disk ELSE [disk EXCEPT ![j] = jobs[j]]
  BY DEF AcceptSaved, Saves
<1>2. /\ UNCHANGED <<jobs, made, crew, lanes, team, typed, sent, clicks, faults, draft, brief,
                     turn, person>>
      /\ UNCHANGED screen
  BY DEF AcceptSaved, rows, screen
<1>3. /\ jobs \in [Ids -> Jobs] /\ disk \in [Ids -> Jobs] /\ saving \subseteq Ids /\ j \in Ids
      /\ faults \in 0..MaxFaults /\ clicks \in 0..MaxClicks
  BY <1>1 DEF IInv, TypeOK
<1>4. CASE jobs[j].st = None
  <2>1. disk' = disk /\ saving' \subseteq Ids
    BY <1>1, <1>3, <1>4
  <2>2. TypeOK'
    BY <1>2, <2>1 DEF IInv, TypeOK
  <2>3. AtRest
    BY <1>1, <1>2, <1>4, <2>1 DEF AtRest
  <2>4. QED
    BY <2>2, <2>3
<1>5. CASE jobs[j].st # None
  <2>1. disk' = [disk EXCEPT ![j] = jobs[j]]
    BY <1>1, <1>5
  <2>2. /\ disk' \in [Ids -> Jobs] /\ disk'[j] = jobs[j]
        /\ \A i \in Ids \ {j} : disk'[i] = disk[i]
    BY <1>3, <2>1
  <2>3. jobs[j].given => jobs[j].accepted
    BY <1>3 DEF IInv, RowsAreOld, Rows
  <2>4. Touches(j)
    BY <1>1, <1>2, <1>3, <1>5, <2>2, <2>3 DEF Touches
  <2>5. saving' \subseteq Ids /\ faults' \in 0..MaxFaults /\ clicks' \in 0..MaxClicks
        /\ UNCHANGED <<crew, lanes, screen>>
    BY <1>1, <1>2, <1>3
  <2>6. QED
    BY <1>3, <2>4, <2>5 DEF RowStep
<1>6. QED
  BY <1>4, <1>5

LEMMA AcceptFailsTouches ==
    ASSUME EnterpriseAssumption, IInv, AcceptFails
    PROVE  (\E j \in Ids : RowStep(j)) \/ (AtRest /\ TypeOK')
<1>1. PICK j \in saving : /\ Fault /\ saving' = saving \ {j} /\ Rollback(j)
                          /\ disk' = disk \/ Saves(j)
  BY DEF AcceptFails
<1>2. /\ UNCHANGED <<made, crew, lanes, team, typed, sent, clicks, draft, brief, turn, person>>
      /\ UNCHANGED screen
  BY DEF AcceptFails, screen
<1>3. /\ jobs \in [Ids -> Jobs] /\ disk \in [Ids -> Jobs] /\ saving \subseteq Ids /\ j \in Ids
      /\ clicks \in 0..MaxClicks
  BY <1>1 DEF IInv, TypeOK
<1>4. faults' # 0 /\ faults' \in 0..MaxFaults
  <2>1. faults' = faults + 1 /\ faults < MaxFaults /\ faults \in Nat /\ MaxFaults \in Nat
    BY <1>1 DEF Fault, IInv, TypeOK, EnterpriseAssumption
  <2>2. QED
    BY <2>1
<1>5. CASE jobs[j].st = None
  <2>1. jobs' = jobs /\ disk' = disk /\ saving' \subseteq Ids
    BY <1>1, <1>3, <1>5 DEF Rollback, Saves
  <2>2. TypeOK'
    BY <1>2, <1>4, <2>1 DEF IInv, TypeOK
  <2>3. AtRest
    BY <1>1, <1>2, <1>4, <1>5, <2>1 DEF AtRest
  <2>4. QED
    BY <2>2, <2>3
<1>6. CASE jobs[j].st # None
  <2> DEFINE q == [jobs[j] EXCEPT !.accepted = FALSE]
             r == [q EXCEPT !.given = FALSE]
  <2>1. /\ q \in Jobs /\ q.st = jobs[j].st /\ q.team = jobs[j].team /\ q.turn = jobs[j].turn
        /\ q.wt = jobs[j].wt
    BY <1>3 DEF Jobs
  <2>2. jobs' = [jobs EXCEPT ![j] = r]
    BY <1>1, <1>6 DEF Rollback
  <2> HIDE DEF q
  <2>3. /\ r \in Jobs /\ r.st = jobs[j].st /\ r.team = jobs[j].team /\ r.turn = jobs[j].turn
        /\ r.wt = jobs[j].wt /\ ~r.given
    BY <2>1 DEF Jobs
  <2> HIDE DEF r
  <2>4. saving \ {j} \subseteq saving' /\ saving' \subseteq Ids
    BY <1>1, <1>3
  <2>5. ASSUME disk' = disk PROVE Touches(j)
    <3>1. UNCHANGED <<made, team, typed, sent>> /\ ~r.given /\ r.st # None
      BY <1>2, <1>6, <2>3
    <3>2. QED
      BY <1>3, <1>4, <1>6, <2>2, <2>3, <2>4, <2>5, <3>1, RowIsTouched
  <2>6. ASSUME Saves(j) PROVE Touches(j)
    <3>1. disk' = [disk EXCEPT ![j] = jobs[j]] /\ jobs[j] \in Jobs
      BY <1>3, <1>6, <2>6 DEF Saves
    <3>2. /\ disk' \in [Ids -> Jobs] /\ disk'[j] = jobs[j]
          /\ \A i \in Ids \ {j} : disk'[i] = disk[i]
      BY <1>3, <3>1
    <3>3. /\ jobs' \in [Ids -> Jobs] /\ jobs'[j] = r
          /\ \A i \in Ids \ {j} : jobs'[i] = jobs[i]
      BY <1>3, <2>2, <2>3
    <3>4. UNCHANGED <<made, team, typed, sent>> /\ r.wt = jobs[j].wt /\ ~r.given
          /\ r.team = jobs[j].team /\ r.turn = jobs[j].turn /\ r.st = jobs[j].st
      BY <1>2, <2>3
    <3>5. \A i \in Ids \ {j} : jobs'[i] = jobs[i] /\ disk'[i] = disk[i]
      BY <3>2, <3>3
    <3>6. QED
      BY <1>4, <1>6, <2>4, <3>2, <3>3, <3>4, <3>5 DEF Touches
  <2>7. Touches(j)
    BY <1>1, <2>5, <2>6
  <2>8. QED
    BY <1>2, <1>3, <1>4, <2>4, <2>7 DEF RowStep
<1>7. QED
  BY <1>5, <1>6

RowMoves ==
    Cancel \/ Accept \/ AcceptSaved \/ AcceptFails \/ Written \/ NotWritten \/ Prepare
    \/ PrepareFails \/ RunStarts \/ Summary \/ RunEnds

(* What the handlers that move a row, or none, do to the team                   *)
LEMMA RowsMove ==
    ASSUME EnterpriseAssumption, IInv, RowMoves
    PROVE  TypeOK' /\ ((\E j \in Ids : Touches(j)) \/ AtRest)
<1>1. (\E j \in Ids : RowStep(j)) \/ (AtRest /\ TypeOK')
  BY CancelTouches, AcceptTouches, AcceptSavedTouches, AcceptFailsTouches, WrittenTouches,
     NotWrittenTouches, PrepareTouches, PrepareFailsTouches, RunStartsTouches, SummaryTouches,
     RunEndsTouches DEF RowMoves
<1>2. ASSUME NEW j \in Ids, RowStep(j) PROVE TypeOK' /\ Touches(j)
  BY <1>2, TouchedIsTyped DEF RowStep
<1>3. QED
  BY <1>1, <1>2

-----------------------------------------------------------------------------
(* The team on the screen                                                       *)

(* A team's first job stays first while its jobs stay and none precedes them.   *)
LEMMA FirstStays ==
    ASSUME EnterpriseAssumption, NEW J \in [Ids -> Jobs], NEW K \in [Ids -> Jobs], NEW t,
           Mine(J, t) # {}, Mine(J, t) \subseteq Mine(K, t),
           \A i \in Mine(J, t) : K[i].turn = J[i].turn,
           \A k \in Mine(K, t) : \E i \in Mine(J, t) : Precedes(K, i, k)
    PROVE  FirstIn(K, t) = FirstIn(J, t)
<1> DEFINE a == FirstIn(J, t)
           b == FirstIn(K, t)
<1>1. a \in Mine(J, t) /\ \A i \in Mine(J, t) : Precedes(J, a, i)
  BY FirstIsLeast
<1>2. b \in Mine(K, t) /\ \A i \in Mine(K, t) : Precedes(K, b, i)
  BY FirstIsLeast
<1> HIDE DEF a, b
<1>3. \A i \in Ids : i \in Nat /\ J[i].turn \in Nat /\ K[i].turn \in Nat
  BY DEF Jobs, Ids, EnterpriseAssumption
<1>4. Mine(J, t) \subseteq Ids /\ Mine(K, t) \subseteq Ids
  BY DEF Mine
<1>5. PICK i \in Mine(J, t) : Precedes(K, i, b)
  BY <1>2
<1>6. Precedes(K, b, i)
  BY <1>2
<1>7. i = b
  BY <1>2, <1>3, <1>4, <1>5, <1>6 DEF Precedes
<1>8. Precedes(J, a, b) /\ Precedes(K, b, a) /\ K[a].turn = J[a].turn /\ K[b].turn = J[b].turn
  BY <1>1, <1>2, <1>7
<1>9. a = b
  BY <1>1, <1>2, <1>3, <1>4, <1>8 DEF Precedes
<1>10. QED
  BY <1>9 DEF a, b

LEMMA ShownStays ==
    ASSUME EnterpriseAssumption, TypeOK, jobs' \in [Ids -> Jobs], team' = team,
           \A t \in Teams :
               /\ Mine(jobs, t) \subseteq Mine(jobs', t)
               /\ \A i \in Mine(jobs, t) : jobs'[i].turn = jobs[i].turn
               /\ \A k \in Mine(jobs', t) : \E i \in Mine(jobs, t) : Precedes(jobs', i, k)
    PROVE  Shown' = Shown
<1>1. jobs \in [Ids -> Jobs]
  BY DEF TypeOK
<1>2. LiveIn(jobs') = LiveIn(jobs)
  BY DEF LiveIn
<1>3. \A t \in LiveIn(jobs) : FirstIn(jobs', t) = FirstIn(jobs, t)
  BY <1>1, FirstStays DEF LiveIn
<1>4. NewestIn(jobs') = NewestIn(jobs)
  BY <1>1, <1>2, <1>3, NewestStays
<1>5. QED
  BY <1>4, ShownIsNewest

LEMMA ShownStaysTouched ==
    ASSUME EnterpriseAssumption, IInv, NEW j \in Ids, Touches(j)
    PROVE  Shown' = Shown
<1>1. jobs' \in [Ids -> Jobs] /\ team' = team /\ TypeOK
  BY DEF Touches, IInv
<1>2. \A i \in Ids : /\ jobs'[i].turn = jobs[i].turn /\ jobs'[i].team = jobs[i].team
                     /\ jobs'[i].st = None <=> jobs[i].st = None
  BY DEF Touches
<1>3. \A t \in Teams : Mine(jobs', t) = Mine(jobs, t)
  BY <1>2 DEF Mine
<1>4. \A t \in Teams : \A i \in Mine(jobs, t) : Precedes(jobs', i, i) /\ jobs'[i].turn = jobs[i].turn
  <2>1. \A i \in Ids : i \in Nat
    BY DEF Ids, EnterpriseAssumption
  <2>2. QED
    BY <1>2, <2>1 DEF Mine, Precedes
<1>5. QED
  BY <1>1, <1>3, <1>4, ShownStays

LEMMA ShownStaysAtRest ==
    ASSUME UNCHANGED <<jobs, team>>
    PROVE  Shown' = Shown
BY ShownIsNewest

(* The effect                                                                   *)
LEMMA EffectForgets ==
    ASSUME EnterpriseAssumption, IInv, Effect
    PROVE  /\ turn' \in 0..MaxJobs /\ person' \in Names \cup Labels \cup {"spok"}
           /\ typed' \in Teams \cup {None}
           /\ typed' # None => typed' = Shown'
<1>1. MaxJobs \in Nat
  BY DEF EnterpriseAssumption
<1>2. QED
  BY <1>1 DEF Effect, IInv, TypeOK, LettersAreAddressed

-----------------------------------------------------------------------------
(* The invariant                                                                *)

LEMMA TouchedKeepsInv ==
    ASSUME EnterpriseAssumption, IInv, NEW j \in Ids, Touches(j), TypeOK'
    PROVE  IInv'
<1>1. \A i \in Ids : /\ i \in Nat
                     /\ \A r \in Rows(i) : /\ r.turn \in Nat /\ r.wt \in Nat /\ r.given \in BOOLEAN
                                           /\ r.accepted \in BOOLEAN
  BY RowsAreTyped DEF Rows, IInv
<1>2. jobs[j].turn <= j /\ jobs[j].wt <= j /\ j \in Nat
  BY <1>1 DEF IInv, RowsAreOld, Rows
<1>3. RowsAreOld'
  <2>1. ASSUME NEW i \in Ids, i # j, NEW r \in Rows(i)' PROVE r \in Rows(i)
    BY <2>1 DEF Rows, Touches
  <2>2. \A r \in Rows(j)' : r \in Rows(j) \/ r = jobs'[j]
    BY DEF Rows, Touches
  <2>3. /\ jobs'[j].turn <= j /\ jobs'[j].wt <= j /\ jobs'[j].st # None
        /\ jobs'[j].given => jobs'[j].accepted
    BY <1>2 DEF Touches
  <2>5. jobs'[j].team = None <=> jobs'[j].turn = 0
    BY DEF IInv, TypeOK, Touches
  <2>4. QED
    BY <2>1, <2>2, <2>3, <2>5 DEF IInv, RowsAreOld
<1>4. NotYet'
  BY DEF IInv, NotYet, Touches, TypeOK, Ids, EnterpriseAssumption
<1>5. OneJob'
  BY <1>1 DEF IInv, OneJob, Touches, RowsAreOld, Rows
<1>6. LettersAreAddressed'
  <2>1. Shown' = Shown /\ typed' = typed /\ sent' = sent
    BY ShownStaysTouched DEF Touches
  <2>2. ASSUME NEW i \in Ids, NEW r \in Rows(i)', sent[i] # None, r.st # None
        PROVE  sent[i] = r.team
    <3>1. CASE r \in Rows(i)
      BY <2>2, <3>1 DEF IInv, LettersAreAddressed
    <3>2. CASE r \notin Rows(i)
      <4>1. i = j /\ r = jobs'[j]
        BY <2>2, <3>2 DEF Rows, Touches
      <4>2. sent[j] = jobs[j].team
        BY <2>2, <4>1 DEF IInv, LettersAreAddressed, Rows, Touches
      <4>3. QED
        BY <4>1, <4>2 DEF Touches
    <3>3. QED
      BY <3>1, <3>2
  <2>3. QED
    BY <2>1, <2>2 DEF IInv, LettersAreAddressed
<1>7. AcceptedIsDurable'
  BY DEF IInv, AcceptedIsDurable, Touches
<1>8. QED
  BY <1>3, <1>4, <1>5, <1>6, <1>7 DEF IInv

LEMMA RestKeepsInv ==
    ASSUME EnterpriseAssumption, IInv, AtRest, TypeOK'
    PROVE  IInv'
<1>1. Shown' = Shown
  BY ShownStaysAtRest DEF AtRest
<1>2. /\ jobs' = jobs /\ made' = made /\ disk' = disk /\ typed' = typed /\ sent' = sent
      /\ \A i \in saving \ saving' : jobs[i].st = None
  BY DEF AtRest
<1>3. \A i \in Ids : jobs[i].st = None => ~jobs[i].given
  BY DEF IInv, RowsAreOld, Rows
<1>4. AcceptedIsDurable'
  BY <1>2, <1>3 DEF IInv, AcceptedIsDurable
<1>5. LettersAreAddressed'
  BY <1>1, <1>2 DEF IInv, LettersAreAddressed, Rows
<1>6. RowsAreOld' /\ NotYet' /\ OneJob'
  BY <1>2 DEF IInv, RowsAreOld, NotYet, OneJob, Rows
<1>7. QED
  BY <1>4, <1>5, <1>6 DEF IInv

-----------------------------------------------------------------------------
(* A job is added                                                               *)

(* The row of a new job is queued in no worktree, or in the one of the latest   *)
(* turn of its team; a follow-up is sent to the team it is for.                 *)
Adds(job) ==
    /\ Enqueue(job)
    /\ job \in Jobs /\ job.st = "queued" /\ ~job.given
    /\ job.team = None <=> job.turn = 0
    /\ job.turn <= made + 1
    /\ \/ job.wt = 0
       \/ /\ job.team \in Live /\ CanContinue(job.team)
          /\ job.wt = TurnOf(job.team).wt /\ job.turn = TurnOf(job.team).turn + 1
    /\ sent' \in [Ids -> Teams \cup {None}] /\ sent'[made + 1] \in {None, job.team}
    /\ \A i \in Ids \ {made + 1} : sent'[i] = sent[i]
    /\ UNCHANGED faults

LEMMA AddedIsNew ==
    ASSUME EnterpriseAssumption, IInv, NEW job, Adds(job)
    PROVE  /\ made \in Nat /\ made + 1 \in Ids /\ made' = made + 1 /\ made' \in 0..MaxJobs
           /\ jobs' \in [Ids -> Jobs] /\ jobs'[made + 1] = job /\ disk' = disk /\ saving' = saving
           /\ jobs[made + 1].st = None /\ disk[made + 1].st = None
           /\ \A i \in Ids \ {made + 1} : jobs'[i] = jobs[i]
<1>1. made \in 0..MaxJobs /\ MaxJobs \in Nat /\ made < MaxJobs /\ made' = made + 1
  BY DEF IInv, TypeOK, Adds, Enqueue, EnterpriseAssumption
<1>2. made + 1 \in Ids /\ made' \in 0..MaxJobs
  BY <1>1 DEF Ids
<1>3. jobs \in [Ids -> Jobs] /\ jobs' = [jobs EXCEPT ![made + 1] = job] /\ job \in Jobs
      /\ disk' = disk /\ saving' = saving
  BY DEF IInv, TypeOK, Adds, Enqueue, ledger
<1>4. jobs[made + 1].st = None /\ disk[made + 1].st = None
  BY <1>1, <1>2 DEF IInv, NotYet
<1>5. QED
  BY <1>1, <1>2, <1>3, <1>4

LEMMA AddedRowIsOld ==
    ASSUME EnterpriseAssumption, IInv, NEW job, Adds(job)
    PROVE  job.wt \in Nat /\ job.wt <= made
<1>1. made \in Nat
  BY AddedIsNew
<1>2. CASE job.wt = 0
  BY <1>1, <1>2
<1>3. CASE job.team \in Live /\ job.wt = TurnOf(job.team).wt
  <2> DEFINE c == Current(job.team)
  <2>1. c \in JobsOf(job.team)
    BY <1>3, CurrentIsLast DEF IInv
  <2>2. c \in Ids /\ jobs[c].st # None /\ job.wt = jobs[c].wt
    BY <1>3, <2>1 DEF JobsOf, TurnOf
  <2> HIDE DEF c
  <2>3. c \in Nat /\ jobs[c].wt \in Nat /\ jobs[c].wt <= c
    BY <2>2, RowsAreTyped DEF IInv, RowsAreOld, Rows
  <2>4. c <= made
    BY <1>1, <2>2, <2>3 DEF IInv, NotYet
  <2>5. QED
    BY <1>1, <2>2, <2>3, <2>4
<1>4. QED
  BY <1>2, <1>3 DEF Adds

LEMMA AddedIsTyped ==
    ASSUME EnterpriseAssumption, IInv, NEW job, Adds(job),
           crew' \in [Teams -> SUBSET Names], draft' \in BOOLEAN, brief' = brief,
           team' \in Teams \cup {None}, turn' \in 0..MaxJobs,
           person' \in Names \cup Labels \cup {"spok"}, typed' \in Teams \cup {None},
           clicks' \in 0..MaxClicks
    PROVE  TypeOK'
<1>1. \A i \in Ids : jobs'[i].team = None <=> jobs'[i].turn = 0
  <2>1. \A i \in Ids \ {made + 1} : jobs'[i].team = None <=> jobs'[i].turn = 0
    BY AddedIsNew DEF IInv, TypeOK
  <2>2. jobs'[made + 1].team = None <=> jobs'[made + 1].turn = 0
    BY AddedIsNew DEF Adds
  <2>3. QED
    BY <2>1, <2>2
<1>2. jobs' \in [Ids -> Jobs] /\ disk' = disk /\ saving' = saving /\ made' \in 0..MaxJobs
  BY AddedIsNew
<1>3. lanes' = lanes /\ faults' = faults /\ sent' \in [Ids -> Teams \cup {None}]
  BY DEF Adds, Enqueue
<1>4. QED
  BY <1>1, <1>2, <1>3 DEF IInv, TypeOK

LEMMA AddedKeepsInv ==
    ASSUME EnterpriseAssumption, IInv, NEW job, Adds(job), TypeOK',
           typed' # None => typed' = Shown'
    PROVE  IInv'
<1> DEFINE n == made + 1
<1>1. /\ made \in Nat /\ n \in Ids /\ made' = n /\ jobs'[n] = job /\ disk' = disk
      /\ saving' = saving /\ jobs[n].st = None /\ disk[n].st = None
      /\ \A i \in Ids \ {n} : jobs'[i] = jobs[i] /\ sent'[i] = sent[i]
  BY AddedIsNew DEF Adds
<1>2. job.wt \in Nat /\ job.wt <= made
  BY AddedRowIsOld
<1>3. job.st = "queued" /\ ~job.given /\ job.turn <= n /\ sent'[n] \in {None, job.team}
  BY DEF Adds
<1>4. \A i \in Ids : i \in Nat
  BY DEF Ids, EnterpriseAssumption
<1> HIDE DEF n
<1>5. RowsAreOld'
  <2>1. job.wt <= n
    BY <1>1, <1>2 DEF n
  <2>2. \A i \in Ids : \A r \in Rows(i)' : r \in Rows(i) \/ (i = n /\ r = job)
    BY <1>1 DEF Rows
  <2>3. job.team = None <=> job.turn = 0
    BY DEF Adds
  <2>4. QED
    BY <1>3, <2>1, <2>2, <2>3 DEF IInv, RowsAreOld, None
<1>6. NotYet'
  <2>1. \A i \in Ids : i > n => i > made /\ i # n
    BY <1>1, <1>4 DEF n
  <2>2. QED
    BY <1>1, <2>1 DEF IInv, NotYet
<1>7. OneJob'
  BY <1>1 DEF IInv, OneJob
<1>8. LettersAreAddressed'
  BY <1>1, <1>3 DEF IInv, LettersAreAddressed, Rows
<1>9. AcceptedIsDurable'
  BY <1>1, <1>3 DEF IInv, AcceptedIsDurable
<1>10. QED
  BY <1>5, <1>6, <1>7, <1>8, <1>9 DEF IInv

LEMMA FirstTurnIsJob ==
    ASSUME NEW t \in Teams, MaxJobs \in Nat, 1 <= MaxJobs
    PROVE  [NoJob EXCEPT !.st = "queued", !.team = t, !.turn = 1] \in Jobs
<1> DEFINE p == [NoJob EXCEPT !.st = "queued"]
           q == [p EXCEPT !.team = t]
           r == [q EXCEPT !.turn = 1]
<1>1. 0 \in 0..MaxJobs /\ 1 \in 0..MaxJobs
  OBVIOUS
<1>2. NoJob \in Jobs
  BY <1>1 DEF NoJob, Jobs
<1>3. p \in Jobs
  BY <1>2 DEF Jobs, Active
<1> HIDE DEF p
<1>4. q \in Jobs
  BY <1>3 DEF Jobs
<1> HIDE DEF q
<1>5. r \in Jobs
  BY <1>1, <1>4 DEF Jobs
<1> HIDE DEF r
<1>6. r = [NoJob EXCEPT !.st = "queued", !.team = t, !.turn = 1]
  BY DEF p, q, r
<1>7. QED
  BY <1>5, <1>6

LEMMA LaunchKeepsInv ==
    ASSUME EnterpriseAssumption, IInv, LaunchMission
    PROVE  IInv' /\ \E job : Adds(job)
<1>1. PICK t \in Teams :
        /\ \A j \in Ids : t \notin {jobs[j].team, disk[j].team}
        /\ Enqueue([NoJob EXCEPT !.st = "queued", !.team = t, !.turn = 1])
        /\ crew' = [crew EXCEPT ![t] = brief.crew]
        /\ team' = t /\ draft' = FALSE
  BY DEF LaunchMission
<1> DEFINE job == [NoJob EXCEPT !.st = "queued", !.team = t, !.turn = 1]
<1>2. /\ brief' = brief /\ sent' = sent /\ faults' = faults /\ Effect /\ Enqueue(job)
      /\ clicks' \in 0..MaxClicks
  BY <1>1 DEF LaunchMission, Click, IInv, TypeOK, EnterpriseAssumption
<1>3. t # None /\ MaxJobs \in Nat /\ made \in 0..MaxJobs /\ made < MaxJobs
  BY <1>2 DEF EnterpriseAssumption, None, Enqueue, IInv, TypeOK
<1>4. /\ job.st = "queued" /\ job.team = t /\ job.turn = 1 /\ job.wt = 0 /\ ~job.given
  BY DEF NoJob
<1>5. job \in Jobs
  <2>1. 1 <= MaxJobs
    BY <1>3
  <2>2. QED
    BY <1>3, <2>1, FirstTurnIsJob, Zenon
<1>6. /\ sent' \in [Ids -> Teams \cup {None}] /\ sent'[made + 1] = None
      /\ \A i \in Ids \ {made + 1} : sent'[i] = sent[i]
  BY <1>2, <1>3 DEF IInv, TypeOK, NotYet, Ids
<1> HIDE DEF job
<1>7. job.turn <= made + 1
  BY <1>3, <1>4
<1>8. Adds(job)
  BY <1>2, <1>3, <1>4, <1>5, <1>6, <1>7 DEF Adds
<1>9. /\ turn' \in 0..MaxJobs /\ person' \in Names \cup Labels \cup {"spok"}
      /\ typed' \in Teams \cup {None} /\ (typed' # None => typed' = Shown')
  BY <1>2, EffectForgets
<1>10. crew' \in [Teams -> SUBSET Names]
  <2>1. brief.crew \in SUBSET Names /\ crew \in [Teams -> SUBSET Names]
    BY DEF IInv, TypeOK, Briefs
  <2>2. QED
    BY <1>1, <2>1
<1>11. TypeOK'
  BY <1>1, <1>2, <1>8, <1>9, <1>10, AddedIsTyped
<1>12. QED
  BY <1>8, <1>9, <1>11, AddedKeepsInv

LEMMA FollowUpKeepsInv ==
    ASSUME EnterpriseAssumption, IInv, FollowUp
    PROVE  IInv' /\ \E job : Adds(job)
<1> DEFINE c == Current(Shown)
           job == [NoJob EXCEPT !.st = "queued", !.team = Shown, !.turn = jobs[c].turn + 1,
                                !.wt = jobs[c].wt]
<1>1. /\ OnScreen /\ CanContinue(Shown) /\ typed # None /\ Enqueue(job)
      /\ sent' = [sent EXCEPT ![made'] = typed]
      /\ typed' = None /\ person' = "spok" /\ turn' = 0
      /\ UNCHANGED <<crew, draft, brief, team, faults>>
  BY DEF FollowUp, TurnOf
<1>2. clicks' \in 0..MaxClicks
  BY DEF FollowUp, Click, IInv, TypeOK, EnterpriseAssumption
<1>3. Shown \in Live /\ Shown \in Teams /\ Shown # None /\ typed = Shown
  BY <1>1 DEF OnScreen, Live, EnterpriseAssumption, None, IInv, LettersAreAddressed
<1>4. c \in Ids /\ jobs[c].st # None /\ jobs[c].team = Shown
  BY <1>3, CurrentIsLast DEF IInv, JobsOf
<1> HIDE DEF c
<1>5. /\ made \in Nat /\ MaxJobs \in Nat /\ made < MaxJobs /\ made' = made + 1
  BY <1>1 DEF IInv, TypeOK, Enqueue, EnterpriseAssumption
<1>6. /\ c \in Nat /\ jobs[c].turn \in Nat /\ jobs[c].wt \in 0..MaxJobs /\ jobs[c].turn <= c
      /\ c <= made
  <2>1. c \in Nat /\ jobs[c].turn \in Nat /\ jobs[c].wt \in Nat /\ jobs[c].turn <= c
        /\ jobs[c].wt <= c
    BY <1>4, RowsAreTyped DEF IInv, RowsAreOld, Rows
  <2>2. c <= made
    BY <1>4, <1>5, <2>1 DEF IInv, NotYet
  <2>3. QED
    BY <1>5, <2>1, <2>2
<1>7. /\ job.st = "queued" /\ job.team = Shown /\ job.turn = jobs[c].turn + 1
      /\ job.wt = jobs[c].wt /\ ~job.given
  BY DEF NoJob
<1>8. job \in Jobs
  <2>1. jobs[c].turn + 1 \in 0..MaxJobs
    BY <1>5, <1>6
  <2>2. QED
    BY <1>3, <1>6, <2>1 DEF NoJob, Jobs, Active
<1> HIDE DEF job
<1>9. made + 1 \in Ids
  BY <1>5 DEF Ids
<1>10. /\ sent' \in [Ids -> Teams \cup {None}] /\ sent'[made + 1] = Shown
       /\ \A i \in Ids \ {made + 1} : sent'[i] = sent[i]
  BY <1>1, <1>3, <1>5, <1>9 DEF IInv, TypeOK
<1>11. job.turn <= made + 1 /\ job.turn # 0
  BY <1>5, <1>6, <1>7
<1>12. job.wt = TurnOf(Shown).wt /\ job.turn = TurnOf(Shown).turn + 1
  BY <1>7 DEF TurnOf, c
<1>13. Adds(job)
  BY <1>1, <1>3, <1>7, <1>8, <1>10, <1>11, <1>12 DEF Adds
<1>14. TypeOK'
  <2>1. /\ crew' \in [Teams -> SUBSET Names] /\ draft' \in BOOLEAN /\ brief' = brief
        /\ team' \in Teams \cup {None} /\ turn' \in 0..MaxJobs
        /\ person' \in Names \cup Labels \cup {"spok"} /\ typed' \in Teams \cup {None}
    BY <1>1, <1>5 DEF IInv, TypeOK
  <2>2. QED
    BY <1>2, <1>13, <2>1, AddedIsTyped
<1>15. QED
  BY <1>1, <1>13, <1>14, AddedKeepsInv

LEMMA JobActionKeepsInv ==
    ASSUME EnterpriseAssumption, IInv, JobAction
    PROVE  IInv' /\ \E job : Adds(job)
<1>1. PICK j \in Ids, intent \in {"retry", "duplicate"} :
        /\ jobs[j].st \in (IF intent = "retry" THEN Retryable ELSE Terminal)
        /\ Enqueue(Clone(j, intent))
  BY DEF JobAction
<1> DEFINE job == Clone(j, intent)
<1>2. /\ UNCHANGED <<crew, sent, faults>> /\ UNCHANGED screen /\ clicks' \in 0..MaxClicks
  BY DEF JobAction, Click, IInv, TypeOK, EnterpriseAssumption
<1>3. /\ draft' = draft /\ brief' = brief /\ team' = team /\ turn' = turn /\ person' = person
      /\ typed' = typed
  BY <1>2 DEF screen
<1>4. /\ made \in Nat /\ MaxJobs \in Nat /\ made < MaxJobs /\ made' = made + 1
  BY <1>1 DEF IInv, TypeOK, Enqueue, EnterpriseAssumption
<1>5. jobs[j] \in Jobs /\ jobs[j].st # None /\ (jobs[j].team = None <=> jobs[j].turn = 0)
      /\ j \in Nat
  BY <1>1, RowsAreTyped DEF IInv, TypeOK, Retryable, Terminal, None
<1>6. jobs[j].turn \in 0..MaxJobs /\ jobs[j].turn <= j /\ j <= made
  <2>1. jobs[j].turn \in 0..MaxJobs /\ jobs[j].turn <= j
    BY <1>5 DEF Jobs, IInv, RowsAreOld, Rows
  <2>2. j <= made
    BY <1>4, <1>5 DEF IInv, NotYet
  <2>3. QED
    BY <2>1, <2>2
<1>7. /\ job.st = "queued" /\ job.wt = 0 /\ ~job.given
      /\ \/ job.team = jobs[j].team /\ job.turn = jobs[j].turn
         \/ job.team = None /\ job.turn = 0
  BY DEF Clone, NoJob
<1>8. job \in Jobs
  <2>1. 0 \in 0..MaxJobs /\ jobs[j].turn \in 0..MaxJobs /\ jobs[j].team \in Teams \cup {None}
        /\ jobs[j].accepted \in BOOLEAN
    BY <1>4, <1>5 DEF Jobs
  <2>2. CASE intent = "retry"
    <3>1. job = [st |-> "queued", team |-> jobs[j].team, turn |-> jobs[j].turn, wt |-> 0,
                 session |-> FALSE, summary |-> FALSE, accepted |-> jobs[j].accepted,
                 given |-> FALSE, saved |-> FALSE]
      BY <2>2 DEF Clone, NoJob
    <3> HIDE DEF job
    <3>2. QED
      BY <2>1, <3>1 DEF Jobs, Active
  <2>3. CASE intent # "retry"
    <3>1. job = [st |-> "queued", team |-> None, turn |-> 0, wt |-> 0,
                 session |-> FALSE, summary |-> FALSE, accepted |-> FALSE,
                 given |-> FALSE, saved |-> FALSE]
      BY <2>3 DEF Clone, NoJob
    <3> HIDE DEF job
    <3>2. QED
      BY <2>1, <3>1 DEF Jobs, Active
  <2>4. QED
    BY <2>2, <2>3
<1>9. made + 1 \in Ids
  BY <1>4 DEF Ids
<1>10. /\ sent' \in [Ids -> Teams \cup {None}] /\ sent'[made + 1] = None
       /\ \A i \in Ids \ {made + 1} : sent'[i] = sent[i]
  BY <1>2, <1>4, <1>9 DEF IInv, TypeOK, NotYet
<1>11. Enqueue(job)
  BY <1>1
<1> HIDE DEF job
<1>12. job.turn <= made + 1
  BY <1>4, <1>5, <1>6, <1>7
<1>13. Adds(job)
  BY <1>2, <1>5, <1>7, <1>8, <1>10, <1>11, <1>12 DEF Adds
<1>14. /\ made + 1 \in Nat /\ jobs' \in [Ids -> Jobs] /\ jobs'[made + 1] = job
       /\ \A i \in Ids \ {made + 1} : jobs'[i] = jobs[i]
       /\ jobs[made + 1].st = None
  BY <1>4, <1>13, AddedIsNew
<1>15. Shown' = Shown
  <2>1. ASSUME NEW t \in Teams, NEW i \in Mine(jobs, t)
        PROVE  i \in Mine(jobs', t) /\ jobs'[i].turn = jobs[i].turn /\ i # made + 1
    BY <1>14, <2>1 DEF Mine
  <2>2. ASSUME NEW t \in Teams, NEW k \in Mine(jobs', t)
        PROVE  \E i \in Mine(jobs, t) : Precedes(jobs', i, k)
    <3>1. CASE k # made + 1
      <4>1. k \in Mine(jobs, t) /\ k \in Nat
        BY <1>14, <3>1 DEF Mine, Ids, EnterpriseAssumption
      <4>2. QED
        BY <4>1 DEF Precedes
    <3>2. CASE k = made + 1
      <4>1. job.team = t /\ t # None
        BY <1>14, <3>2 DEF Mine, EnterpriseAssumption, None
      <4>2. j \in Mine(jobs, t) /\ job.turn = jobs[j].turn
        BY <1>5, <1>7, <4>1 DEF Mine
      <4>3. jobs'[j].turn = jobs[j].turn /\ j <= k
        BY <1>4, <1>5, <1>6, <2>1, <3>2, <4>2
      <4>4. QED
        BY <1>14, <3>2, <4>2, <4>3 DEF Precedes
    <3>3. QED
      BY <3>1, <3>2
  <2>3. QED
    BY <1>3, <1>14, <2>1, <2>2, ShownStays DEF IInv
<1>16. typed' # None => typed' = Shown'
  BY <1>3, <1>15 DEF IInv, LettersAreAddressed
<1>17. TypeOK'
  <2>1. /\ crew' \in [Teams -> SUBSET Names] /\ draft' \in BOOLEAN /\ brief' = brief
        /\ team' \in Teams \cup {None} /\ turn' \in 0..MaxJobs
        /\ person' \in Names \cup Labels \cup {"spok"} /\ typed' \in Teams \cup {None}
    BY <1>2, <1>3 DEF IInv, TypeOK
  <2>2. QED
    BY <1>2, <1>13, <2>1, AddedIsTyped
<1>18. QED
  BY <1>13, <1>16, <1>17, AddedKeepsInv

-----------------------------------------------------------------------------
(* Rows are cleared, written back or read again                                 *)

LEMMA NothingIsJob ==
    ASSUME EnterpriseAssumption
    PROVE  NoJob \in Jobs
<1>1. 0 \in 0..MaxJobs
  BY DEF EnterpriseAssumption
<1>2. QED
  BY <1>1 DEF NoJob, Jobs

LEMMA ClearKeepsInv ==
    ASSUME EnterpriseAssumption, IInv, ClearFinished
    PROVE  IInv'
<1>1. /\ jobs' = [j \in Ids |-> IF jobs[j].st \in Terminal THEN NoJob ELSE jobs[j]]
      /\ UNCHANGED <<made, disk, saving, crew, lanes, draft, brief, team, sent, faults>> /\ Effect
      /\ clicks' \in 0..MaxClicks
  BY DEF ClearFinished, Click, ledger, IInv, TypeOK, EnterpriseAssumption
<1>2. NoJob \in Jobs /\ jobs \in [Ids -> Jobs]
  BY NothingIsJob DEF IInv, TypeOK
<1>3. NoJob.st = None /\ NoJob.team = None /\ NoJob.turn = 0 /\ NoJob.wt = 0 /\ ~NoJob.session
      /\ ~NoJob.given
  BY DEF NoJob
<1>4. \A j \in Ids : jobs'[j] = IF jobs[j].st \in Terminal THEN NoJob ELSE jobs[j]
  BY <1>1
<1> HIDE DEF NoJob
<1>5. jobs' \in [Ids -> Jobs]
  BY <1>1, <1>2
<1>6. \A j \in Ids : jobs'[j].team = None <=> jobs'[j].turn = 0
  BY <1>3, <1>4 DEF IInv, TypeOK
<1>7. /\ turn' \in 0..MaxJobs /\ person' \in Names \cup Labels \cup {"spok"}
      /\ typed' \in Teams \cup {None} /\ (typed' # None => typed' = Shown')
  BY <1>1, EffectForgets
<1>8. TypeOK'
  BY <1>1, <1>5, <1>6, <1>7 DEF IInv, TypeOK
<1>9. RowsAreOld'
  <2>1. \A j \in Ids : j \in Nat
    BY DEF Ids, EnterpriseAssumption
  <2>2. ASSUME NEW j \in Ids, NEW r \in Rows(j)' PROVE r \in Rows(j) \/ r = NoJob
    BY <1>1, <1>4, <2>2 DEF Rows
  <2>3. \A j \in Ids : NoJob.turn <= j /\ NoJob.wt <= j
    BY <1>3, <2>1
  <2>4. QED
    BY <1>3, <2>2, <2>3 DEF IInv, RowsAreOld
<1>10. NotYet'
  BY <1>1, <1>3, <1>4 DEF IInv, NotYet
<1>11. OneJob'
  BY <1>1, <1>3, <1>4 DEF IInv, OneJob
<1>12. LettersAreAddressed'
  BY <1>1, <1>3, <1>4, <1>7 DEF IInv, LettersAreAddressed, Rows
<1>13. AcceptedIsDurable'
  BY <1>1, <1>3, <1>4 DEF IInv, AcceptedIsDurable
<1>14. QED
  BY <1>8, <1>9, <1>10, <1>11, <1>12, <1>13 DEF IInv

(* What is written back of a row is the row                                     *)
LEMMA SyncWrites ==
    ASSUME EnterpriseAssumption, IInv, Sync
    PROVE  /\ disk' \in [Ids -> Jobs]
           /\ \A j \in Ids :
                /\ disk'[j].st = jobs[j].st /\ disk'[j].team = jobs[j].team
                /\ disk'[j].turn = jobs[j].turn /\ disk'[j].wt = jobs[j].wt
                /\ disk'[j].session = jobs[j].session /\ disk'[j].given = jobs[j].given
                /\ disk'[j].accepted = jobs[j].accepted
<1> DEFINE Row(j) == [jobs[j] EXCEPT !.saved = @ \/ jobs[j].st # None]
<1>1. disk' = [j \in Ids |-> Row(j)]
  BY DEF Sync
<1>2. \A j \in Ids : disk'[j] = Row(j)
  BY <1>1
<1>3. ASSUME NEW j \in Ids
      PROVE  /\ Row(j) \in Jobs
             /\ Row(j).st = jobs[j].st /\ Row(j).team = jobs[j].team
             /\ Row(j).turn = jobs[j].turn /\ Row(j).wt = jobs[j].wt
             /\ Row(j).session = jobs[j].session /\ Row(j).given = jobs[j].given
             /\ Row(j).accepted = jobs[j].accepted
  <2>1. jobs[j] \in Jobs /\ (jobs[j].saved \/ jobs[j].st # None) \in BOOLEAN
    BY DEF IInv, TypeOK
  <2>2. QED
    BY <2>1 DEF Jobs
<1> HIDE DEF Row
<1>4. QED
  BY <1>1, <1>2, <1>3

LEMMA SyncKeepsInv ==
    ASSUME EnterpriseAssumption, IInv, Sync
    PROVE  IInv'
<1>1. /\ UNCHANGED <<jobs, made, saving, crew, lanes, sent, clicks, faults>>
      /\ UNCHANGED screen
  BY DEF Sync, rows
<1>2. /\ jobs' = jobs /\ made' = made /\ saving' = saving /\ crew' = crew /\ lanes' = lanes
      /\ sent' = sent /\ clicks' = clicks /\ faults' = faults /\ draft' = draft
      /\ brief' = brief /\ team' = team /\ turn' = turn /\ person' = person /\ typed' = typed
  BY <1>1 DEF screen
<1>3. Shown' = Shown
  BY <1>2, ShownStaysAtRest
<1>4. TypeOK'
  BY <1>2, SyncWrites DEF IInv, TypeOK
<1>5. RowsAreOld'
  BY <1>2, SyncWrites DEF IInv, RowsAreOld, Rows
<1>6. NotYet' /\ OneJob'
  BY <1>2, SyncWrites DEF IInv, NotYet, OneJob
<1>7. LettersAreAddressed'
  BY <1>2, <1>3, SyncWrites DEF IInv, LettersAreAddressed, Rows
<1>8. AcceptedIsDurable'
  BY <1>2, SyncWrites DEF IInv, AcceptedIsDurable, RowsAreOld, Rows
<1>9. QED
  BY <1>4, <1>5, <1>6, <1>7, <1>8 DEF IInv

(* What a page that loads again reads of a row                                  *)
LEMMA ReloadReads ==
    ASSUME EnterpriseAssumption, IInv, Reload
    PROVE  /\ jobs' \in [Ids -> Jobs] /\ disk' = jobs'
           /\ \A j \in Ids :
                /\ jobs'[j].st = IF disk[j].st \in {"starting", "running"} THEN "failed" ELSE disk[j].st
                /\ jobs'[j].team = disk[j].team
                /\ jobs'[j].turn = disk[j].turn /\ jobs'[j].wt = disk[j].wt
                /\ jobs'[j].session = disk[j].session /\ jobs'[j].given = disk[j].given
                /\ jobs'[j].accepted = disk[j].accepted
<1> DEFINE P(j) == [disk[j] EXCEPT !.summary = FALSE]
           S(j) == IF P(j).st \in {"starting", "running"} THEN "failed" ELSE P(j).st
           Row(j) == [P(j) EXCEPT !.st = S(j)]
<1>1. jobs' = [j \in Ids |-> Row(j)] /\ disk' = jobs'
  BY DEF Reload
<1>2. \A j \in Ids : jobs'[j] = Row(j)
  BY <1>1
<1>3. ASSUME NEW j \in Ids
      PROVE  /\ P(j) \in Jobs
             /\ P(j).st = disk[j].st /\ P(j).team = disk[j].team
             /\ P(j).turn = disk[j].turn /\ P(j).wt = disk[j].wt
             /\ P(j).session = disk[j].session /\ P(j).given = disk[j].given
             /\ P(j).accepted = disk[j].accepted
  <2>1. disk[j] \in Jobs
    BY DEF IInv, TypeOK
  <2>2. QED
    BY <2>1 DEF Jobs
<1> HIDE DEF P
<1>4. ASSUME NEW j \in Ids
      PROVE  S(j) \in Active \cup Terminal \cup {None}
  BY <1>3 DEF Jobs, Terminal, Retryable
<1>5. ASSUME NEW j \in Ids
      PROVE  S(j) = IF disk[j].st \in {"starting", "running"} THEN "failed" ELSE disk[j].st
  BY <1>3
<1> HIDE DEF S
<1>6. ASSUME NEW j \in Ids
      PROVE  /\ Row(j) \in Jobs
             /\ Row(j).st = S(j) /\ Row(j).team = disk[j].team
             /\ Row(j).turn = disk[j].turn /\ Row(j).wt = disk[j].wt
             /\ Row(j).session = disk[j].session /\ Row(j).given = disk[j].given
             /\ Row(j).accepted = disk[j].accepted
  BY <1>3, <1>4 DEF Jobs
<1> HIDE DEF Row
<1>7. QED
  BY <1>1, <1>2, <1>5, <1>6

LEMMA ReloadKeepsInv ==
    ASSUME EnterpriseAssumption, IInv, Reload
    PROVE  IInv'
<1>1. /\ UNCHANGED <<made, crew, lanes, sent, clicks>> /\ saving' = {} /\ draft' = FALSE
      /\ brief' = [goal |-> FALSE, crew |-> {}] /\ team' = None /\ turn' = 0 /\ person' = "spok"
      /\ typed' = None
  BY DEF Reload
<1>2. faults' \in 0..MaxFaults /\ 0 \in 0..MaxJobs
  <2>1. Fault
    BY DEF Reload
  <2>2. faults \in 0..MaxFaults /\ MaxFaults \in Nat /\ MaxJobs \in Nat
    BY DEF IInv, TypeOK, EnterpriseAssumption
  <2>3. QED
    BY <2>1, <2>2 DEF Fault
<1>3. \A j \in Ids : jobs'[j].st = None <=> disk[j].st = None
  BY ReloadReads DEF None
<1>4. RowsAreOld'
  BY <1>3, ReloadReads DEF IInv, RowsAreOld, Rows
<1>5. \A j \in Ids : disk[j].team = None <=> disk[j].turn = 0
  BY DEF IInv, RowsAreOld, Rows
<1>6. TypeOK'
  BY <1>1, <1>2, <1>5, ReloadReads DEF IInv, TypeOK, Briefs
<1>7. NotYet' /\ OneJob'
  BY <1>1, <1>3, ReloadReads DEF IInv, NotYet, OneJob
<1>8. LettersAreAddressed'
  BY <1>1, <1>3, ReloadReads DEF IInv, LettersAreAddressed, Rows
<1>9. AcceptedIsDurable'
  BY ReloadReads DEF IInv, AcceptedIsDurable, RowsAreOld, Rows
<1>10. QED
  BY <1>4, <1>6, <1>7, <1>8, <1>9 DEF IInv

-----------------------------------------------------------------------------
(* The steps that touch no row, the initial states, and the theorems            *)

Looks ==
    Brief \/ NewMission \/ Back \/ SelectTeam \/ SelectTurn \/ SelectPerson \/ Type \/ Emit

(* What can be looked at                                                        *)
LEMMA InspectedIsJob ==
    ASSUME EnterpriseAssumption, IInv, OnScreen
    PROVE  Shown \in Teams /\ Inspected \in Ids
<1>1. Shown \in Live /\ Shown \in Teams
  BY DEF OnScreen, Live
<1>2. Current(Shown) \in JobsOf(Shown)
  BY <1>1, CurrentIsLast DEF IInv
<1>3. QED
  BY <1>1, <1>2 DEF Inspected, JobsOf

LEMMA PersonIsTyped ==
    ASSUME EnterpriseAssumption, IInv, SelectPerson
    PROVE  person' \in Names \cup Labels \cup {"spok"}
<1> DEFINE c == crew[Shown]
           ls == lanes[Inspected]
<1>1. PICK s \in Stations(c, ls) : person' = s.who
  BY DEF SelectPerson
<1>2. Shown \in Teams /\ Inspected \in Ids
  BY InspectedIsJob DEF SelectPerson
<1>3. c \in SUBSET Names /\ ls \in Seq(Labels)
  BY <1>2 DEF IInv, TypeOK
<1> HIDE DEF c, ls
<1>4. \A k \in DOMAIN ls : ls[k] \in Labels
  BY <1>3
<1>5. \/ \E n \in c : s.who = n
      \/ \E k \in DOMAIN ls : s.who = ls[k]
  BY <1>1 DEF Stations
<1>6. QED
  BY <1>1, <1>3, <1>4, <1>5

(* The text in the field is cleared when the team on the screen changes.        *)
LEMMA LookKeepsLetters ==
    ASSUME EnterpriseAssumption, IInv, Looks
    PROVE  /\ typed' \in Teams \cup {None}
           /\ typed' # None => typed' = Shown'
<1>1. CASE Effect
  BY <1>1, EffectForgets
<1>2. CASE Brief \/ NewMission \/ SelectTurn \/ SelectPerson \/ Emit
  <2>1. jobs' = jobs /\ team' = team /\ typed' = typed
    BY <1>2 DEF Brief, NewMission, SelectTurn, SelectPerson, Emit, rows, screen
  <2>2. Shown' = Shown
    BY <2>1, ShownStaysAtRest
  <2>3. QED
    BY <2>1, <2>2 DEF IInv, TypeOK, LettersAreAddressed
<1>3. CASE Type
  <2>1. jobs' = jobs /\ team' = team /\ typed' = Shown
    BY <1>3 DEF Type, rows
  <2>2. Shown' = Shown
    BY <2>1, ShownStaysAtRest
  <2>3. QED
    BY <2>1, <2>2, ShownIsTeam DEF IInv
<1>4. QED
  BY <1>1, <1>2, <1>3 DEF Looks, Back, SelectTeam

LEMMA LookIsTyped ==
    ASSUME EnterpriseAssumption, IInv, Looks
    PROVE  /\ crew' = crew /\ lanes' \in [Ids -> Seq(Labels)] /\ draft' \in BOOLEAN
           /\ brief' \in Briefs /\ team' \in Teams \cup {None} /\ turn' \in 0..MaxJobs
           /\ person' \in Names \cup Labels \cup {"spok"} /\ clicks' \in 0..MaxClicks
<1>1. /\ crew \in [Teams -> SUBSET Names] /\ lanes \in [Ids -> Seq(Labels)] /\ draft \in BOOLEAN
      /\ brief \in Briefs /\ team \in Teams \cup {None} /\ turn \in 0..MaxJobs
      /\ person \in Names \cup Labels \cup {"spok"} /\ clicks \in 0..MaxClicks
      /\ MaxClicks \in Nat /\ MaxJobs \in Nat
  BY DEF IInv, TypeOK, EnterpriseAssumption
<1>2. Click => clicks' \in 0..MaxClicks
  BY <1>1 DEF Click
<1>3. CASE Brief
  BY <1>1, <1>2, <1>3 DEF Brief
<1>4. CASE NewMission
  BY <1>1, <1>2, <1>4 DEF NewMission
<1>5. CASE Back
  <2>1. Newest(Live) \in Teams \cup {None}
    BY ShownIsTeam DEF IInv
  <2>2. turn' \in 0..MaxJobs /\ person' \in Names \cup Labels \cup {"spok"}
    BY <1>5, EffectForgets DEF Back
  <2>3. QED
    BY <1>1, <1>2, <1>5, <2>1, <2>2 DEF Back
<1>6. CASE SelectTeam
  <2>1. team' \in Teams \cup {None}
    BY <1>6 DEF SelectTeam, Live
  <2>2. turn' \in 0..MaxJobs /\ person' \in Names \cup Labels \cup {"spok"}
    BY <1>6, EffectForgets DEF SelectTeam
  <2>3. QED
    BY <1>1, <1>2, <1>6, <2>1, <2>2 DEF SelectTeam
<1>7. CASE SelectTurn
  <2>1. turn' \in 0..MaxJobs
    BY <1>1, <1>7 DEF SelectTurn, JobsOf, Ids
  <2>2. QED
    BY <1>1, <1>2, <1>7, <2>1 DEF SelectTurn
<1>8. CASE SelectPerson
  BY <1>1, <1>2, <1>8, PersonIsTyped DEF SelectPerson
<1>9. CASE Type
  BY <1>1, <1>2, <1>9 DEF Type
<1>10. CASE Emit
  <2>1. PICK j \in Ids, l \in Labels : lanes' = [lanes EXCEPT ![j] = Append(@, l)]
    BY <1>10 DEF Emit
  <2>2. lanes' \in [Ids -> Seq(Labels)]
    BY <1>1, <2>1
  <2>3. QED
    BY <1>1, <1>10, <2>2 DEF Emit, screen
<1>11. QED
  BY <1>3, <1>4, <1>5, <1>6, <1>7, <1>8, <1>9, <1>10 DEF Looks

LEMMA LookKeepsInv ==
    ASSUME EnterpriseAssumption, IInv, Looks
    PROVE  IInv' /\ UNCHANGED <<jobs, made, disk, faults>>
<1>1. /\ jobs' = jobs /\ made' = made /\ disk' = disk /\ saving' = saving /\ sent' = sent
      /\ faults' = faults
  BY DEF Looks, Brief, NewMission, Back, SelectTeam, SelectTurn, SelectPerson, Type, Emit, rows,
         ledger
<1>2. TypeOK'
  BY <1>1, LookIsTyped, LookKeepsLetters DEF IInv, TypeOK
<1>3. LettersAreAddressed'
  BY <1>1, LookKeepsLetters DEF IInv, LettersAreAddressed, Rows
<1>4. RowsAreOld' /\ NotYet' /\ OneJob' /\ AcceptedIsDurable'
  BY <1>1 DEF IInv, RowsAreOld, NotYet, OneJob, AcceptedIsDurable, Rows
<1>5. QED
  BY <1>1, <1>2, <1>3, <1>4 DEF IInv

LEMMA StutterKeepsInv ==
    ASSUME IInv, UNCHANGED vars
    PROVE  IInv'
<1>1. /\ jobs' = jobs /\ made' = made /\ disk' = disk /\ crew' = crew /\ lanes' = lanes
      /\ saving' = saving /\ draft' = draft /\ brief' = brief /\ team' = team /\ turn' = turn
      /\ person' = person /\ typed' = typed /\ sent' = sent /\ clicks' = clicks
      /\ faults' = faults
  BY DEF vars
<1>2. Shown' = Shown
  BY <1>1, ShownStaysAtRest
<1>3. TypeOK'
  BY <1>1 DEF IInv, TypeOK
<1>4. QED
  BY <1>1, <1>2, <1>3 DEF IInv, RowsAreOld, NotYet, OneJob, LettersAreAddressed,
                          AcceptedIsDurable, Rows

(* The ledger of earlier days                                                   *)
LEMMA PastIsTyped ==
    ASSUME EnterpriseAssumption, NEW st \in {"completed", "failed"}
    PROVE  /\ Past(st) \in [Ids -> Jobs] /\ Cardinality(Teams) \in 0..MaxJobs
           /\ \A j \in Ids :
                \/ /\ j <= Cardinality(Teams)
                   /\ Past(st)[j].team \in Teams /\ Past(st)[j].turn = 1 /\ Past(st)[j].wt = j
                   /\ Past(st)[j].st = st /\ ~Past(st)[j].given
                \/ j > Cardinality(Teams) /\ Past(st)[j] = NoJob
<1> DEFINE C == Cardinality(Teams)
<1>1. C \in Nat /\ MaxJobs \in Nat /\ C <= MaxJobs
  BY FS_CardinalityType DEF EnterpriseAssumption
<1>2. Earlier \in [1..C -> Teams]
  <2>1. PICK f : f \in Bijection(1..C, Teams)
    BY FS_CardinalityType DEF EnterpriseAssumption, ExistsBijection
  <2>2. f \in [1..C -> Teams] /\ \A i, j \in 1..C : f[i] = f[j] => i = j
    BY <2>1 DEF Bijection, Injection, IsInjective
  <2>3. \E old \in [1..C -> Teams] : \A i, j \in DOMAIN old : old[i] = old[j] => i = j
    BY <2>2
  <2>4. QED
    BY <2>3 DEF Earlier
<1> HIDE DEF C
<1> DEFINE Row(j) == [NoJob EXCEPT !.st = st, !.team = Earlier[j], !.turn = 1, !.wt = j,
                                   !.session = TRUE, !.saved = TRUE]
<1>3. ASSUME NEW j \in Ids, j <= C
      PROVE  /\ Row(j) \in Jobs /\ Row(j).team = Earlier[j] /\ Row(j).turn = 1 /\ Row(j).wt = j
             /\ Row(j).st = st /\ ~Row(j).given
  <2> DEFINE a == [NoJob EXCEPT !.st = st]
             b == [a EXCEPT !.team = Earlier[j]]
             c == [b EXCEPT !.turn = 1]
             d == [c EXCEPT !.wt = j]
             e == [d EXCEPT !.session = TRUE]
             f == [e EXCEPT !.saved = TRUE]
  <2>1. j \in 1..C /\ j \in 0..MaxJobs /\ 1 \in 0..MaxJobs
    BY <1>1, <1>3 DEF Ids
  <2>2. Earlier[j] \in Teams
    BY <1>2, <2>1
  <2>3. NoJob \in Jobs /\ ~NoJob.given
    BY NothingIsJob DEF NoJob
  <2>4. a \in Jobs /\ a.st = st /\ ~a.given
    BY <2>3 DEF Jobs, Terminal, Retryable
  <2> HIDE DEF a
  <2>5. b \in Jobs /\ b.st = st /\ b.team = Earlier[j] /\ ~b.given
    BY <2>2, <2>4 DEF Jobs
  <2> HIDE DEF b
  <2>6. c \in Jobs /\ c.st = st /\ c.team = Earlier[j] /\ c.turn = 1 /\ ~c.given
    BY <2>1, <2>5 DEF Jobs
  <2> HIDE DEF c
  <2>7. d \in Jobs /\ d.st = st /\ d.team = Earlier[j] /\ d.turn = 1 /\ d.wt = j /\ ~d.given
    BY <2>1, <2>6 DEF Jobs
  <2> HIDE DEF d
  <2>8. e \in Jobs /\ e.st = st /\ e.team = Earlier[j] /\ e.turn = 1 /\ e.wt = j /\ ~e.given
    BY <2>7 DEF Jobs
  <2> HIDE DEF e
  <2>9. f \in Jobs /\ f.st = st /\ f.team = Earlier[j] /\ f.turn = 1 /\ f.wt = j /\ ~f.given
    BY <2>8 DEF Jobs
  <2> HIDE DEF f
  <2>10. f = Row(j)
    BY DEF a, b, c, d, e, f
  <2> HIDE DEF Row
  <2>11. QED
    BY <2>9, <2>10
<1> HIDE DEF Row
<1>4. Past(st) = [j \in Ids |-> IF j > C THEN NoJob ELSE Row(j)]
  BY DEF Past, Row, C
<1>5. \A j \in Ids : j \in Nat /\ (j > C \/ j <= C)
  BY <1>1 DEF Ids
<1>6. NoJob \in Jobs
  BY NothingIsJob
<1> HIDE DEF NoJob
<1>7. Past(st) \in [Ids -> Jobs]
  BY <1>1, <1>3, <1>4, <1>5, <1>6
<1>8. ASSUME NEW j \in Ids
      PROVE  \/ /\ j <= C
                /\ Past(st)[j].team \in Teams /\ Past(st)[j].turn = 1 /\ Past(st)[j].wt = j
                /\ Past(st)[j].st = st /\ ~Past(st)[j].given
             \/ j > C /\ Past(st)[j] = NoJob
  <2>1. CASE j > C
    BY <1>4, <2>1
  <2>2. CASE ~(j > C)
    <3>1. j <= C /\ j \in 1..C
      BY <1>1, <1>5, <2>2 DEF Ids
    <3>2. Past(st)[j] = Row(j)
      BY <1>4, <2>2
    <3>3. QED
      BY <1>2, <1>3, <3>1, <3>2
  <2>3. QED
    BY <2>1, <2>2
<1>9. C \in 0..MaxJobs
  BY <1>1
<1>10. QED
  BY <1>7, <1>8, <1>9 DEF C

(* At first the screen and the ledger agree, and each job has its own worktree. *)
LEMMA Starts ==
    ASSUME EnterpriseAssumption, Init
    PROVE  /\ jobs \in [Ids -> Jobs] /\ disk = jobs /\ made \in 0..MaxJobs
           /\ \A j \in Ids :
                \/ /\ j <= made /\ jobs[j].team \in Teams /\ jobs[j].turn = 1 /\ jobs[j].wt = j
                   /\ jobs[j].st \in Terminal /\ ~jobs[j].given
                \/ jobs[j] = NoJob
<1>1. NoJob \in Jobs /\ 0 \in 0..MaxJobs
  BY NothingIsJob DEF EnterpriseAssumption
<1>2. disk = jobs
  BY DEF Init
<1>3. CASE jobs = [j \in Ids |-> NoJob] /\ made = 0
  BY <1>1, <1>2, <1>3
<1>4. CASE (\E st \in {"completed", "failed"} : jobs = Past(st)) /\ made = Cardinality(Teams)
  <2>1. PICK st \in {"completed", "failed"} : jobs = Past(st)
    BY <1>4
  <2>2. st \in Terminal
    BY DEF Terminal, Retryable
  <2>3. QED
    BY <1>2, <1>4, <2>1, <2>2, PastIsTyped
<1>5. QED
  BY <1>3, <1>4 DEF Init

LEMMA InitIsInv ==
    ASSUME EnterpriseAssumption, Init
    PROVE  IInv
<1>1. /\ NoJob.st = None /\ NoJob.team = None /\ NoJob.turn = 0 /\ NoJob.wt = 0
      /\ ~NoJob.session /\ ~NoJob.given
  BY DEF NoJob
<1>2. /\ crew = [t \in Teams |-> {}] /\ lanes = [j \in Ids |-> <<>>] /\ saving = {}
      /\ draft = FALSE /\ brief = [goal |-> FALSE, crew |-> {}]
      /\ team = None /\ turn = 0 /\ person = "spok" /\ typed = None
      /\ sent = [j \in Ids |-> None] /\ clicks = 0 /\ faults = 0
  BY DEF Init
<1>3. None \notin Teams /\ MaxJobs \in Nat /\ MaxClicks \in Nat /\ MaxFaults \in Nat
  BY DEF EnterpriseAssumption, None
<1>4. \A j \in Ids : j \in Nat /\ j >= 1
  BY <1>3 DEF Ids
<1> HIDE DEF NoJob
<1>5. jobs \in [Ids -> Jobs] /\ disk = jobs /\ made \in 0..MaxJobs
  BY Starts
<1>6. ASSUME NEW j \in Ids
      PROVE  /\ jobs[j].team = None <=> jobs[j].turn = 0
             /\ jobs[j].turn <= j /\ jobs[j].wt <= j /\ ~jobs[j].given
             /\ jobs[j].st = None => jobs[j] = NoJob
             /\ j > made => jobs[j] = NoJob
  <2>1. CASE jobs[j] = NoJob
    BY <1>1, <1>4, <2>1
  <2>2. CASE /\ j <= made /\ jobs[j].team \in Teams /\ jobs[j].turn = 1 /\ jobs[j].wt = j
             /\ jobs[j].st \in Terminal /\ ~jobs[j].given
    <3>1. jobs[j].st # None
      BY <2>2 DEF Terminal, Retryable, None
    <3>2. ~(j > made)
      BY <1>4, <1>5, <2>2
    <3>3. jobs[j].team # None
      BY <1>3, <2>2
    <3>4. QED
      BY <1>4, <2>2, <3>1, <3>2, <3>3
  <2>3. QED
    BY <2>1, <2>2, Starts
<1>7. TypeOK
  <2>1. crew \in [Teams -> SUBSET Names] /\ lanes \in [Ids -> Seq(Labels)] /\ brief \in Briefs
    BY <1>2 DEF Briefs
  <2>2. sent \in [Ids -> Teams \cup {None}] /\ clicks \in 0..MaxClicks /\ faults \in 0..MaxFaults
        /\ turn \in 0..MaxJobs
    BY <1>2, <1>3
  <2>3. saving \subseteq Ids /\ draft \in BOOLEAN /\ team \in Teams \cup {None}
        /\ person \in Names \cup Labels \cup {"spok"} /\ typed \in Teams \cup {None}
    BY <1>2
  <2>4. \A j \in Ids : jobs[j].team = None <=> jobs[j].turn = 0
    BY <1>6
  <2>5. QED
    BY <1>5, <2>1, <2>2, <2>3, <2>4 DEF TypeOK
<1>8. RowsAreOld
  BY <1>1, <1>5, <1>6 DEF RowsAreOld, Rows
<1>9. NotYet /\ OneJob
  BY <1>1, <1>2, <1>5, <1>6 DEF NotYet, OneJob
<1>10. LettersAreAddressed /\ AcceptedIsDurable
  BY <1>2, <1>5, <1>6 DEF LettersAreAddressed, AcceptedIsDurable, Rows
<1>11. QED
  BY <1>7, <1>8, <1>9, <1>10 DEF IInv

LEMMA NextKeepsInv ==
    ASSUME EnterpriseAssumption, IInv, [Next]_vars
    PROVE  IInv'
<1>1. CASE RowMoves
  BY <1>1, RowsMove, TouchedKeepsInv, RestKeepsInv
<1>2. CASE LaunchMission \/ FollowUp \/ JobAction
  BY <1>2, LaunchKeepsInv, FollowUpKeepsInv, JobActionKeepsInv
<1>3. CASE ClearFinished \/ Sync \/ Reload
  BY <1>3, ClearKeepsInv, SyncKeepsInv, ReloadKeepsInv
<1>4. CASE Looks
  BY <1>4, LookKeepsInv
<1>5. CASE UNCHANGED vars
  BY <1>5, StutterKeepsInv
<1>6. QED
  BY <1>1, <1>2, <1>3, <1>4, <1>5 DEF Next, RowMoves, Looks

-----------------------------------------------------------------------------
(* Worktrees: one failure at most                                               *)

LEMMA LinkedIsThere ==
    ASSUME EnterpriseAssumption, IInv, NEW i \in Ids, NEW r \in Rows(i), r.wt # 0
    PROVE  r.st # None
BY DEF IInv, RowsAreOld

LEMMA TouchedKeepsTurns ==
    ASSUME EnterpriseAssumption, IInv, TurnInv, NEW j \in Ids, Touches(j)
    PROVE  TurnInv'
<1>1. /\ \A i \in Ids \ {j} : jobs'[i] = jobs[i] /\ disk'[i] = disk[i]
      /\ disk'[j] \in {disk[j], jobs[j], jobs'[j]} /\ jobs[j].st # None /\ jobs'[j].st # None
      /\ jobs'[j].team = jobs[j].team /\ jobs'[j].turn = jobs[j].turn
      /\ jobs'[j].st \in Active => jobs[j].st \in Active
      /\ faults' = 0 => faults = 0 /\ (disk'[j] = jobs'[j] \/ jobs'[j].st = jobs[j].st)
  BY DEF Touches
<1>2. j # 0 /\ jobs[j] \in Rows(j)
  BY RowsAreTyped DEF IInv, Rows
<1>3. \A i \in Ids \ {j} : Rows(i)' = Rows(i)
  BY <1>1 DEF Rows
<1>4. \A r \in Rows(j)' : r \in Rows(j) \/ r = jobs'[j]
  BY <1>1 DEF Rows
<1>5. LedgerIsCurrent'
  <2>1. ASSUME faults' = 0, NEW i \in Ids, disk'[i].st \in Active PROVE jobs'[i].st = disk'[i].st
    BY <1>1, <2>1 DEF TurnInv, LedgerIsCurrent
  <2>2. QED
    BY <2>1 DEF LedgerIsCurrent
<1>6. CASE jobs'[j].wt = jobs[j].wt
  <2>1. WorktreesAreOwn'
    <3>1. ASSUME NEW i \in Ids, NEW k \in Ids, i # k, NEW x \in Rows(i)', NEW y \in Rows(k)'
          PROVE  /\ x.wt # 0 /\ x.wt = y.wt => x.team = y.team
                 /\ x.st # None /\ x.wt = 0 => y.wt # i
      <4>1. PICK v \in Rows(i) : v.wt = x.wt /\ v.team = x.team /\ (x.st # None => v.st # None)
        BY <1>1, <1>2, <1>3, <1>4, <1>6, <3>1
      <4>2. PICK w \in Rows(k) : w.wt = y.wt /\ w.team = y.team
        BY <1>1, <1>2, <1>3, <1>4, <1>6, <3>1
      <4>3. QED
        BY <3>1, <4>1, <4>2 DEF TurnInv, WorktreesAreOwn
    <3>2. QED
      BY <3>1 DEF WorktreesAreOwn
  <2>2. LastIsActive'
    <3>1. ASSUME NEW i \in Ids
          PROVE  /\ jobs'[i].wt = jobs[i].wt /\ jobs'[i].turn = jobs[i].turn
                 /\ jobs'[i].st \in Active => jobs[i].st \in Active
                 /\ jobs'[i].st = None => jobs[i].st = None /\ disk'[i] = disk[i]
      BY <1>1, <1>6
    <3>2. ASSUME NEW i \in Ids, NEW k \in Ids, i # k, jobs'[i].wt # 0
          PROVE  /\ jobs'[i].st \in Active /\ jobs'[k].wt = jobs'[i].wt
                        => Before(jobs'[k], k, jobs'[i], i)
                 /\ jobs'[k].st = None /\ disk'[k].wt = jobs'[i].wt
                        => Before(disk'[k], k, jobs'[i], i)
      BY <3>1, <3>2 DEF TurnInv, LastIsActive, Before
    <3>3. QED
      BY <3>2 DEF LastIsActive
  <2>3. QED
    BY <1>5, <2>1, <2>2 DEF TurnInv
<1>7. CASE jobs[j].wt = 0 /\ jobs'[j].wt = j
  <2>1. \A i \in Ids \ {j} : \A r \in Rows(i) : r.wt # j
    BY <1>1, <1>2, <1>7 DEF TurnInv, WorktreesAreOwn
  <2>2. \A r \in Rows(j)' : r \in Rows(j) \/ r.wt = j
    BY <1>4, <1>7
  <2>3. WorktreesAreOwn'
    <3>1. ASSUME NEW i \in Ids, NEW k \in Ids, i # k, NEW x \in Rows(i)', NEW y \in Rows(k)'
          PROVE  /\ x.wt # 0 /\ x.wt = y.wt => x.team = y.team
                 /\ x.st # None /\ x.wt = 0 => y.wt # i
      <4>1. CASE x \in Rows(i) /\ y \in Rows(k)
        BY <3>1, <4>1 DEF TurnInv, WorktreesAreOwn
      <4>2. CASE x \notin Rows(i)
        <5>1. i = j /\ x.wt = j /\ y.wt # j
          BY <1>3, <2>1, <2>2, <3>1, <4>2
        <5>2. QED
          BY <1>2, <5>1
      <4>3. CASE y \notin Rows(k)
        <5>1. k = j /\ y.wt = j /\ x.wt # j
          BY <1>3, <2>1, <2>2, <3>1, <4>3
        <5>2. QED
          BY <3>1, <5>1
      <4>4. QED
        BY <4>1, <4>2, <4>3
    <3>2. QED
      BY <3>1 DEF WorktreesAreOwn
  <2>4. LastIsActive'
    <3>1. ASSUME NEW i \in Ids, NEW k \in Ids, i # k, jobs'[i].wt # 0
          PROVE  /\ jobs'[i].st \in Active /\ jobs'[k].wt = jobs'[i].wt
                        => Before(jobs'[k], k, jobs'[i], i)
                 /\ jobs'[k].st = None /\ disk'[k].wt = jobs'[i].wt
                        => Before(disk'[k], k, jobs'[i], i)
      <4>1. CASE i = j
        <5>1. jobs'[k].wt # j /\ disk'[k].wt # j
          BY <1>1, <2>1, <3>1, <4>1 DEF Rows
        <5>2. QED
          BY <1>7, <4>1, <5>1
      <4>2. CASE k = j
        <5>1. jobs'[i].wt # j
          BY <1>1, <2>1, <3>1, <4>2 DEF Rows
        <5>2. QED
          BY <1>1, <1>7, <4>2, <5>1
      <4>3. CASE i # j /\ k # j
        BY <1>1, <3>1, <4>3 DEF TurnInv, LastIsActive
      <4>4. QED
        BY <4>1, <4>2, <4>3
    <3>2. QED
      BY <3>1 DEF LastIsActive
  <2>5. QED
    BY <1>5, <2>3, <2>4 DEF TurnInv
<1>8. QED
  BY <1>6, <1>7 DEF Touches

LEMMA SameRowsKeepTurns ==
    ASSUME TurnInv, UNCHANGED <<jobs, disk>>, faults' = 0 => faults = 0
    PROVE  TurnInv'
BY DEF TurnInv, WorktreesAreOwn, LastIsActive, LedgerIsCurrent, Rows

LEMMA SyncKeepsTurns ==
    ASSUME EnterpriseAssumption, IInv, TurnInv, Sync
    PROVE  TurnInv'
<1>1. jobs' = jobs /\ faults' = faults
  BY DEF Sync, rows
<1>2. \A i \in Ids : /\ disk'[i].st = jobs[i].st /\ disk'[i].team = jobs[i].team
                     /\ disk'[i].wt = jobs[i].wt
  BY SyncWrites
<1>3. \A i \in Ids : jobs[i] \in Rows(i)
  BY DEF Rows
<1>4. WorktreesAreOwn'
  <2>1. ASSUME NEW i \in Ids, NEW r \in Rows(i)'
        PROVE  r.st = jobs[i].st /\ r.team = jobs[i].team /\ r.wt = jobs[i].wt
    BY <1>1, <1>2, <2>1 DEF Rows
  <2>2. QED
    BY <1>3, <2>1 DEF TurnInv, WorktreesAreOwn
<1>5. LastIsActive'
  <2>1. \A k \in Ids : jobs[k].st = None => disk'[k].wt = 0
    BY <1>2, <1>3, LinkedIsThere
  <2>2. QED
    BY <1>1, <2>1 DEF TurnInv, LastIsActive
<1>6. LedgerIsCurrent'
  BY <1>1, <1>2 DEF LedgerIsCurrent
<1>7. QED
  BY <1>4, <1>5, <1>6 DEF TurnInv

LEMMA ClearKeepsTurns ==
    ASSUME EnterpriseAssumption, IInv, TurnInv, ClearFinished
    PROVE  TurnInv'
<1>1. /\ disk' = disk /\ faults' = faults
      /\ \A j \in Ids : jobs'[j] = IF jobs[j].st \in Terminal THEN NoJob ELSE jobs[j]
  BY DEF ClearFinished, ledger
<1>2. NoJob.st = None /\ NoJob.wt = 0
  BY DEF NoJob
<1> HIDE DEF NoJob
<1>3. WorktreesAreOwn'
  <2>1. ASSUME NEW i \in Ids, NEW r \in Rows(i)'
        PROVE  r \in Rows(i) \/ (r.wt = 0 /\ r.st = None)
    BY <1>1, <1>2, <2>1 DEF Rows
  <2>2. ASSUME NEW i \in Ids, NEW k \in Ids, i # k, NEW x \in Rows(i)', NEW y \in Rows(k)'
        PROVE  /\ x.wt # 0 /\ x.wt = y.wt => x.team = y.team
               /\ x.st # None /\ x.wt = 0 => y.wt # i
    <3>1. i # 0
      BY RowsAreTyped DEF IInv
    <3>2. QED
      BY <2>1, <2>2, <3>1 DEF TurnInv, WorktreesAreOwn
  <2>3. QED
    BY <2>2 DEF WorktreesAreOwn
<1>4. LastIsActive'
  <2>1. ASSUME NEW i \in Ids, NEW k \in Ids, i # k, jobs'[i].wt # 0
        PROVE  /\ jobs'[i].st \in Active /\ jobs'[k].wt = jobs'[i].wt
                      => Before(jobs'[k], k, jobs'[i], i)
               /\ jobs'[k].st = None /\ disk'[k].wt = jobs'[i].wt
                      => Before(disk'[k], k, jobs'[i], i)
    <3>1. jobs'[i] = jobs[i] /\ jobs[i].wt # 0 /\ jobs[i].st \notin Terminal
      BY <1>1, <1>2, <2>1
    <3>2. jobs[i].st \in Active
      BY <3>1, RowsAreTyped, LinkedIsThere DEF IInv, Rows
    <3>3. CASE jobs'[k] = jobs[k]
      BY <1>1, <2>1, <3>1, <3>3 DEF TurnInv, LastIsActive
    <3>4. CASE jobs'[k] # jobs[k]
      <4>1. jobs[k].st \in Terminal /\ jobs'[k].wt = 0
        BY <1>1, <1>2, <3>4
      <4>2. ASSUME disk[k].wt = jobs[i].wt
            PROVE  Before(disk[k], k, jobs[i], i)
        <5>1. disk[k].st # None /\ jobs[k].st # None
          BY <3>1, <4>1, <4>2, LinkedIsThere DEF Rows, Terminal, Retryable, None
        <5>2. jobs[k].wt = disk[k].wt /\ jobs[k].turn = disk[k].turn
          BY <5>1 DEF IInv, OneJob
        <5>3. Before(jobs[k], k, jobs[i], i)
          BY <2>1, <3>1, <3>2, <4>2, <5>2 DEF TurnInv, LastIsActive
        <5>4. QED
          BY <5>2, <5>3 DEF Before
      <4>3. QED
        BY <1>1, <3>1, <4>1, <4>2
    <3>5. QED
      BY <3>3, <3>4
  <2>2. QED
    BY <2>1 DEF LastIsActive
<1>5. LedgerIsCurrent'
  <2>1. \A j \in Ids : jobs[j].st \in Active => jobs'[j] = jobs[j]
    BY <1>1 DEF Active, Terminal, Retryable
  <2>2. QED
    BY <1>1, <2>1 DEF TurnInv, LedgerIsCurrent
<1>6. QED
  BY <1>3, <1>4, <1>5 DEF TurnInv

LEMMA ReloadKeepsTurns ==
    ASSUME EnterpriseAssumption, MaxFaults <= 1, IInv, TurnInv, Reload
    PROVE  TurnInv'
<1>1. faults = 0 /\ faults' = 1
  <2>1. Fault
    BY DEF Reload
  <2>2. faults \in 0..MaxFaults /\ MaxFaults \in Nat
    BY DEF IInv, TypeOK, EnterpriseAssumption
  <2>3. QED
    BY <2>1, <2>2 DEF Fault
<1>2. /\ disk' = jobs'
      /\ \A j \in Ids :
            /\ jobs'[j].st = IF disk[j].st \in {"starting", "running"} THEN "failed" ELSE disk[j].st
            /\ jobs'[j].team = disk[j].team
            /\ jobs'[j].turn = disk[j].turn /\ jobs'[j].wt = disk[j].wt
  BY ReloadReads
<1>3. \A j \in Ids : jobs'[j].st = None <=> disk[j].st = None
  BY <1>2 DEF None
<1>4. \A j \in Ids : disk[j] \in Rows(j)
  BY DEF Rows
<1>5. WorktreesAreOwn'
  <2>1. ASSUME NEW i \in Ids, NEW r \in Rows(i)'
        PROVE  r.team = disk[i].team /\ r.wt = disk[i].wt /\ (r.st = None <=> disk[i].st = None)
    BY <1>2, <1>3, <2>1 DEF Rows
  <2>2. QED
    BY <1>4, <2>1 DEF TurnInv, WorktreesAreOwn
<1>6. LastIsActive'
  <2>1. ASSUME NEW i \in Ids, NEW k \in Ids, i # k, jobs'[i].wt # 0
        PROVE  /\ jobs'[i].st \in Active /\ jobs'[k].wt = jobs'[i].wt
                      => Before(jobs'[k], k, jobs'[i], i)
               /\ jobs'[k].st = None /\ disk'[k].wt = jobs'[i].wt
                      => Before(disk'[k], k, jobs'[i], i)
    <3>1. disk[i].wt # 0 /\ disk[i].st # None
      BY <1>2, <1>4, <2>1, LinkedIsThere
    <3>2. ASSUME jobs'[k].st = None PROVE disk'[k].wt = 0
      BY <1>2, <1>3, <1>4, <3>2, LinkedIsThere
    <3>3. ASSUME jobs'[i].st \in Active, jobs'[k].wt = jobs'[i].wt
          PROVE  Before(jobs'[k], k, jobs'[i], i)
      <4>1. disk[i].st \in Active
        BY <1>2, <3>3 DEF Active
      <4>2. jobs[i].st = disk[i].st /\ jobs[i].st # None
        BY <1>1, <3>1, <4>1 DEF TurnInv, LedgerIsCurrent
      <4>3. jobs[i].wt = disk[i].wt /\ jobs[i].turn = disk[i].turn
        BY <3>1, <4>2 DEF IInv, OneJob
      <4>4. disk[k].wt = jobs[i].wt
        BY <1>2, <3>3, <4>3
      <4>5. Before(disk[k], k, jobs[i], i)
        <5>1. CASE jobs[k].st = None
          BY <2>1, <3>1, <4>3, <4>4, <5>1 DEF TurnInv, LastIsActive
        <5>2. CASE jobs[k].st # None
          <6>1. disk[k].st # None
            BY <1>4, <3>1, <4>3, <4>4, LinkedIsThere
          <6>2. jobs[k].wt = disk[k].wt /\ jobs[k].turn = disk[k].turn
            BY <5>2, <6>1 DEF IInv, OneJob
          <6>3. Before(jobs[k], k, jobs[i], i)
            BY <2>1, <3>1, <4>1, <4>2, <4>3, <4>4, <6>2 DEF TurnInv, LastIsActive
          <6>4. QED
            BY <6>2, <6>3 DEF Before
        <5>3. QED
          BY <5>1, <5>2
      <4>6. QED
        BY <1>2, <4>3, <4>5 DEF Before
    <3>4. QED
      BY <2>1, <3>2, <3>3
  <2>2. QED
    BY <2>1 DEF LastIsActive
<1>7. LedgerIsCurrent'
  BY <1>1 DEF LedgerIsCurrent
<1>8. QED
  BY <1>5, <1>6, <1>7 DEF TurnInv

(* The worktree of a follow-up is that of the team's latest turn, which is over.*)
LEMMA AddedKeepsTurns ==
    ASSUME EnterpriseAssumption, IInv, TurnInv, NEW job, Adds(job)
    PROVE  TurnInv'
<1> DEFINE n == made + 1
           c == Current(job.team)
<1>1. /\ made \in Nat /\ n \in Ids /\ n \in Nat /\ n # 0 /\ jobs'[n] = job /\ disk' = disk
      /\ jobs[n].st = None /\ disk[n].st = None
      /\ \A i \in Ids \ {n} : jobs'[i] = jobs[i]
  BY AddedIsNew
<1>2. job.st = "queued" /\ job.st # None /\ job.wt \in Nat /\ job.wt # n /\ faults' = faults
  BY <1>1, AddedRowIsOld DEF Adds, None
<1>3. \A i \in Ids : i \in Nat /\ i # 0 /\ jobs[i].turn \in Nat /\ disk[i].turn \in Nat
  BY RowsAreTyped DEF IInv
<1>4. jobs[n].wt = 0 /\ disk[n].wt = 0
  BY <1>1, LinkedIsThere DEF Rows
<1>5. \A i \in Ids : \A r \in Rows(i) : r.wt # n
  <2>1. ASSUME NEW i \in Ids, NEW r \in Rows(i), r.wt = n PROVE FALSE
    <3>1. r.st # None
      BY <1>1, <2>1, LinkedIsThere
    <3>2. ~(i > made)
      BY <3>1 DEF IInv, NotYet, Rows
    <3>3. r.wt <= i
      BY DEF IInv, RowsAreOld
    <3>4. QED
      BY <1>1, <1>3, <2>1, <3>2, <3>3
  <2>2. QED
    BY <2>1
<1>6. \A i \in Ids : \A r \in Rows(i)' : r \in Rows(i) \/ (i = n /\ r = job)
  BY <1>1 DEF Rows
<1>7. \A r \in Rows(n) : r.st = None /\ r.wt = 0
  BY <1>1, <1>4 DEF Rows
<1>8. LedgerIsCurrent'
  <2>1. \A j \in Ids : disk[j].st \in Active => j # n
    BY <1>1 DEF Active, None
  <2>2. QED
    BY <1>1, <1>2, <2>1 DEF TurnInv, LedgerIsCurrent
<1>9. CASE job.wt = 0
  <2>1. WorktreesAreOwn'
    <3>1. ASSUME NEW i \in Ids, NEW k \in Ids, i # k, NEW x \in Rows(i)', NEW y \in Rows(k)'
          PROVE  /\ x.wt # 0 /\ x.wt = y.wt => x.team = y.team
                 /\ x.st # None /\ x.wt = 0 => y.wt # i
      <4>1. CASE x \in Rows(i) /\ y \in Rows(k)
        BY <3>1, <4>1 DEF TurnInv, WorktreesAreOwn
      <4>2. CASE x \notin Rows(i)
        BY <1>5, <1>6, <1>9, <3>1, <4>2
      <4>3. CASE y \notin Rows(k)
        BY <1>3, <1>6, <1>9, <3>1, <4>3
      <4>4. QED
        BY <4>1, <4>2, <4>3
    <3>2. QED
      BY <3>1 DEF WorktreesAreOwn
  <2>2. LastIsActive'
    <3>1. ASSUME NEW i \in Ids, NEW k \in Ids, i # k, jobs'[i].wt # 0
          PROVE  /\ jobs'[i].st \in Active /\ jobs'[k].wt = jobs'[i].wt
                        => Before(jobs'[k], k, jobs'[i], i)
                 /\ jobs'[k].st = None /\ disk'[k].wt = jobs'[i].wt
                        => Before(disk'[k], k, jobs'[i], i)
      <4>1. i # n
        BY <1>1, <1>9, <3>1
      <4>2. CASE k = n
        BY <1>1, <1>2, <1>9, <3>1, <4>2
      <4>3. CASE k # n
        BY <1>1, <3>1, <4>1, <4>3 DEF TurnInv, LastIsActive
      <4>4. QED
        BY <4>2, <4>3
    <3>2. QED
      BY <3>1 DEF LastIsActive
  <2>3. QED
    BY <1>8, <2>1, <2>2 DEF TurnInv
<1>10. CASE /\ job.team \in Live /\ CanContinue(job.team)
            /\ job.wt = TurnOf(job.team).wt /\ job.turn = TurnOf(job.team).turn + 1
  <2>1. c \in JobsOf(job.team) /\ \A i \in JobsOf(job.team) : Precedes(jobs, i, c)
    BY <1>10, CurrentIsLast DEF IInv
  <2>2. /\ c \in Ids /\ jobs[c].st # None /\ jobs[c].team = job.team
        /\ jobs[c].st \notin Active /\ jobs[c].wt # 0
        /\ job.wt = jobs[c].wt /\ job.turn = jobs[c].turn + 1
    BY <1>10, <2>1 DEF JobsOf, CanContinue, TurnOf
  <2>3. \A i \in Ids : jobs[i].st # None /\ jobs[i].team = job.team => Precedes(jobs, i, c)
    BY <2>1 DEF JobsOf
  <2> HIDE DEF c
  <2>4. c # n /\ job.wt # 0
    BY <1>1, <2>2
  <2>5. ASSUME NEW i \in Ids, NEW r \in Rows(i)
        PROVE  /\ r.wt = job.wt => r.team = job.team
               /\ r.st # None /\ r.wt = 0 => job.wt # i
    <3>1. CASE i # c
      <4>1. jobs[c] \in Rows(c)
        BY DEF Rows
      <4>2. QED
        BY <2>2, <2>5, <3>1, <4>1 DEF TurnInv, WorktreesAreOwn
    <3>2. CASE i = c
      <4>1. r.st # None => r.team = jobs[c].team /\ r.wt = jobs[c].wt
        BY <2>2, <2>5, <3>2 DEF IInv, OneJob, Rows
      <4>2. r.wt # 0 => r.st # None
        BY <2>5, LinkedIsThere
      <4>3. QED
        BY <2>2, <2>4, <4>1, <4>2
    <3>3. QED
      BY <3>1, <3>2
  <2>6. WorktreesAreOwn'
    <3>1. ASSUME NEW i \in Ids, NEW k \in Ids, i # k, NEW x \in Rows(i)', NEW y \in Rows(k)'
          PROVE  /\ x.wt # 0 /\ x.wt = y.wt => x.team = y.team
                 /\ x.st # None /\ x.wt = 0 => y.wt # i
      <4>1. CASE x \in Rows(i) /\ y \in Rows(k)
        BY <3>1, <4>1 DEF TurnInv, WorktreesAreOwn
      <4>2. CASE x \notin Rows(i)
        <5>1. x = job /\ y \in Rows(k)
          BY <1>6, <3>1, <4>2
        <5>2. QED
          BY <2>4, <2>5, <5>1
      <4>3. CASE y \notin Rows(k)
        <5>1. y = job /\ x \in Rows(i)
          BY <1>6, <3>1, <4>3
        <5>2. QED
          BY <2>5, <5>1
      <4>4. QED
        BY <4>1, <4>2, <4>3
    <3>2. QED
      BY <3>1 DEF WorktreesAreOwn
  <2>7. LastIsActive'
    <3>1. ASSUME NEW i \in Ids, NEW k \in Ids, i # k, jobs'[i].wt # 0
          PROVE  /\ jobs'[i].st \in Active /\ jobs'[k].wt = jobs'[i].wt
                        => Before(jobs'[k], k, jobs'[i], i)
                 /\ jobs'[k].st = None /\ disk'[k].wt = jobs'[i].wt
                        => Before(disk'[k], k, jobs'[i], i)
      <4>1. CASE i = n
        <5>1. jobs'[i] = job /\ jobs'[k] = jobs[k] /\ disk'[k] = disk[k]
          BY <1>1, <3>1, <4>1
        <5>2. ASSUME jobs[k].wt = job.wt PROVE Before(jobs[k], k, job, n)
          <6>1. jobs[k].st # None /\ jobs[k].team = job.team
            BY <2>4, <2>5, <5>2, LinkedIsThere DEF Rows
          <6>2. Precedes(jobs, k, c)
            BY <2>3, <6>1
          <6>3. QED
            BY <1>3, <2>2, <6>2 DEF Precedes, Before
        <5>3. ASSUME jobs[k].st = None, disk[k].wt = job.wt PROVE Before(disk[k], k, job, n)
          <6>1. Before(disk[k], k, jobs[c], c)
            BY <2>2, <5>3 DEF TurnInv, LastIsActive
          <6>2. QED
            BY <1>3, <2>2, <6>1 DEF Before
        <5>4. QED
          BY <4>1, <5>1, <5>2, <5>3
      <4>2. CASE k = n
        <5>1. jobs'[i] = jobs[i] /\ jobs'[k] = job
          BY <1>1, <3>1, <4>2
        <5>2. ASSUME jobs[i].st \in Active, jobs[i].wt = job.wt PROVE FALSE
          <6>1. jobs[i].st # None /\ jobs[i].team = job.team /\ i # c
            BY <2>2, <2>4, <2>5, <5>2, LinkedIsThere DEF Rows
          <6>2. Precedes(jobs, i, c)
            BY <2>3, <6>1
          <6>3. Before(jobs[c], c, jobs[i], i)
            BY <2>2, <2>4, <5>2, <6>1 DEF TurnInv, LastIsActive
          <6>4. QED
            BY <1>3, <2>2, <6>1, <6>2, <6>3 DEF Precedes, Before
        <5>3. QED
          BY <1>2, <5>1, <5>2
      <4>3. CASE i # n /\ k # n
        BY <1>1, <3>1, <4>3 DEF TurnInv, LastIsActive
      <4>4. QED
        BY <4>1, <4>2, <4>3
    <3>2. QED
      BY <3>1 DEF LastIsActive
  <2>8. QED
    BY <1>8, <2>6, <2>7 DEF TurnInv
<1>11. QED
  BY <1>9, <1>10 DEF Adds

LEMMA InitIsTurnInv ==
    ASSUME EnterpriseAssumption, Init
    PROVE  TurnInv
<1>1. NoJob.st = None /\ NoJob.wt = 0
  BY DEF NoJob
<1> HIDE DEF NoJob
<1>2. disk = jobs
  BY Starts
<1>3. \A i \in Ids : /\ i # 0 /\ jobs[i].st \notin Active
                     /\ jobs[i].wt = i \/ (jobs[i].wt = 0 /\ jobs[i].st = None)
  <2>1. \A i \in Ids : i # 0
    BY DEF Ids
  <2>2. \A i \in Ids : jobs[i] = NoJob \/ (jobs[i].wt = i /\ jobs[i].st \in Terminal)
    BY Starts
  <2>3. QED
    BY <1>1, <2>1, <2>2 DEF Active, Terminal, Retryable, None
<1>4. WorktreesAreOwn
  BY <1>2, <1>3 DEF WorktreesAreOwn, Rows
<1>5. LastIsActive /\ LedgerIsCurrent
  BY <1>2, <1>3 DEF LastIsActive, LedgerIsCurrent
<1>6. QED
  BY <1>4, <1>5 DEF TurnInv

LEMMA NextKeepsTurns ==
    ASSUME EnterpriseAssumption, MaxFaults <= 1, IInv, TurnInv, [Next]_vars
    PROVE  TurnInv'
<1>1. CASE RowMoves
  <2>1. (\E j \in Ids : Touches(j)) \/ AtRest
    BY <1>1, RowsMove
  <2>2. QED
    BY <2>1, TouchedKeepsTurns, SameRowsKeepTurns DEF AtRest
<1>2. CASE LaunchMission \/ FollowUp \/ JobAction
  BY <1>2, LaunchKeepsInv, FollowUpKeepsInv, JobActionKeepsInv, AddedKeepsTurns
<1>3. CASE ClearFinished \/ Sync \/ Reload
  BY <1>3, ClearKeepsTurns, SyncKeepsTurns, ReloadKeepsTurns
<1>4. CASE Looks
  BY <1>4, LookKeepsInv, SameRowsKeepTurns
<1>5. CASE UNCHANGED vars
  BY <1>5, SameRowsKeepTurns DEF vars
<1>6. QED
  BY <1>1, <1>2, <1>3, <1>4, <1>5 DEF Next, RowMoves, Looks

(* Every lane has a station: the one of the member who took it, or its own.     *)
LEMMA LanesHaveStations ==
    ASSUME NEW c, NEW ls
    PROVE  DOMAIN ls \subseteq {s.lane : s \in Stations(c, ls)}
<1> DEFINE asked == {[who |-> n, lane |-> LaneFor(n, ls)] : n \in c}
           rest == DOMAIN ls \ {s.lane : s \in asked}
<1>1. Stations(c, ls) = asked \cup {[who |-> ls[k], lane |-> k] : k \in rest}
  BY DEF Stations
<1>2. ASSUME NEW k \in DOMAIN ls
      PROVE  \E s \in Stations(c, ls) : s.lane = k
  <2>1. CASE k \in {s.lane : s \in asked}
    <3>1. PICK s \in asked : s.lane = k
      BY <2>1
    <3> HIDE DEF asked
    <3>2. QED
      BY <1>1, <3>1
  <2>2. CASE k \notin {s.lane : s \in asked}
    <3>1. k \in rest
      BY <2>2
    <3> HIDE DEF rest
    <3> DEFINE s == [who |-> ls[k], lane |-> k]
    <3>2. s \in Stations(c, ls) /\ s.lane = k
      BY <1>1, <3>1
    <3>3. QED
      BY <3>2
  <2>3. QED
    BY <2>1, <2>2
<1>3. QED
  BY <1>2

-----------------------------------------------------------------------------

(* The rows, the ledger and the screen keep their types, whatever fails.        *)
THEOREM EnterpriseIsTyped ==
    ASSUME EnterpriseAssumption
    PROVE  Spec => []TypeOK
<1>1. Init => IInv
  BY InitIsInv
<1>2. IInv /\ [Next]_vars => IInv'
  BY NextKeepsInv
<1>3. IInv => TypeOK
  BY DEF IInv
<1>4. QED
  BY <1>1, <1>2, <1>3, PTL DEF Spec

(* What fails or is loaded again: an acceptance on the screen that is not being *)
(* saved is in the ledger, a follow-up is in the team its text was typed for,   *)
(* and every lane of a run is at a station of its team's crew.                  *)
THEOREM TeamsAreServed ==
    ASSUME EnterpriseAssumption
    PROVE  Spec => [](AcceptedIsDurable /\ FollowUpIsForItsTeam /\ CrewIsAccounted)
<1>1. Init => IInv
  BY InitIsInv
<1>2. IInv /\ [Next]_vars => IInv'
  BY NextKeepsInv
<1>3. IInv => AcceptedIsDurable /\ FollowUpIsForItsTeam /\ CrewIsAccounted
  <2>1. IInv => AcceptedIsDurable
    BY DEF IInv
  <2>2. IInv => FollowUpIsForItsTeam
    BY DEF IInv, LettersAreAddressed, FollowUpIsForItsTeam, Rows
  <2>3. CrewIsAccounted
    BY LanesHaveStations DEF CrewIsAccounted
  <2>4. QED
    BY <2>1, <2>2, <2>3
<1>4. QED
  BY <1>1, <1>2, <1>3, PTL DEF Spec

(* With one failure or reload at most, all four hold: no two turns that are     *)
(* under way share a worktree, either.  Two failures can revive a turn the      *)
(* screen gave up, next to its follow-up.                                       *)
THEOREM TeamsAreAlwaysSound ==
    ASSUME EnterpriseAssumption, MaxFaults <= 1
    PROVE  Spec => []TeamsAreSound
<1>1. Init => IInv /\ TurnInv
  BY InitIsInv, InitIsTurnInv
<1>2. IInv /\ TurnInv /\ [Next]_vars => IInv' /\ TurnInv'
  BY NextKeepsInv, NextKeepsTurns
<1>3. IInv /\ TurnInv => OneTurnPerWorktree
  <2>1. SUFFICES ASSUME IInv, TurnInv, NEW i \in Ids, NEW j \in Ids, i # j,
                        jobs[i].st \in Active, jobs[j].st \in Active,
                        jobs[i].wt # 0, jobs[i].wt = jobs[j].wt
                 PROVE  FALSE
    BY DEF OneTurnPerWorktree
  <2>2. Before(jobs[i], i, jobs[j], j) /\ Before(jobs[j], j, jobs[i], i)
    BY <2>1 DEF TurnInv, LastIsActive
  <2>3. jobs[i].turn \in Nat /\ jobs[j].turn \in Nat /\ i \in Nat /\ j \in Nat
    BY <2>1, RowsAreTyped DEF IInv
  <2>4. QED
    BY <2>2, <2>3 DEF Before
<1>4. Spec => [](AcceptedIsDurable /\ FollowUpIsForItsTeam /\ CrewIsAccounted)
  BY TeamsAreServed
<1>5. OneTurnPerWorktree /\ AcceptedIsDurable /\ FollowUpIsForItsTeam /\ CrewIsAccounted
        => TeamsAreSound
  BY DEF TeamsAreSound
<1>6. QED
  BY <1>1, <1>2, <1>3, <1>4, <1>5, PTL DEF Spec
=============================================================================
