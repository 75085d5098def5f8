-------------------------- MODULE SessionLogProofs --------------------------
(***************************************************************************)
(* Theorems about SessionLog, for every set of clients, any number of      *)
(* events and polls, and whatever requests are lost or meet a crash: what  *)
(* the log counts, what a follower shows, and that a deletion lasts.       *)
(***************************************************************************)
EXTENDS SessionLog, SequenceTheorems, TLAPS

(* Sequences                                                               *)

(* Taking one request out leaves requests that were there.                 *)
LEMMA RemoveAtProperties ==
    ASSUME NEW S, NEW s \in Seq(S), NEW i \in 1..Len(s)
    PROVE  /\ RemoveAt(s, i) \in Seq(S)
           /\ \A k \in 1..Len(RemoveAt(s, i)) : \E j \in 1..Len(s) : RemoveAt(s, i)[k] = s[j]
<1> DEFINE a == SubSeq(s, 1, i-1)
           b == SubSeq(s, i+1, Len(s))
<1>1. /\ Len(s) \in Nat
      /\ \A k \in 1..Len(s) : s[k] \in S
  BY LenProperties, ElementOfSeq
<1>2. /\ a \in Seq(S) /\ Len(a) = i-1
      /\ \A k \in 1..(i-1) : a[k] = s[k]
  <2>1. 1 \in Int /\ i-1 \in Int /\ \A k \in 1..(i-1) : s[k] \in S
    BY <1>1
  <2>2. /\ a \in Seq(S) /\ Len(a) = (IF 1 <= i-1 THEN (i-1)-1+1 ELSE 0)
        /\ \A k \in 1..((i-1)-1+1) : a[k] = s[1+k-1]
    BY <2>1, SubSeqProperties
  <2> HIDE DEF a
  <2> QED
    BY <2>2
<1>3. /\ b \in Seq(S) /\ Len(b) = Len(s) - i
      /\ \A k \in 1..(Len(s) - i) : b[k] = s[i+k]
  <2>1. i+1 \in Int /\ Len(s) \in Int /\ \A k \in (i+1)..Len(s) : s[k] \in S
    BY <1>1
  <2>2. /\ b \in Seq(S) /\ Len(b) = (IF i+1 <= Len(s) THEN Len(s)-(i+1)+1 ELSE 0)
        /\ \A k \in 1..(Len(s)-(i+1)+1) : b[k] = s[(i+1)+k-1]
    BY <2>1, SubSeqProperties
  <2> HIDE DEF b
  <2> QED
    BY <1>1, <2>2
<1>4. RemoveAt(s, i) = a \o b
  BY DEF RemoveAt
<1> HIDE DEF a, b
<1>5. /\ a \o b \in Seq(S) /\ Len(a \o b) = Len(a) + Len(b)
      /\ \A k \in 1..(Len(a) + Len(b)) : (a \o b)[k] = IF k <= Len(a) THEN a[k] ELSE b[k - Len(a)]
  BY <1>2, <1>3, ConcatProperties
<1>6. ASSUME NEW k \in 1..Len(a \o b)
      PROVE  \E j \in 1..Len(s) : (a \o b)[k] = s[j]
  <2>1. CASE k <= i-1
    BY <1>1, <1>2, <1>3, <1>5, <2>1
  <2>2. CASE k > i-1
    <3>1. (a \o b)[k] = s[i + (k - (i-1))] /\ i + (k - (i-1)) \in 1..Len(s)
      BY <1>1, <1>2, <1>3, <1>5, <2>2
    <3> QED
      BY <3>1
  <2> QED
    BY <1>1, <2>1, <2>2
<1> QED
  BY <1>4, <1>5, <1>6

(* A prefix, element by element.                                           *)
LEMMA PrefixMeans ==
    ASSUME NEW S, NEW s \in Seq(S), NEW t \in Seq(S)
    PROVE  IsPrefix(s, t) <=> Len(s) <= Len(t) /\ \A k \in 1..Len(s) : s[k] = t[k]
<1>1. Len(s) \in Nat /\ Len(t) \in Nat
  BY LenProperties
<1>2. SubSeq(s, 1, Len(s)) = s
  BY SubSeqFull
<1>3. ASSUME Len(s) <= Len(t)
      PROVE  /\ SubSeq(t, 1, Len(s)) \in Seq(S) /\ Len(SubSeq(t, 1, Len(s))) = Len(s)
             /\ \A k \in 1..Len(s) : SubSeq(t, 1, Len(s))[k] = t[k]
  <2>1. 1 \in Int /\ Len(s) \in Int /\ \A k \in 1..Len(s) : t[k] \in S
    BY <1>1, <1>3, ElementOfSeq
  <2>2. /\ SubSeq(t, 1, Len(s)) \in Seq(S)
        /\ Len(SubSeq(t, 1, Len(s))) = (IF 1 <= Len(s) THEN Len(s)-1+1 ELSE 0)
        /\ \A k \in 1..(Len(s)-1+1) : SubSeq(t, 1, Len(s))[k] = t[1+k-1]
    BY <2>1, SubSeqProperties
  <2> QED
    BY <1>1, <2>2
<1>4. ASSUME NEW u \in Seq(S), NEW v \in Seq(S)
      PROVE  u = v <=> Len(u) = Len(v) /\ \A k \in 1..Len(u) : u[k] = v[k]
  BY SeqEqual
<1>5. CASE Len(s) <= Len(t)
  BY <1>2, <1>3, <1>4, <1>5 DEF IsPrefix
<1> QED
  BY <1>5 DEF IsPrefix

(* Prefixes are ordered.                                                   *)
LEMMA PrefixIsTransitive ==
    ASSUME NEW S, NEW s \in Seq(S), NEW t \in Seq(S), NEW u \in Seq(S),
           IsPrefix(s, t), IsPrefix(t, u)
    PROVE  IsPrefix(s, u)
  BY PrefixMeans, LenProperties

(* A log that is appended to keeps its prefixes.                           *)
LEMMA PrefixOfLonger ==
    ASSUME NEW S, NEW s \in Seq(S), NEW t \in Seq(S), NEW u \in Seq(S), IsPrefix(s, t)
    PROVE  IsPrefix(s, t \o u)
<1>1. /\ t \o u \in Seq(S) /\ Len(t \o u) = Len(t) + Len(u)
      /\ \A k \in 1..(Len(t) + Len(u)) : (t \o u)[k] = IF k <= Len(t) THEN t[k] ELSE u[k - Len(t)]
  BY ConcatProperties
<1>2. Len(s) \in Nat /\ Len(t) \in Nat /\ Len(u) \in Nat
  BY LenProperties
<1>3. Len(s) <= Len(t) /\ \A k \in 1..Len(s) : s[k] = t[k]
  BY PrefixMeans
<1>4. Len(s) <= Len(t \o u) /\ \A k \in 1..Len(s) : s[k] = (t \o u)[k]
  BY <1>1, <1>2, <1>3
<1> QED
  BY <1>1, <1>4, PrefixMeans

(* What is shown, and what the log holds beyond it, is the log.            *)
LEMMA PrefixAndRest ==
    ASSUME NEW S, NEW s \in Seq(S), NEW t \in Seq(S), IsPrefix(s, t)
    PROVE  /\ s \o SubSeq(t, Len(s) + 1, Len(t)) = t
           /\ SubSeq(t, Len(s) + 1, Len(t)) = <<>> => Len(s) = Len(t)
<1> DEFINE rest == SubSeq(t, Len(s) + 1, Len(t))
<1>1. Len(s) \in Nat /\ Len(t) \in Nat /\ Len(s) <= Len(t)
      /\ \A k \in 1..Len(s) : s[k] = t[k]
  BY LenProperties, PrefixMeans
<1>2. SubSeq(t, 1, Len(s)) = s
  BY SubSeqFull DEF IsPrefix
<1>3. SubSeq(t, 1, Len(s)) \o rest = SubSeq(t, 1, Len(t))
  <2>1. 1 \in 1..Len(t)+1 /\ Len(s) \in 1-1..Len(t) /\ Len(t) \in Len(s)..Len(t)
    BY <1>1
  <2> QED
    BY <2>1, ConcatAdjacentSubSeq
<1>4. s \o rest = t
  BY <1>2, <1>3, SubSeqFull
<1>5. rest = <<>> => Len(s) = Len(t)
  <2> HIDE DEF rest
  <2>1. s \o <<>> = s
    BY ConcatEmptySeq
  <2> QED
    BY <1>4, <2>1
<1> QED
  BY <1>4, <1>5

(* A sequence, and the empty one, are prefixes.                            *)
LEMMA PrefixOfItself ==
    ASSUME NEW S, NEW s \in Seq(S)
    PROVE  IsPrefix(s, s) /\ IsPrefix(<<>>, s)
<1>1. <<>> \in Seq(S) /\ Len(<<>>) = 0 /\ Len(s) \in Nat
  BY EmptySeq, LenProperties
<1>2. Len(s) <= Len(s) /\ Len(<<>>) <= Len(s) /\ \A k \in 1..Len(<<>>) : <<>>[k] = s[k]
  BY <1>1
<1> QED
  BY <1>1, <1>2, PrefixMeans

(* A selection of a sequence is one of every longer one, and reaches as far as one likes.   *)
LEMMA SelectionOfLonger ==
    ASSUME NEW S, NEW s \in Seq(S), NEW t \in Seq(S), NEW u \in Seq(S), IsPrefix(t, u),
           NEW n \in Nat, NEW m \in Nat, n <= m, m <= Len(t), Selects(s, t, n)
    PROVE  Selects(s, u, m)
<1>1. Len(s) \in Nat /\ Len(t) \in Nat /\ \A k \in 1..Len(t) : t[k] = u[k]
  BY LenProperties, PrefixMeans
<1>2. PICK at \in [1..Len(s) -> 1..n] : /\ \A k \in 1..Len(s) : s[k] = t[at[k]]
                                       /\ \A j, k \in 1..Len(s) : j < k => at[j] < at[k]
  BY DEF Selects
<1>3. at \in [1..Len(s) -> 1..m]
  BY <1>1
<1>4. ASSUME NEW k \in 1..Len(s)
      PROVE  s[k] = u[at[k]]
  <2>1. at[k] \in 1..n /\ at[k] \in 1..Len(t)
    BY <1>1, <1>2
  <2> QED
    BY <1>1, <1>2, <2>1
<1> QED
  BY <1>2, <1>3, <1>4 DEF Selects

(* What was selected up to a position, and all that follows up to a later one.            *)
LEMMA SelectionAndRest ==
    ASSUME NEW S, NEW s \in Seq(S), NEW t \in Seq(S), NEW u \in Seq(S), IsPrefix(u, t),
           NEW n \in Nat, n <= Len(u), Selects(s, t, n)
    PROVE  Selects(s \o SubSeq(u, n + 1, Len(u)), t, Len(u))
<1> DEFINE rest == SubSeq(u, n + 1, Len(u))
<1>1. /\ Len(s) \in Nat /\ Len(t) \in Nat /\ Len(u) \in Nat /\ Len(u) <= Len(t)
      /\ \A k \in 1..Len(u) : u[k] = t[k] /\ u[k] \in S
  BY LenProperties, PrefixMeans, ElementOfSeq
<1>2. rest \in Seq(S) /\ Len(rest) = Len(u) - n /\ \A k \in 1..Len(rest) : rest[k] = t[n + k]
  <2>1. n + 1 \in Int /\ Len(u) \in Int /\ \A k \in (n + 1)..Len(u) : u[k] \in S
    BY <1>1
  <2>2. /\ rest \in Seq(S) /\ Len(rest) = (IF n + 1 <= Len(u) THEN Len(u) - (n + 1) + 1 ELSE 0)
        /\ \A k \in 1..(Len(u) - (n + 1) + 1) : rest[k] = u[(n + 1) + k - 1]
    BY <2>1, SubSeqProperties
  <2> HIDE DEF rest
  <2>3. Len(rest) = Len(u) - n
    BY <1>1, <2>2
  <2>4. ASSUME NEW k \in 1..Len(rest) PROVE rest[k] = t[n + k]
    <3>1. rest[k] = u[(n + 1) + k - 1] /\ (n + 1) + k - 1 = n + k /\ n + k \in 1..Len(u)
      BY <1>1, <2>2, <2>3
    <3> QED
      BY <1>1, <3>1
  <2> QED
    BY <2>2, <2>3, <2>4
<1> HIDE DEF rest
<1>3. /\ Len(s \o rest) = Len(s) + Len(rest)
      /\ \A k \in 1..Len(s) + Len(rest) : (s \o rest)[k] = IF k <= Len(s) THEN s[k] ELSE rest[k - Len(s)]
  BY <1>2, ConcatProperties
<1>4. PICK at \in [1..Len(s) -> 1..n] : /\ \A k \in 1..Len(s) : s[k] = t[at[k]]
                                       /\ \A j, k \in 1..Len(s) : j < k => at[j] < at[k]
  BY DEF Selects
<1> DEFINE all == [k \in 1..Len(s \o rest) |-> IF k <= Len(s) THEN at[k] ELSE n + (k - Len(s))]
<1>5. ASSUME NEW k \in 1..Len(s \o rest)
      PROVE  all[k] \in 1..Len(u) /\ (s \o rest)[k] = t[all[k]]
  <2>1. CASE k <= Len(s)
    <3>1. k \in 1..Len(s) /\ all[k] = at[k] /\ at[k] \in 1..n
      BY <1>1, <2>1
    <3> HIDE DEF all
    <3> QED
      BY <1>1, <1>2, <1>3, <1>4, <2>1, <3>1
  <2>2. CASE k > Len(s)
    <3>1. k - Len(s) \in 1..Len(rest) /\ all[k] = n + (k - Len(s))
      BY <1>1, <1>2, <1>3, <2>2
    <3> HIDE DEF all
    <3>2. (s \o rest)[k] = rest[k - Len(s)]
      BY <1>1, <1>2, <1>3, <2>2
    <3>3. rest[k - Len(s)] = t[n + (k - Len(s))]
      BY <1>2, <3>1
    <3> QED
      BY <1>1, <1>2, <3>1, <3>2, <3>3
  <2> QED
    BY <1>1, <2>1, <2>2
<1>6. ASSUME NEW j \in 1..Len(s \o rest), NEW k \in 1..Len(s \o rest), j < k
      PROVE  all[j] < all[k]
  <2>1. CASE k <= Len(s)
    <3>1. j \in 1..Len(s) /\ k \in 1..Len(s) /\ all[j] = at[j] /\ all[k] = at[k]
      BY <1>1, <1>6, <2>1
    <3> HIDE DEF all
    <3> QED
      BY <1>4, <1>6, <3>1
  <2>2. CASE j <= Len(s) /\ k > Len(s)
    <3>1. j \in 1..Len(s) /\ all[j] = at[j] /\ at[j] \in 1..n /\ all[k] = n + (k - Len(s))
      BY <1>1, <2>2
    <3> HIDE DEF all
    <3> QED
      BY <1>1, <2>2, <3>1
  <2>3. CASE j > Len(s)
    <3>1. all[j] = n + (j - Len(s)) /\ all[k] = n + (k - Len(s))
      BY <1>1, <1>6, <2>3
    <3> HIDE DEF all
    <3> QED
      BY <1>1, <1>6, <3>1
  <2> QED
    BY <1>1, <2>1, <2>2, <2>3
<1>7. all \in [1..Len(s \o rest) -> 1..Len(u)]
  BY <1>5
<1> HIDE DEF all
<1>8. Selects(s \o rest, t, Len(u))
  BY <1>5, <1>6, <1>7 DEF Selects
<1> QED
  BY <1>8 DEF rest

(* A prefix selects all there is up to its end.                            *)
LEMMA PrefixIsASelection ==
    ASSUME NEW S, NEW u \in Seq(S), NEW t \in Seq(S), IsPrefix(u, t)
    PROVE  Selects(u, t, Len(u))
<1>1. Len(u) \in Nat /\ \A k \in 1..Len(u) : u[k] = t[k]
  BY LenProperties, PrefixMeans
<1> DEFINE at == [k \in 1..Len(u) |-> k]
<1>2. at \in [1..Len(u) -> 1..Len(u)] /\ \A k \in 1..Len(u) : at[k] = k
  OBVIOUS
<1> HIDE DEF at
<1> QED
  BY <1>1, <1>2 DEF Selects

(* The greatest of a few numbers.                                          *)
LEMMA MaxOfTwo ==
    ASSUME NEW a \in Nat, NEW b \in Nat
    PROVE  Max({a, b}) = IF a >= b THEN a ELSE b
<1> DEFINE m == IF a >= b THEN a ELSE b
<1>1. m \in {a, b} /\ \A y \in {a, b} : m >= y
  OBVIOUS
<1>2. \A n \in {a, b} : (\A y \in {a, b} : n >= y) => n = m
  OBVIOUS
<1> HIDE DEF m
<1> QED
  BY <1>1, <1>2 DEF Max, m

(* The greatest of three.                                                  *)
LEMMA MaxOfThree ==
    ASSUME NEW a \in Nat, NEW b \in Nat, NEW c \in Nat
    PROVE  /\ Max({a, b, c}) \in {a, b, c}
           /\ \A y \in {a, b, c} : Max({a, b, c}) >= y
<1>1. \E n \in {a, b, c} : \A y \in {a, b, c} : n >= y
  OBVIOUS
<1> QED
  BY <1>1 DEF Max

-----------------------------------------------------------------------------
(* Types                                                                   *)

Request == [kind : {"register", "events", "snapshot", "delete"}, events : Seq(Events),
            status : {"ready", "completed"}, checked : BOOLEAN]

View == [view : {"none", "open"}, durable : BOOLEAN, shown : Seq(Events), count : Nat,
         status : {"ready", "running", "completed"}]

(* The requests a client sends are requests.                               *)
LEMMA RequestsAreTyped ==
    /\ Register \in Request /\ Delete_ \in Request
    /\ \A es \in Seq(Events) : Append_(es) \in Request
    /\ \A s \in View : Snapshot(s) \in Request
<1>1. <<>> \in Seq(Events)
  BY EmptySeq
<1> QED
  BY <1>1 DEF Request, View, Register, Delete_, Append_, Snapshot

(* What a flush and a persist send are requests.                           *)
LEMMA SendsAreTyped ==
    ASSUME NEW cl \in ClientState
    PROVE  Batch(cl.queue) \in Seq(Request) /\ PersistSends(cl) \in Seq(Request)
<1>1. cl.queue \in Seq(Events) /\ cl.s \in View
  BY DEF ClientState, View
<1>2. \A r \in Request : <<r>> \in Seq(Request)
  OBVIOUS
<1>3. <<>> \in Seq(Request)
  OBVIOUS
<1>4. Batch(cl.queue) \in Seq(Request)
  BY <1>1, <1>2, <1>3, RequestsAreTyped DEF Batch
<1>5. Batch(cl.queue) \o <<Snapshot(cl.s)>> \in Seq(Request)
  BY <1>1, <1>2, <1>4, RequestsAreTyped, ConcatProperties
<1> QED
  BY <1>3, <1>4, <1>5 DEF PersistSends

(* A client that just loaded.                                              *)
LEMMA NewClientIsTyped == NewClient \in ClientState /\ NoView \in View /\ NoDisk \in Fetched
<1>1. <<>> \in Seq(Events)
  BY EmptySeq
<1>2. NoView \in View
  BY <1>1 DEF NoView, View
<1>3. NoDisk \in Fetched
  BY <1>1 DEF NoDisk, NoSnap, Fetched
<1> QED
  BY <1>1, <1>2, <1>3 DEF NewClient, ClientState, View, NoView, Idle, NoCursor

(* applyStreamEvents keeps a client a client, and touches its trace only.   *)
LEMMA AppliedProperties ==
    ASSUME NEW cl \in ClientState, NEW es \in Seq(Events)
    PROVE  LET ap == Applied(cl, es)
           IN  /\ ap \in ClientState
               /\ ap.sync = cl.sync /\ ap.batch = cl.batch /\ ap.cursor = cl.cursor
               /\ ap.s.view = cl.s.view /\ ap.s.durable = cl.s.durable
               /\ ap.s.shown = IF cl.s.view = "none" THEN cl.s.shown ELSE cl.s.shown \o es
<1> DEFINE ap == Applied(cl, es)
<1>1. CASE cl.s.view = "none"
  BY <1>1 DEF Applied
<1>2. CASE cl.s.view # "none" /\ es = <<>>
  <2>1. cl.s.shown \o <<>> = cl.s.shown
    BY ConcatEmptySeq DEF ClientState
  <2> QED
    BY <1>2, <2>1 DEF Applied
<1>3. CASE cl.s.view # "none" /\ es # <<>>
  <2> DEFINE shown == cl.s.shown \o es
             queue == IF cl.s.durable THEN cl.queue \o es ELSE cl.queue
             count == cl.s.count + Len(es)
             status == IF cl.s.status = "ready" THEN "running" ELSE cl.s.status
  <2>1. shown \in Seq(Events) /\ queue \in Seq(Events) /\ count \in Nat
    BY ConcatProperties, LenProperties DEF ClientState
  <2>2. status \in {"ready", "running", "completed"} /\ (cl.timer \/ cl.s.durable) \in BOOLEAN
    BY DEF ClientState
  <2>3. ap = [cl EXCEPT !.s = [cl.s EXCEPT !.shown = shown, !.count = count, !.status = status],
                        !.queue = queue, !.timer = cl.timer \/ cl.s.durable]
    BY <1>3 DEF Applied, ClientState
  <2> HIDE DEF shown, queue, count, status, ap
  <2>4. cl.s \in View
    BY DEF ClientState, View
  <2>5. [cl.s EXCEPT !.shown = shown, !.count = count, !.status = status] \in View
    BY <2>1, <2>2, <2>4 DEF View
  <2>6. ap \in ClientState
    BY <2>1, <2>2, <2>3, <2>5 DEF ClientState, View
  <2>7. /\ ap.sync = cl.sync /\ ap.batch = cl.batch /\ ap.cursor = cl.cursor
        /\ ap.s.view = cl.s.view /\ ap.s.durable = cl.s.durable /\ ap.s.shown = shown
    BY <2>3, <2>4 DEF ClientState, View
  <2> QED
    BY <1>3, <2>6, <2>7 DEF shown, ap
<1> QED
  BY <1>1, <1>2, <1>3

(* persistSessionNow and a new sync record keep a client a client.          *)
LEMMA ClientFieldsAreTyped ==
    ASSUME NEW cl \in ClientState
    PROVE  /\ Persisted(cl) \in ClientState
           /\ \A st \in {"ready", "running", "completed"} : [cl EXCEPT !.s.status = st] \in ClientState
           /\ [cl EXCEPT !.batch = <<>>] \in ClientState
           /\ \A e \in Events : [cl EXCEPT !.batch = Append(@, e)] \in ClientState
           /\ \A n \in Nat : [cl EXCEPT !.cursor = n] \in ClientState
           /\ [cl EXCEPT !.sync = Idle] \in ClientState
           /\ [cl EXCEPT !.s = NoView] \in ClientState
<1>1. <<>> \in Seq(Events) /\ \A q \in Seq(Events) : \A e \in Events : Append(q, e) \in Seq(Events)
  BY EmptySeq, AppendProperties
<1>2. Idle = NewClient.sync /\ Idle = [at |-> "idle", live |-> FALSE, had |-> FALSE, need |-> FALSE,
                                       again |-> FALSE, got |-> NoDisk]
  BY DEF NewClient, Idle
<1>3. NoView \in View /\ NoDisk \in Fetched
  BY NewClientIsTyped
<1>4. Persisted(cl) \in ClientState /\ [cl EXCEPT !.batch = <<>>] \in ClientState
  BY <1>1 DEF Persisted, ClientState
<1>5. \A st \in {"ready", "running", "completed"} : [cl EXCEPT !.s.status = st] \in ClientState
  BY DEF ClientState
<1>6. \A e \in Events : [cl EXCEPT !.batch = Append(@, e)] \in ClientState
  BY <1>1 DEF ClientState
<1>7. \A n \in Nat : [cl EXCEPT !.cursor = n] \in ClientState
  BY DEF ClientState
<1>8. [cl EXCEPT !.sync = Idle] \in ClientState
  <2>1. Idle \in [at : {"idle", "listed", "asked", "answered"}, live : BOOLEAN, had : BOOLEAN,
                  need : BOOLEAN, again : BOOLEAN, got : Fetched]
    BY <1>2, <1>3
  <2> QED
    BY <2>1 DEF ClientState
<1>9. [cl EXCEPT !.s = NoView] \in ClientState
  BY <1>3 DEF ClientState, View
<1> QED
  BY <1>4, <1>5, <1>6, <1>7, <1>8, <1>9

(* Where a pull starts, what it adds and where it ends.                     *)
LEMMA PullIsTyped ==
    ASSUME NEW cl \in ClientState
    PROVE  /\ From(cl) \in Nat /\ Slice(cl) \in Seq(Events) /\ To(cl) \in Nat
           /\ To(cl) = IF Slice(cl) # <<>> THEN Len(cl.sync.got.log)
                       ELSE Max({From(cl), Len(cl.sync.got.log), cl.sync.got.count})
<1> DEFINE log == cl.sync.got.log
<1>1. log \in Seq(Events) /\ Len(log) \in Nat /\ cl.sync.got.count \in Nat /\ cl.cursor \in Nat \cup {-1}
  BY LenProperties DEF ClientState, Fetched, NoCursor
<1>2. From(cl) \in Nat
  BY <1>1 DEF From, NoCursor
<1>3. Slice(cl) \in Seq(Events)
  <2>1. From(cl) + 1 \in Int /\ Len(log) \in Int /\ \A k \in (From(cl) + 1)..Len(log) : log[k] \in Events
    BY <1>1, <1>2, ElementOfSeq
  <2> QED
    BY <1>1, <2>1, SubSeqProperties DEF Slice
<1>4. Max({From(cl), Len(log), cl.sync.got.count}) \in {From(cl), Len(log), cl.sync.got.count}
  BY <1>1, <1>2, MaxOfThree
<1> QED
  BY <1>1, <1>2, <1>3, <1>4 DEF To

(* A session that a poll brings into the store, and one that it extends.    *)
LEMMA JoinedIsTyped ==
    ASSUME NEW cl \in ClientState
    PROVE  /\ Joined(cl) \in ClientState
           /\ Joined(cl).sync = cl.sync /\ Joined(cl).batch = cl.batch
           /\ Joined(cl).s.view = "open"
           /\ Joined(cl).s.durable = cl.sync.got.snap.any
           /\ ~cl.sync.got.snap.any => Joined(cl).s.shown = cl.sync.got.log
           /\ ~cl.sync.got.snap.any => Joined(cl).cursor = Len(cl.sync.got.log)
<1> DEFINE got == cl.sync.got
<1>1. /\ got.log \in Seq(Events) /\ got.count \in Nat /\ got.snap.any \in BOOLEAN
      /\ got.snap.shown \in Seq(Events) /\ Len(got.log) \in Nat
  BY LenProperties DEF ClientState, Fetched
<1>2. CASE got.snap.any
  BY <1>1, <1>2 DEF Joined, ClientState
<1>3. CASE ~got.snap.any
  <2> DEFINE new == [cl EXCEPT !.s = [NoView EXCEPT !.view = "open"]]
             ap == Applied(new, got.log)
  <2>1. [NoView EXCEPT !.view = "open"] \in View
    BY NewClientIsTyped DEF View
  <2>2. new \in ClientState /\ new.s = [NoView EXCEPT !.view = "open"] /\ new.sync = cl.sync /\ new.batch = cl.batch
    BY <2>1 DEF ClientState, View
  <2>3. new.s.view = "open" /\ new.s.durable = FALSE /\ new.s.shown = <<>>
    BY <2>2 DEF NoView
  <2>4. /\ ap \in ClientState /\ ap.sync = new.sync /\ ap.batch = new.batch
        /\ ap.s.view = new.s.view /\ ap.s.durable = new.s.durable
        /\ ap.s.shown = new.s.shown \o got.log
    BY <1>1, <2>2, <2>3, AppliedProperties
  <2>5. <<>> \o got.log = got.log
    BY <1>1, ConcatEmptySeq
  <2>6. Joined(cl) = [ap EXCEPT !.cursor = Len(got.log)]
    BY <1>3 DEF Joined
  <2> HIDE DEF ap, new
  <2>7. [ap EXCEPT !.cursor = Len(got.log)] \in ClientState
    BY <1>1, <2>4, ClientFieldsAreTyped
  <2>8. /\ Joined(cl).sync = ap.sync /\ Joined(cl).batch = ap.batch /\ Joined(cl).s = ap.s
        /\ Joined(cl).cursor = Len(got.log)
    BY <2>4, <2>6 DEF ClientState
  <2>9. Joined(cl) \in ClientState
    BY <2>6, <2>7
  <2>10. Joined(cl).s.durable = FALSE /\ Joined(cl).s.shown = got.log /\ Joined(cl).s.view = "open"
    BY <2>3, <2>4, <2>5, <2>8
  <2>11. Joined(cl).sync = cl.sync /\ Joined(cl).batch = cl.batch
    BY <2>2, <2>4, <2>8
  <2> HIDE DEF got
  <2>12. FALSE = got.snap.any
    BY <1>1, <1>3
  <2> QED
    BY <2>8, <2>9, <2>10, <2>11, <2>12 DEF got
<1> QED
  BY <1>1, <1>2, <1>3

-----------------------------------------------------------------------------
(* Type correctness                                                        *)

(* The events of a sequence are events.                                     *)
LEMMA EventsOfASequence ==
    /\ \A es \in Seq(Events) : ToSet(es) \subseteq Events
    /\ \A r \in Request : Dropped(r) \subseteq Events
<1>1. ASSUME NEW es \in Seq(Events)
      PROVE  ToSet(es) \subseteq Events
  <2>1. DOMAIN es = 1..Len(es) /\ \A k \in 1..Len(es) : es[k] \in Events
    BY LenProperties, ElementOfSeq
  <2> QED
    BY <2>1 DEF ToSet
<1> QED
  BY <1>1 DEF Dropped, Request

(* Every disturbance leaves the bounds bounds.                              *)
LEMMA DisturbIsTyped ==
    ASSUME TypeOK, NEW kind, Disturb(kind)
    PROVE  left' \in [fault : 0..MaxFaults, poll : 0..LivePolls, happened : SUBSET Kinds]
           /\ left'.happened = left.happened \cup {kind}
<1>1. left.fault \in 0..MaxFaults /\ left.poll \in 0..LivePolls /\ left.happened \subseteq Kinds
  BY DEF TypeOK
<1>2. left.fault - 1 \in 0..MaxFaults /\ left.happened \cup {kind} \subseteq Kinds
  BY <1>1, SessionLogAssumption DEF Disturb
<1>3. left' = [fault |-> left.fault - 1, poll |-> left.poll, happened |-> left.happened \cup {kind}]
  BY DEF TypeOK, Disturb
<1> QED
  BY <1>1, <1>2, <1>3

(* A step that changes one client, to a client, and nothing else of the clients. *)
LEMMA OneClientChanges ==
    ASSUME TypeOK, NEW c \in Clients, NEW v \in ClientState, client' = [client EXCEPT ![c] = v]
    PROVE  client' \in [Clients -> ClientState]
  BY DEF TypeOK

(* Steps of the owner.                                                      *)
LEMMA OwnerStepsAreTyped ==
    ASSUME TypeOK, OpenWorkspace \/ Launch \/ Emit \/ FlushStream \/ ProcessExits
                   \/ HarnessSettles \/ HarnessPersists
    PROVE  TypeOK'
<1> DEFINE o == client[Owner]
           flushed == [Applied(o, o.batch) EXCEPT !.batch = <<>>]
<1>1. Owner \in Clients /\ o \in ClientState /\ o.batch \in Seq(Events) /\ wire \in Seq(Request)
  BY SessionLogAssumption DEF TypeOK, ClientState, Request
<1>2. flushed \in ClientState
  BY <1>1, AppliedProperties, ClientFieldsAreTyped
<1>3. emitted < MaxEvents => emitted + 1 \in Events /\ emitted + 1 \in 0..MaxEvents
  BY SessionLogAssumption DEF TypeOK, Events
<1>4. CASE OpenWorkspace
  <2> DEFINE fresh == [NewClient EXCEPT !.s = [view |-> "open", durable |-> TRUE, shown |-> <<>>,
                                               count |-> 0, status |-> "ready"],
                                        !.sync = client[Owner].sync]
             shows == Applied(fresh, <<emitted + 1>>)
  <2>1. fresh \in ClientState
    BY <1>1, EmptySeq, NewClientIsTyped DEF ClientState
  <2>2. shows \in ClientState
    <3>1. <<emitted + 1>> \in Seq(Events)
      BY <1>3, <1>4 DEF OpenWorkspace
    <3> HIDE DEF fresh
    <3> QED
      BY <2>1, <3>1, AppliedProperties
  <2>3. Persisted(shows) \in ClientState
    BY <2>2, ClientFieldsAreTyped
  <2>4. PersistSends(shows) \in Seq(Request) /\ <<Register>> \in Seq(Request)
    BY <2>2, SendsAreTyped, RequestsAreTyped
  <2>5. wire \o <<Register>> \o PersistSends(shows) \in Seq(Request)
    BY <1>1, <2>4, ConcatProperties
  <2>6. client' = [client EXCEPT ![Owner] = Persisted(shows)] /\ wire' = wire \o <<Register>> \o PersistSends(shows)
    BY <1>4 DEF OpenWorkspace
  <2> HIDE DEF shows, fresh
  <2>7. client' \in [Clients -> ClientState]
    BY <1>1, <2>3, <2>6 DEF TypeOK
  <2>8. wire' \in Seq(Request)
    BY <2>5, <2>6
  <2> QED
    BY <1>3, <1>4, <2>7, <2>8 DEF OpenWorkspace, TypeOK, Request
<1>5. CASE Launch
  <2>1. [o EXCEPT !.s.status = "running"] \in ClientState
    BY <1>1, ClientFieldsAreTyped
  <2>2. client' = [client EXCEPT ![Owner] = [o EXCEPT !.s.status = "running"]]
    BY <1>1, <1>5 DEF Launch, TypeOK
  <2>3. client' \in [Clients -> ClientState]
    BY <1>1, <2>1, <2>2, OneClientChanges
  <2> QED
    BY <1>5, <2>3 DEF Launch, TypeOK
<1>6. CASE Emit
  <2>1. [o EXCEPT !.batch = Append(@, emitted + 1)] \in ClientState
    BY <1>1, <1>3, <1>6, ClientFieldsAreTyped DEF Emit
  <2>2. client' = [client EXCEPT ![Owner] = [o EXCEPT !.batch = Append(@, emitted + 1)]]
    BY <1>1, <1>6 DEF Emit, TypeOK
  <2>3. client' \in [Clients -> ClientState]
    BY <1>1, <2>1, <2>2, OneClientChanges
  <2> QED
    BY <1>3, <1>6, <2>3 DEF Emit, TypeOK
<1>7. CASE FlushStream
  <2>1. client' = [client EXCEPT ![Owner] = flushed]
    BY <1>1, <1>7 DEF FlushStream, TypeOK
  <2>2. client' \in [Clients -> ClientState]
    BY <1>1, <1>2, <2>1, OneClientChanges
  <2>3. lost' \subseteq Events
    BY <1>1, <1>7, EventsOfASequence DEF FlushStream, TypeOK
  <2> QED
    BY <1>7, <2>2, <2>3 DEF FlushStream, TypeOK
<1>8. CASE ProcessExits
  BY <1>8 DEF ProcessExits, TypeOK
<1>9. CASE HarnessSettles
  <2> DEFINE v == IF flushed.s.view = "none" THEN flushed ELSE [flushed EXCEPT !.s.status = "completed"]
  <2>1. v \in ClientState
    BY <1>2, ClientFieldsAreTyped
  <2>2. client' = [client EXCEPT ![Owner] = v]
    BY <1>1, <1>9 DEF HarnessSettles, TypeOK
  <2>3. client' \in [Clients -> ClientState]
    BY <1>1, <2>1, <2>2, OneClientChanges
  <2>4. lost' \subseteq Events
    BY <1>1, <1>9, EventsOfASequence DEF HarnessSettles, TypeOK
  <2> QED
    BY <1>9, <2>3, <2>4 DEF HarnessSettles, TypeOK
<1>10. CASE HarnessPersists
  <2> DEFINE v == IF PersistSends(o) = <<>> THEN o ELSE Persisted(o)
  <2>1. v \in ClientState
    BY <1>1, ClientFieldsAreTyped
  <2>2. client' = [client EXCEPT ![Owner] = v]
    BY <1>1, <1>10 DEF HarnessPersists, TypeOK
  <2>3. client' \in [Clients -> ClientState]
    BY <1>1, <2>1, <2>2, OneClientChanges
  <2>4. wire' \in Seq(Request)
    BY <1>1, <1>10, SendsAreTyped, ConcatProperties DEF HarnessPersists
  <2> QED
    BY <1>10, <2>3, <2>4 DEF HarnessPersists, TypeOK, Request
<1> QED
  BY <1>4, <1>5, <1>6, <1>7, <1>8, <1>9, <1>10

(* Steps of the host.                                                       *)
LEMMA HostStepsAreTyped ==
    ASSUME TypeOK, NEW i \in Sent, Handle(i) \/ HandleAppend(i, FALSE) \/ Lose(i)
    PROVE  TypeOK'
<1> DEFINE r == wire[i]
<1>1. /\ wire \in Seq(Request) /\ i \in 1..Len(wire) /\ r \in Request /\ disk \in Fetched
      /\ RemoveAt(wire, i) \in Seq(Request)
  BY RemoveAtProperties, ElementOfSeq DEF TypeOK, Request, Sent
<1>2. r.events \in Seq(Events) /\ r.status \in {"ready", "completed"} /\ Dropped(r) \subseteq Events
  BY <1>1, EventsOfASequence DEF Request
<1>3. NoDisk \in Fetched /\ [NoDisk EXCEPT !.exists = TRUE] \in Fetched
  BY NewClientIsTyped DEF Fetched
<1>4. CASE HandleRegister(i)
  <2>1. disk' \in Fetched
    BY <1>1, <1>2, <1>3, <1>4 DEF HandleRegister, Fetched
  <2> QED
    BY <1>1, <1>4, <2>1 DEF HandleRegister, TypeOK, Request
<1>5. CASE HandleDelete(i)
  BY <1>1, <1>3, <1>5 DEF HandleDelete, TypeOK, Request
<1>6. CASE HandlerChecks(i)
  <2>1. [r EXCEPT !.checked = TRUE] \in Request
    BY <1>1 DEF Request
  <2>2. [wire EXCEPT ![i] = [r EXCEPT !.checked = TRUE]] \in Seq(Request)
    BY <1>1, <2>1, ExceptSeq
  <2>3. wire' \in Seq(Request)
    BY <1>1, <1>6, <2>2 DEF HandlerChecks
  <2>4. lost' \subseteq Events
    BY <1>2, <1>6 DEF HandlerChecks, TypeOK
  <2> QED
    BY <1>6, <2>3, <2>4 DEF HandlerChecks, TypeOK, Request
<1>7. ASSUME NEW counts \in BOOLEAN, HandleAppend(i, counts)
      PROVE  TypeOK'
  <2>1. disk.log \o r.events \in Seq(Events) /\ Len(r.events) \in Nat /\ disk.count \in Nat
    BY <1>1, <1>2, ConcatProperties, LenProperties DEF Fetched
  <2>2. disk' \in Fetched
    <3> DEFINE count == IF counts THEN disk.count + Len(r.events) ELSE disk.count
    <3>1. count \in Nat
      BY <2>1
    <3>2. [disk EXCEPT !.log = disk.log \o r.events, !.count = count] \in Fetched
      BY <1>1, <2>1, <3>1 DEF Fetched
    <3> QED
      BY <1>1, <1>7, <3>2 DEF HandleAppend, Appended
  <2>3. lost' \subseteq Events
    BY <1>2, <1>7 DEF HandleAppend, TypeOK
  <2>4. left' \in [fault : 0..MaxFaults, poll : 0..LivePolls, happened : SUBSET Kinds]
    BY <1>7, DisturbIsTyped DEF HandleAppend, TypeOK
  <2> QED
    BY <1>1, <1>7, <2>2, <2>3, <2>4 DEF HandleAppend, TypeOK, Request
<1>8. CASE HandleSnapshot(i)
  <2>1. disk' \in Fetched
    BY <1>1, <1>2, <1>8 DEF HandleSnapshot, Snapshotted, Fetched
  <2> QED
    BY <1>1, <1>8, <2>1 DEF HandleSnapshot, TypeOK, Request
<1>9. CASE Lose(i)
  <2>1. left' \in [fault : 0..MaxFaults, poll : 0..LivePolls, happened : SUBSET Kinds]
    BY <1>9, DisturbIsTyped DEF Lose
  <2>2. lost' \subseteq Events
    BY <1>2, <1>9 DEF Lose, TypeOK
  <2> QED
    BY <1>1, <1>9, <2>1, <2>2 DEF Lose, TypeOK, Request
<1> QED
  BY <1>4, <1>5, <1>6, <1>7, <1>8, <1>9 DEF Handle

(* Sync == the record of one poll; its type, and that a client with another poll is a client. *)
Sync == [at : {"idle", "listed", "asked", "answered"}, live : BOOLEAN, had : BOOLEAN,
         need : BOOLEAN, again : BOOLEAN, got : Fetched]

(* A client with another record of its poll, another cursor or another status is a client. *)
LEMMA SyncIsTyped ==
    ASSUME NEW cl \in ClientState, NEW y \in Sync, NEW n \in Nat \cup {NoCursor},
           NEW st \in {"ready", "running", "completed"}
    PROVE  /\ [cl EXCEPT !.sync = y] \in ClientState
           /\ [cl EXCEPT !.cursor = n, !.sync = y] \in ClientState
           /\ [cl EXCEPT !.sync = y, !.s.status = st] \in ClientState
  BY DEF ClientState, Sync

\* What PollAsks makes of a client, and what PollMerges does.
Cursor(cl) == IF cl.cursor = NoCursor /\ cl.s.view # "none" THEN cl.s.count ELSE cl.cursor
Asking(cl) ==
  [cl.sync EXCEPT !.at = IF cl.sync.live \/ cl.s.view # "none" THEN "asked" ELSE "idle",
                  !.had = cl.s.view # "none",
                  !.need = cl.sync.live \/ cl.s.view = "none" \/ Cursor(cl) \in {0, NoCursor}]
Extended(cl) == [Applied(cl, Slice(cl)) EXCEPT !.cursor = To(cl)]
Pulled(cl)   == IF cl.sync.had THEN Extended(cl) ELSE Joined(cl)

(* Extending a trace by a pull.                                             *)
LEMMA PulledIsTyped ==
    ASSUME NEW cl \in ClientState
    PROVE  /\ Extended(cl) \in ClientState /\ Pulled(cl) \in ClientState
           /\ Extended(cl).s = Applied(cl, Slice(cl)).s
           /\ Extended(cl).batch = cl.batch /\ Pulled(cl).batch = cl.batch
           /\ Extended(cl).cursor = To(cl)
<1> DEFINE ap == Applied(cl, Slice(cl))
<1>1. Slice(cl) \in Seq(Events) /\ To(cl) \in Nat
  BY PullIsTyped
<1>2. ap \in ClientState /\ ap.batch = cl.batch
  BY <1>1, AppliedProperties
<1>3. Extended(cl) = [ap EXCEPT !.cursor = To(cl)]
  BY DEF Extended
<1> HIDE DEF ap
<1>4. Extended(cl) \in ClientState
  BY <1>1, <1>2, <1>3, ClientFieldsAreTyped
<1>5. Extended(cl).s = ap.s /\ Extended(cl).batch = ap.batch /\ Extended(cl).cursor = To(cl)
  BY <1>2, <1>3 DEF ClientState
<1> QED
  BY <1>2, <1>4, <1>5, JoinedIsTyped DEF Pulled, ap

(* What a merge leaves: the pulled client, idle, with a status.             *)
LEMMA MergedClient ==
    ASSUME TypeOK, NEW c \in Clients, PollMerges(c)
    PROVE  \E st \in {"ready", "running", "completed"} :
             client' = [client EXCEPT ![c] = [Pulled(client[c]) EXCEPT !.sync = Idle, !.s.status = st]]
<1> DEFINE cl == client[c]
           local == IF cl.sync.had THEN Pulled(cl).s.status ELSE cl.sync.got.status
           st == IF Pulled(cl).s.view = "none" THEN Pulled(cl).s.status
                 ELSE Resolved(cl.sync.live, local, cl.sync.got.status)
<1>1. cl \in ClientState
  BY DEF TypeOK
<1>2. Pulled(cl) \in ClientState
  BY <1>1, PulledIsTyped
<1>3. st \in {"ready", "running", "completed"}
  BY <1>1, <1>2 DEF ClientState, Fetched, Resolved
<1>4. client' = [client EXCEPT ![c] = [Pulled(cl) EXCEPT !.sync = Idle, !.s.status = st]]
  <2>1. Pulled(cl) = IF cl.sync.had THEN [Applied(cl, Slice(cl)) EXCEPT !.cursor = To(cl)] ELSE Joined(cl)
    BY DEF Pulled, Extended
  <2>2. cl.sync.had => Pulled(cl) = [Applied(cl, Slice(cl)) EXCEPT !.cursor = To(cl)]
    BY <2>1
  <2> HIDE DEF cl
  <2> QED
    BY <1>2, <2>1, <2>2 DEF PollMerges, cl
<1> HIDE DEF st
<1> QED
  BY <1>3, <1>4

(* Steps of a client's window.                                              *)
LEMMA ClientStepsAreTyped ==
    ASSUME TypeOK, NEW c \in Clients,
           \/ TimerFires(c) \/ DeleteSession(c) \/ Reload(c)
           \/ \E listed \in BOOLEAN : PollLists(c, listed)
           \/ Poll(c) \/ PollFails(c)
    PROVE  TypeOK'
<1> DEFINE cl == client[c]
<1>1. /\ cl \in ClientState /\ cl.sync \in Sync /\ wire \in Seq(Request) /\ disk \in Fetched
      /\ cl.queue \in Seq(Events) /\ cl.batch \in Seq(Events) /\ live \in BOOLEAN
  BY DEF TypeOK, ClientState, Request, Sync
<1>2. CASE TimerFires(c)
  <2>1. client' \in [Clients -> ClientState]
    BY <1>1, <1>2, ClientFieldsAreTyped, OneClientChanges DEF TimerFires, TypeOK
  <2>2. wire' \in Seq(Request)
    BY <1>1, <1>2, SendsAreTyped, ConcatProperties DEF TimerFires
  <2> QED
    BY <1>2, <2>1, <2>2 DEF TimerFires, TypeOK, Request
<1>3. CASE DeleteSession(c)
  <2>1. [cl EXCEPT !.s = NoView] \in ClientState
    BY <1>1, ClientFieldsAreTyped
  <2>2. client' = [client EXCEPT ![c] = [cl EXCEPT !.s = NoView]]
    BY <1>3 DEF DeleteSession, TypeOK
  <2>3. client' \in [Clients -> ClientState]
    BY <2>1, <2>2, OneClientChanges
  <2>4. wire' \in Seq(Request)
    BY <1>1, <1>3, RequestsAreTyped, AppendProperties DEF DeleteSession
  <2>5. left' \in [fault : 0..MaxFaults, poll : 0..LivePolls, happened : SUBSET Kinds]
    BY <1>3, DisturbIsTyped DEF DeleteSession
  <2> QED
    BY <1>3, <2>3, <2>4, <2>5 DEF DeleteSession, TypeOK, Request
<1>4. CASE Reload(c)
  <2>1. client' \in [Clients -> ClientState]
    BY <1>4, NewClientIsTyped, OneClientChanges DEF Reload
  <2>2. lost' \subseteq Events
    BY <1>1, <1>4, EventsOfASequence DEF Reload, TypeOK
  <2>3. left' \in [fault : 0..MaxFaults, poll : 0..LivePolls, happened : SUBSET Kinds]
    BY <1>4, DisturbIsTyped DEF Reload
  <2> QED
    BY <1>4, <2>1, <2>2, <2>3 DEF Reload, TypeOK
<1>5. ASSUME NEW listed \in BOOLEAN, PollLists(c, listed)
      PROVE  TypeOK'
  <2> DEFINE y == [Idle EXCEPT !.at = "listed", !.live = listed]
  <2>1. y \in Sync
    BY <1>1, NewClientIsTyped DEF Idle, Sync
  <2>2. client' = [client EXCEPT ![c] = [cl EXCEPT !.sync = y]]
    BY <1>5 DEF PollLists, TypeOK
  <2> HIDE DEF y
  <2>3. client' \in [Clients -> ClientState]
    BY <1>1, <2>1, <2>2, SyncIsTyped, OneClientChanges
  <2>4. left' \in [fault : 0..MaxFaults, poll : 0..LivePolls, happened : SUBSET Kinds]
    <3>1. \/ (live => left.poll > 0) /\ left' = IF live THEN [left EXCEPT !.poll = @ - 1] ELSE left
          \/ Disturb("unlisted")
      BY <1>5 DEF PollLists
    <3>2. CASE Disturb("unlisted")
      BY <3>2, DisturbIsTyped
    <3>3. CASE (live => left.poll > 0) /\ left' = IF live THEN [left EXCEPT !.poll = @ - 1] ELSE left
      <4>1. live => left.poll - 1 \in 0..LivePolls
        BY <3>3, SessionLogAssumption DEF TypeOK
      <4> QED
        BY <3>3, <4>1 DEF TypeOK
    <3> QED
      BY <3>1, <3>2, <3>3
  <2> QED
    BY <1>5, <2>3, <2>4 DEF PollLists, TypeOK
<1>6. CASE PollAsks(c)
  <2>1. Asking(cl) \in Sync /\ Cursor(cl) \in Nat \cup {NoCursor}
    BY <1>1 DEF Asking, Cursor, Sync, ClientState
  <2>2. client' = [client EXCEPT ![c] = [cl EXCEPT !.cursor = Cursor(cl), !.sync = Asking(cl)]]
    BY <1>6 DEF PollAsks, Asking, Cursor, TypeOK
  <2>3. client' \in [Clients -> ClientState]
    BY <1>1, <2>1, <2>2, SyncIsTyped, OneClientChanges
  <2> QED
    BY <1>6, <2>3 DEF PollAsks, TypeOK
<1>7. CASE PollReads(c)
  <2> DEFINE y == [cl.sync EXCEPT !.at = "answered",
                                  !.got = IF cl.sync.need THEN disk ELSE [disk EXCEPT !.log = <<>>]]
  <2>1. [disk EXCEPT !.log = <<>>] \in Fetched
    BY <1>1, EmptySeq DEF Fetched
  <2>2. y \in Sync
    BY <1>1, <2>1 DEF Sync
  <2>3. client' = [client EXCEPT ![c] = [cl EXCEPT !.sync = y]]
    BY <1>1, <1>7 DEF PollReads, TypeOK, ClientState
  <2> HIDE DEF y
  <2>4. client' \in [Clients -> ClientState]
    BY <1>1, <2>2, <2>3, SyncIsTyped, OneClientChanges
  <2> QED
    BY <1>7, <2>4 DEF PollReads, TypeOK
<1>8. CASE PollMerges(c)
  <2>1. PICK st \in {"ready", "running", "completed"} :
             client' = [client EXCEPT ![c] = [Pulled(cl) EXCEPT !.sync = Idle, !.s.status = st]]
    BY <1>8, MergedClient
  <2>2. Pulled(cl) \in ClientState /\ Idle \in Sync
    BY <1>1, PulledIsTyped, NewClientIsTyped DEF Idle, Sync
  <2>3. [Pulled(cl) EXCEPT !.sync = Idle, !.s.status = st] \in ClientState
    BY <2>2, SyncIsTyped
  <2>4. client' \in [Clients -> ClientState]
    BY <2>1, <2>3, OneClientChanges
  <2> QED
    BY <1>8, <2>4 DEF PollMerges, TypeOK
<1>9. CASE PollFails(c)
  <2> DEFINE stale == cl.s.status = "running" /\ ~cl.sync.live
             y == IF stale /\ ~cl.sync.again THEN [cl.sync EXCEPT !.at = "listed", !.again = TRUE] ELSE Idle
             st == IF stale /\ cl.sync.again THEN "ready" ELSE cl.s.status
  <2>1. y \in Sync
    BY <1>1, NewClientIsTyped DEF Idle, Sync
  <2>2. st \in {"ready", "running", "completed"}
    BY <1>1 DEF ClientState
  <2>3. client' = [client EXCEPT ![c] = [cl EXCEPT !.sync = y, !.s.status = st]]
    BY <1>9 DEF PollFails
  <2> HIDE DEF y, st
  <2>4. client' \in [Clients -> ClientState]
    BY <1>1, <2>1, <2>2, <2>3, SyncIsTyped, OneClientChanges
  <2>5. left' \in [fault : 0..MaxFaults, poll : 0..LivePolls, happened : SUBSET Kinds]
    BY <1>9, DisturbIsTyped DEF PollFails, TypeOK
  <2> QED
    BY <1>9, <2>4, <2>5 DEF PollFails, TypeOK
<1> QED
  BY <1>2, <1>3, <1>4, <1>5, <1>6, <1>7, <1>8, <1>9 DEF Poll

(* The first state, and a step that changes nothing.                        *)
LEMMA InitIsTyped == Init => TypeOK
<1>1. <<>> \in Seq(Request) /\ NoDisk \in Fetched /\ NewClient \in ClientState
  BY EmptySeq, NewClientIsTyped
<1>2. [c \in Clients |-> NewClient] \in [Clients -> ClientState]
  BY <1>1
<1>3. SUFFICES ASSUME Init PROVE TypeOK
  OBVIOUS
<1>4. left \in [fault : 0..MaxFaults, poll : 0..LivePolls, happened : SUBSET Kinds]
  BY <1>3, SessionLogAssumption DEF Init
<1>5. emitted \in 0..MaxEvents
  BY <1>3, SessionLogAssumption DEF Init
<1>6. wire \in Seq(Request)
  BY <1>1, <1>3 DEF Init
<1>7. disk \in Fetched /\ client \in [Clients -> ClientState] /\ live \in BOOLEAN /\ lost \subseteq Events
  BY <1>1, <1>2, <1>3 DEF Init
<1>8. run \in {"none", "opened", "running", "settled", "ended"}
  BY <1>3 DEF Init
<1> QED
  BY <1>4, <1>5, <1>6, <1>7, <1>8 DEF TypeOK, Request

(* The directory, the requests, the clients and the bounds keep their types, whatever requests
   cross, are lost, or meet a host that stops between its two writes. *)
THEOREM TypeCorrect == Spec => []TypeOK
<1>1. TypeOK /\ UNCHANGED vars => TypeOK'
  BY DEF TypeOK, vars
<1>2. TypeOK /\ [Next]_vars => TypeOK'
  BY <1>1, OwnerStepsAreTyped, HostStepsAreTyped, ClientStepsAreTyped DEF Next
<1> QED
  BY <1>2, InitIsTyped, PTL DEF Spec

-----------------------------------------------------------------------------
(* The count and the log; deletion                                         *)

(* Only the host's handlers change the directory.                           *)
LEMMA OnlyTheHostWrites ==
    ASSUME Next
    PROVE  \/ UNCHANGED disk
           \/ \E i \in Sent : \/ HandleRegister(i) \/ HandleDelete(i) \/ HandleSnapshot(i)
                              \/ \E counts \in BOOLEAN : HandleAppend(i, counts)
  BY DEF Next, OpenWorkspace, Launch, Emit, FlushStream, ProcessExits, HarnessSettles, HarnessPersists,
         Handle, HandlerChecks, Lose, TimerFires, DeleteSession, Reload, PollLists, Poll, PollAsks,
         PollReads, PollMerges, PollFails

(* What has happened is not forgotten, and only a crash adds a crash.        *)
LEMMA DisturbancesRemain ==
    ASSUME TypeOK, [Next]_vars
    PROVE  left.happened \subseteq left'.happened
  BY DisturbIsTyped
     DEF Next, vars, OpenWorkspace, Launch, Emit, FlushStream, ProcessExits, HarnessSettles,
         HarnessPersists, Handle, HandleRegister, HandleDelete, HandlerChecks, HandleAppend,
         HandleSnapshot, Lose, TimerFires, DeleteSession, Reload, PollLists, Poll, PollAsks,
         PollReads, PollMerges, PollFails, TypeOK

(* The count trails the log from one state to the next.                     *)
LEMMA CountStep ==
    ASSUME TypeOK, CountTrailsLog, [Next]_vars
    PROVE  CountTrailsLog'
<1>1. disk \in Fetched /\ Len(disk.log) \in Nat /\ disk.count \in Nat /\ left.happened \subseteq left'.happened
  BY LenProperties, DisturbancesRemain DEF TypeOK, Fetched
<1>2. CASE UNCHANGED disk
  BY <1>1, <1>2 DEF CountTrailsLog
<1>3. ASSUME NEW i \in Sent, HandleRegister(i) \/ HandleDelete(i) \/ HandleSnapshot(i)
      PROVE  CountTrailsLog'
  <2>1. Len(<<>>) = 0
    BY EmptySeq
  <2>2. \/ disk'.log = disk.log /\ disk'.count = disk.count
        \/ disk'.log = <<>> /\ disk'.count = 0
    <3>1. CASE HandleRegister(i)
      BY <1>1, <3>1 DEF HandleRegister, NoDisk, Fetched
    <3>2. CASE HandleDelete(i)
      BY <3>2 DEF HandleDelete, NoDisk
    <3>3. CASE HandleSnapshot(i)
      BY <1>1, <3>3 DEF HandleSnapshot, Snapshotted, Fetched
    <3> QED
      BY <1>3, <3>1, <3>2, <3>3
  <2> QED
    BY <1>1, <2>1, <2>2 DEF CountTrailsLog
<1>4. ASSUME NEW i \in Sent, NEW counts \in BOOLEAN, HandleAppend(i, counts)
      PROVE  CountTrailsLog'
  <2> DEFINE es == wire[i].events
  <2>1. wire[i] \in Request
    BY ElementOfSeq DEF TypeOK, Request, Sent
  <2>2. /\ es \in Seq(Events) /\ Len(es) \in Nat /\ disk.log \in Seq(Events)
        /\ Len(disk.log \o es) = Len(disk.log) + Len(es)
    BY <1>1, <2>1, LenProperties, ConcatProperties DEF Request, Fetched
  <2>3. disk' = IF disk.exists
                THEN [disk EXCEPT !.log = disk.log \o es,
                                  !.count = IF counts THEN disk.count + Len(es) ELSE disk.count]
                ELSE disk
    BY <1>4 DEF HandleAppend, Appended
  <2>4. CASE counts
    <3>1. \/ disk'.log = disk.log /\ disk'.count = disk.count
          \/ disk'.log = disk.log \o es /\ disk'.count = disk.count + Len(es)
      BY <1>1, <2>3, <2>4 DEF Fetched
    <3>2. \E n \in Nat : Len(disk'.log) = Len(disk.log) + n /\ disk'.count = disk.count + n
      <4>1. Len(disk.log) = Len(disk.log) + 0 /\ disk.count = disk.count + 0
        BY <1>1
      <4> QED
        BY <2>2, <3>1, <4>1
    <3> QED
      BY <1>1, <3>2 DEF CountTrailsLog
  <2>5. CASE ~counts
    <3>1. "crash" \in left'.happened
      BY <1>4, <2>5, DisturbIsTyped DEF HandleAppend
    <3> QED
      BY <1>1, <2>2, <2>3, <2>5, <3>1 DEF CountTrailsLog, Fetched
  <2> QED
    BY <2>4, <2>5
<1> QED
  BY <1>2, <1>3, <1>4, OnlyTheHostWrites DEF vars

(* meta.json never counts an event the log does not hold, and counts every one of them unless
   the host stopped between appendNormalizedEvents' two writes; for any number of clients. *)
THEOREM CountAlwaysTrails == Spec => []CountTrailsLog
<1>1. Init => CountTrailsLog
  BY EmptySeq DEF Init, CountTrailsLog, NoDisk
<1> QED
  BY <1>1, CountStep, TypeCorrect, PTL DEF Spec

(* No batch, snapshot or poll on its way re-creates the directory of a deleted session. *)
THEOREM DeletionLasts == Spec => DeletedStaysDeleted
<1>1. ASSUME TypeOK, [Next]_vars
      PROVE  [~disk.exists /\ disk'.exists => \E i \in Sent : wire[i].kind = "register"]_vars
  <2>1. SUFFICES ASSUME Next, ~disk.exists, disk'.exists, NEW i \in Sent,
                        \/ HandleRegister(i) \/ HandleDelete(i) \/ HandleSnapshot(i)
                        \/ \E counts \in BOOLEAN : HandleAppend(i, counts)
                 PROVE  \E k \in Sent : wire[k].kind = "register"
    BY <1>1, OnlyTheHostWrites
  <2>2. HandleRegister(i)
    BY <2>1 DEF HandleDelete, HandleSnapshot, HandleAppend, Snapshotted, Appended, NoDisk
  <2> QED
    BY <2>2 DEF HandleRegister
<1> QED
  BY <1>1, TypeCorrect, PTL DEF Spec, DeletedStaysDeleted

-----------------------------------------------------------------------------
(* What a follower shows                                                   *)

(* The log is only appended to, as long as nobody deletes the session.      *)
LEMMA LogGrows ==
    ASSUME TypeOK, HostInv, [Next]_vars, "delete" \notin left.happened
    PROVE  IsPrefix(disk.log, disk'.log)
<1>1. disk \in Fetched /\ disk.log \in Seq(Events)
  BY DEF TypeOK, Fetched
<1>2. IsPrefix(disk.log, disk.log)
  BY <1>1, PrefixOfItself
<1>3. ASSUME NEW i \in Sent, HandleRegister(i)
      PROVE  disk'.log = disk.log
  BY <1>1, <1>3 DEF HandleRegister, HostInv, NoDisk, Fetched
<1>4. ASSUME NEW i \in Sent, HandleDelete(i)
      PROVE  FALSE
  BY <1>4 DEF HandleDelete, HostInv
<1>5. ASSUME NEW i \in Sent, HandleSnapshot(i)
      PROVE  disk'.log = disk.log
  BY <1>1, <1>5 DEF HandleSnapshot, Snapshotted, Fetched
<1>6. ASSUME NEW i \in Sent, NEW counts \in BOOLEAN, HandleAppend(i, counts)
      PROVE  IsPrefix(disk.log, disk'.log)
  <2> DEFINE es == wire[i].events
  <2>1. wire[i] \in Request
    BY ElementOfSeq DEF TypeOK, Request, Sent
  <2>2. es \in Seq(Events)
    BY <2>1 DEF Request
  <2>3. disk'.log = disk.log \/ disk'.log = disk.log \o es
    BY <1>1, <1>6 DEF HandleAppend, Appended, Fetched
  <2> QED
    BY <1>1, <1>2, <2>2, <2>3, PrefixOfLonger
<1> QED
  BY <1>2, <1>3, <1>4, <1>5, <1>6, OnlyTheHostWrites DEF vars

(* No client's request to append, persist or register is a deletion.        *)
LEMMA SendsDeleteNothing ==
    ASSUME NEW cl \in ClientState
    PROVE  /\ \A k \in 1..Len(Batch(cl.queue)) : Batch(cl.queue)[k].kind # "delete"
           /\ \A k \in 1..Len(PersistSends(cl)) : PersistSends(cl)[k].kind # "delete"
<1>1. Batch(cl.queue) \in Seq(Request) /\ <<Snapshot(cl.s)>> \in Seq(Request) /\ Len(Batch(cl.queue)) \in Nat
  BY SendsAreTyped, RequestsAreTyped, LenProperties DEF ClientState, View
<1>2. \A k \in 1..Len(Batch(cl.queue)) : Batch(cl.queue)[k].kind # "delete"
  <2>1. Len(<<>>) = 0 /\ \A es : Len(<<Append_(es)>>) = 1 /\ <<Append_(es)>>[1] = Append_(es)
    OBVIOUS
  <2>2. \A es : Append_(es).kind = "events"
    BY DEF Append_
  <2>3. CASE cl.queue = <<>>
    BY <2>1, <2>3 DEF Batch
  <2>4. CASE cl.queue # <<>>
    BY <2>1, <2>2, <2>4 DEF Batch
  <2> QED
    BY <2>3, <2>4
<1>3. \A k \in 1..Len(Batch(cl.queue) \o <<Snapshot(cl.s)>>) :
        (Batch(cl.queue) \o <<Snapshot(cl.s)>>)[k].kind # "delete"
  <2>1. Len(<<Snapshot(cl.s)>>) = 1 /\ <<Snapshot(cl.s)>>[1] = Snapshot(cl.s) /\ Snapshot(cl.s).kind # "delete"
    BY DEF Snapshot
  <2> DEFINE b == Batch(cl.queue)
             t == <<Snapshot(cl.s)>>
  <2>2. /\ Len(b \o t) = Len(b) + Len(t)
        /\ \A k \in 1..Len(b) + Len(t) : (b \o t)[k] = IF k <= Len(b) THEN b[k] ELSE t[k - Len(b)]
    BY <1>1, ConcatProperties
  <2> HIDE DEF b, t
  <2>3. ASSUME NEW k \in 1..Len(b \o t) PROVE (b \o t)[k].kind # "delete"
    BY <1>1, <1>2, <2>1, <2>2 DEF b, t
  <2> QED
    BY <2>3 DEF b, t
<1>4. Len(<<>>) = 0
  BY EmptySeq
<1> QED
  BY <1>2, <1>3, <1>4 DEF PersistSends

(* Requests that join others on the wire.                                   *)
LEMMA JoiningTheWire ==
    ASSUME NEW w \in Seq(Request), NEW x \in Seq(Request),
           \A k \in 1..Len(w) : w[k].kind # "delete", \A k \in 1..Len(x) : x[k].kind # "delete"
    PROVE  \A k \in 1..Len(w \o x) : (w \o x)[k].kind # "delete"
<1>1. /\ Len(w) \in Nat /\ Len(x) \in Nat /\ Len(w \o x) = Len(w) + Len(x)
      /\ \A k \in 1..Len(w) + Len(x) : (w \o x)[k] = IF k <= Len(w) THEN w[k] ELSE x[k - Len(w)]
  BY LenProperties, ConcatProperties
<1>2. ASSUME NEW k \in 1..Len(w \o x) PROVE (w \o x)[k].kind # "delete"
  <2>1. CASE k <= Len(w)
    BY <1>1, <2>1
  <2>2. CASE k > Len(w)
    <3>1. k - Len(w) \in 1..Len(x) /\ (w \o x)[k] = x[k - Len(w)]
      BY <1>1, <2>2
    <3> QED
      BY <3>1
  <2> QED
    BY <1>1, <2>1, <2>2
<1> QED
  BY <1>2

(* A deletion is on the wire only after somebody deleted the session.       *)
LEMMA DeletionsAreSent ==
    ASSUME TypeOK, HostInv, [Next]_vars, "delete" \notin left'.happened, NEW k \in 1..Len(wire')
    PROVE  wire'[k].kind # "delete"
<1> DEFINE o == client[Owner]
<1>1. /\ wire \in Seq(Request) /\ Len(wire) \in Nat /\ o \in ClientState
      /\ \A j \in 1..Len(wire) : wire[j].kind # "delete"
  BY DisturbancesRemain, SessionLogAssumption, LenProperties DEF TypeOK, HostInv, Sent, Request
<1>2. CASE UNCHANGED wire
  BY <1>1, <1>2
<1>3. CASE OpenWorkspace
  <2> DEFINE fresh == [NewClient EXCEPT !.s = [view |-> "open", durable |-> TRUE, shown |-> <<>>,
                                               count |-> 0, status |-> "ready"],
                                        !.sync = client[Owner].sync]
             shows == Applied(fresh, <<emitted + 1>>)
  <2>1. fresh \in ClientState
    BY <1>1, EmptySeq, NewClientIsTyped DEF ClientState
  <2>2. shows \in ClientState
    <3>1. <<emitted + 1>> \in Seq(Events)
      BY <1>3, SessionLogAssumption DEF OpenWorkspace, TypeOK, Events
    <3> HIDE DEF fresh
    <3> QED
      BY <2>1, <3>1, AppliedProperties
  <2>3. wire' = wire \o <<Register>> \o PersistSends(shows)
    BY <1>3 DEF OpenWorkspace
  <2> HIDE DEF shows
  <2>4. /\ <<Register>> \in Seq(Request) /\ PersistSends(shows) \in Seq(Request)
        /\ \A j \in 1..Len(PersistSends(shows)) : PersistSends(shows)[j].kind # "delete"
    BY <2>2, RequestsAreTyped, SendsAreTyped, SendsDeleteNothing
  <2>5. \A j \in 1..Len(<<Register>>) : <<Register>>[j].kind # "delete"
    BY DEF Register
  <2>6. wire \o <<Register>> \in Seq(Request)
    BY <1>1, <2>4, ConcatProperties
  <2>7. \A j \in 1..Len(wire \o <<Register>>) : (wire \o <<Register>>)[j].kind # "delete"
    BY <1>1, <2>4, <2>5, JoiningTheWire
  <2>8. \A j \in 1..Len(wire \o <<Register>> \o PersistSends(shows)) :
          (wire \o <<Register>> \o PersistSends(shows))[j].kind # "delete"
    BY <2>4, <2>6, <2>7, JoiningTheWire
  <2> QED
    BY <2>3, <2>8
<1>4. CASE HarnessPersists
  <2>1. wire' = wire \o PersistSends(o)
    BY <1>4 DEF HarnessPersists
  <2>2. PersistSends(o) \in Seq(Request) /\ \A j \in 1..Len(PersistSends(o)) : PersistSends(o)[j].kind # "delete"
    BY <1>1, SendsAreTyped, SendsDeleteNothing
  <2>3. \A j \in 1..Len(wire \o PersistSends(o)) : (wire \o PersistSends(o))[j].kind # "delete"
    BY <1>1, <2>2, JoiningTheWire
  <2> QED
    BY <2>1, <2>3
<1>5. ASSUME NEW c \in Clients, TimerFires(c)
      PROVE  wire'[k].kind # "delete"
  <2>1. client[c] \in ClientState /\ wire' = wire \o Batch(client[c].queue)
    BY <1>5 DEF TimerFires, TypeOK
  <2>2. /\ Batch(client[c].queue) \in Seq(Request)
        /\ \A j \in 1..Len(Batch(client[c].queue)) : Batch(client[c].queue)[j].kind # "delete"
    BY <2>1, SendsAreTyped, SendsDeleteNothing
  <2>3. \A j \in 1..Len(wire \o Batch(client[c].queue)) : (wire \o Batch(client[c].queue))[j].kind # "delete"
    BY <1>1, <2>2, JoiningTheWire
  <2> QED
    BY <2>1, <2>3
<1>6. ASSUME NEW c \in Clients, DeleteSession(c)
      PROVE  FALSE
  BY <1>6, DisturbIsTyped DEF DeleteSession
<1>7. ASSUME NEW i \in Sent, wire' = RemoveAt(wire, i)
      PROVE  wire'[k].kind # "delete"
  BY <1>1, <1>7, RemoveAtProperties DEF Sent
<1>8. ASSUME NEW i \in Sent, wire' = [wire EXCEPT ![i].checked = TRUE]
      PROVE  wire'[k].kind # "delete"
  <2> DEFINE r == [wire[i] EXCEPT !.checked = TRUE]
  <2>1. wire[i] \in Request /\ r \in Request /\ r.kind # "delete"
    <3>1. i \in 1..Len(wire) /\ wire[i] \in Request /\ wire[i].kind # "delete"
      BY <1>1, ElementOfSeq DEF Sent
    <3> QED
      BY <3>1 DEF Request
  <2>2. wire' = [wire EXCEPT ![i] = r]
    BY <1>8
  <2> HIDE DEF r
  <2>3. /\ Len([wire EXCEPT ![i] = r]) = Len(wire)
        /\ \A j \in 1..Len(wire) : [wire EXCEPT ![i] = r][j] = IF j = i THEN r ELSE wire[j]
    BY <1>1, <2>1, ExceptSeq DEF Sent
  <2> QED
    BY <1>1, <2>1, <2>2, <2>3
<1>9. ASSUME NEW i \in Sent, Handle(i) \/ HandleAppend(i, FALSE) \/ Lose(i)
      PROVE  wire' = RemoveAt(wire, i) \/ wire' = [wire EXCEPT ![i].checked = TRUE]
  BY <1>9 DEF Handle, HandleRegister, HandleDelete, HandlerChecks, HandleAppend, HandleSnapshot, Lose
<1>10. CASE Launch \/ Emit \/ FlushStream \/ ProcessExits \/ HarnessSettles
  BY <1>2, <1>10 DEF Launch, Emit, FlushStream, ProcessExits, HarnessSettles
<1>11. ASSUME NEW c \in Clients, Reload(c) \/ (\E listed \in BOOLEAN : PollLists(c, listed))
                               \/ Poll(c) \/ PollFails(c)
       PROVE  UNCHANGED wire
  BY <1>11 DEF Reload, PollLists, Poll, PollAsks, PollReads, PollMerges, PollFails
<1> QED
  BY <1>2, <1>3, <1>4, <1>5, <1>6, <1>7, <1>8, <1>9, <1>10, <1>11 DEF Next, vars

(* The host's part of the invariant.                                        *)
LEMMA HostStep ==
    ASSUME TypeOK, HostInv, [Next]_vars
    PROVE  HostInv'
<1>1. disk'.exists \/ disk' = NoDisk
  <2>1. disk \in Fetched
    BY DEF TypeOK
  <2>2. CASE UNCHANGED disk
    BY <2>2 DEF HostInv
  <2>3. ASSUME NEW i \in Sent, HandleRegister(i)
        PROVE  disk'.exists
    BY <2>1, <2>3 DEF HandleRegister, NoDisk, Fetched
  <2>4. ASSUME NEW i \in Sent, HandleDelete(i)
        PROVE  disk' = NoDisk
    BY <2>4 DEF HandleDelete
  <2>5. ASSUME NEW i \in Sent, HandleSnapshot(i)
        PROVE  disk'.exists \/ disk' = NoDisk
    BY <2>1, <2>5 DEF HandleSnapshot, Snapshotted, HostInv, Fetched
  <2>6. ASSUME NEW i \in Sent, NEW counts \in BOOLEAN, HandleAppend(i, counts)
        PROVE  disk'.exists \/ disk' = NoDisk
    BY <2>1, <2>6 DEF HandleAppend, Appended, HostInv, Fetched
  <2> QED
    BY <2>2, <2>3, <2>4, <2>5, <2>6, OnlyTheHostWrites DEF vars
<1>2. live' => Begun'
  BY DEF HostInv, Begun, Next, vars, OpenWorkspace, Launch, Emit, FlushStream, ProcessExits,
         HarnessSettles, HarnessPersists, Handle, HandleRegister, HandleDelete, HandlerChecks,
         HandleAppend, HandleSnapshot, Lose, TimerFires, DeleteSession, Reload, PollLists, Poll,
         PollAsks, PollReads, PollMerges, PollFails
<1>3. \A k \in 1..Len(wire') : wire'[k].kind = "delete" => "delete" \in left'.happened
  BY DeletionsAreSent
<1> QED
  BY <1>1, <1>2, <1>3 DEF HostInv, Sent

(* A client whose trace, batch, cursor and poll stay as they are stays sound while the log grows
   and the run goes on. *)
LEMMA UntouchedStaysSound ==
    ASSUME TypeOK, TypeOK', NEW c \in Clients, Sound(c),
           IsPrefix(disk.log, disk'.log), Begun => Begun', Past => Past',
           left.happened \subseteq left'.happened,
           c = Owner => \/ run' = run
                        \/ /\ run # "none" /\ run' # "none"
                           /\ client[c].s.view = "open" /\ client[c].s.durable,
           client'[c].batch = client[c].batch, client'[c].cursor = client[c].cursor,
           client'[c].sync = client[c].sync, client'[c].s.view = client[c].s.view,
           client'[c].s.durable = client[c].s.durable, client'[c].s.shown = client[c].s.shown
    PROVE  Sound(c)'
<1> DEFINE cl == client[c]
           new == client'[c]
<1>1. /\ cl \in ClientState /\ disk.log \in Seq(Events) /\ disk'.log \in Seq(Events)
      /\ cl.s.shown \in Seq(Events) /\ cl.sync.got.log \in Seq(Events)
  BY DEF TypeOK, ClientState, Fetched
<1>2. IsPrefix(cl.s.shown, disk.log) => IsPrefix(cl.s.shown, disk'.log)
  BY <1>1, PrefixIsTransitive
<1>3. IsPrefix(cl.sync.got.log, disk.log) => IsPrefix(cl.sync.got.log, disk'.log)
  BY <1>1, PrefixIsTransitive
<1>4. PullInv(cl) => PullInv(cl)'
  <2>1. Len(disk.log) \in Nat /\ Len(disk'.log) \in Nat /\ Len(disk.log) <= Len(disk'.log)
    BY <1>1, LenProperties, PrefixMeans
  <2>2. cl.sync.got.count \in Nat
    BY <1>1 DEF ClientState, Fetched
  <2> QED
    BY <1>3, <2>1, <2>2 DEF PullInv, Pulling
<1>10. Ordered(cl) => Ordered(cl)'
  <2>1. SUFFICES ASSUME Ordered(cl) PROVE Ordered(cl)'
    OBVIOUS
  <2>2. /\ Len(disk.log) \in Nat /\ Len(disk'.log) \in Nat /\ Len(disk.log) <= Len(disk'.log)
        /\ cl.cursor \in Nat /\ cl.cursor <= Len(disk.log)
    BY <1>1, <2>1, LenProperties, PrefixMeans DEF Ordered
  <2>3. Selects(cl.s.shown, disk'.log, cl.cursor)
    BY <1>1, <2>1, <2>2, SelectionOfLonger DEF Ordered
  <2> QED
    BY <2>1, <2>2, <2>3 DEF Ordered
<1>5. Follows(cl)' <=> Follows(cl)
  BY DEF Follows
<1>6. Abreast(cl) => Abreast(cl)'
  BY DEF Abreast, Pulling
<1>7. Overtaken(cl) => Overtaken(cl)'
  BY DEF Overtaken, Pulling
<1>8. Follows(cl)' => /\ Begun' /\ Ordered(cl)'
                      /\ "unlisted" \notin left'.happened =>
                           IsPrefix(cl.s.shown, disk.log)' /\ (Abreast(cl)' \/ Overtaken(cl)')
  BY <1>2, <1>5, <1>6, <1>7, <1>10 DEF Sound
<1>9. /\ c # Owner => new.batch = <<>>
      /\ c = Owner /\ run' = "none" => new.s.view = "none" /\ new.batch = <<>>
      /\ c = Owner /\ run' # "none" /\ (new.s.view = "none" \/ Follows(cl)') =>
           run' = "ended" /\ new.batch = <<>>
  BY <1>5 DEF Sound, Follows
<1> QED
  BY <1>4, <1>8, <1>9 DEF Sound

(* The agent once begun has begun, and a process that is gone stays gone.   *)
LEMMA TheRunGoesOn ==
    ASSUME TypeOK, [Next]_vars
    PROVE  (Begun => Begun') /\ (Past => Past')
<1>1. CASE OpenWorkspace \/ Launch
  BY <1>1 DEF Begun, Past, OpenWorkspace, Launch
<1>2. CASE HarnessSettles \/ HarnessPersists
  BY <1>2 DEF Begun, Past, HarnessSettles, HarnessPersists
<1>3. CASE ProcessExits
  BY <1>3 DEF Begun, Past, ProcessExits
<1>4. ASSUME NEW c \in Clients, Reload(c)
      PROVE  (Begun => Begun') /\ (Past => Past')
  BY <1>4 DEF Begun, Past, Reload
<1>5. CASE UNCHANGED <<run, live>>
  BY <1>5 DEF Begun, Past
<1>6. CASE Emit \/ FlushStream \/ UNCHANGED vars
  BY <1>5, <1>6 DEF Emit, FlushStream, vars
<1>7. ASSUME NEW i \in Sent, Handle(i) \/ HandleAppend(i, FALSE) \/ Lose(i)
      PROVE  UNCHANGED <<run, live>>
  BY <1>7 DEF Handle, HandleRegister, HandleDelete, HandlerChecks, HandleAppend, HandleSnapshot, Lose
<1>8. ASSUME NEW c \in Clients,
             \/ TimerFires(c) \/ DeleteSession(c) \/ (\E listed \in BOOLEAN : PollLists(c, listed))
             \/ Poll(c) \/ PollFails(c)
      PROVE  UNCHANGED <<run, live>>
  BY <1>8 DEF TimerFires, DeleteSession, PollLists, Poll, PollAsks, PollReads, PollMerges, PollFails
<1> QED
  BY <1>1, <1>2, <1>3, <1>4, <1>5, <1>6, <1>7, <1>8 DEF Next

(* The merge of a pull that had the session in its store: what it shows afterwards is what it got,
   or, for a pull without events, what it showed. *)
LEMMA MergeExtends ==
    ASSUME TypeOK, NEW c \in Clients, Sound(c), Follows(client[c]), "unlisted" \notin left.happened,
           client[c].sync.at = "answered", client[c].sync.had
    PROVE  LET cl == client[c]
           IN  \/ /\ Extended(cl).s.shown = cl.sync.got.log
                  /\ Extended(cl).cursor = Len(cl.sync.got.log)
                  /\ IsPrefix(cl.sync.got.log, disk.log)
               \/ /\ Extended(cl).s.shown = cl.s.shown
                  /\ Past /\ Extended(cl).cursor > 0
<1> DEFINE cl == client[c]
           got == cl.sync.got
<1>1. /\ cl \in ClientState /\ got.log \in Seq(Events) /\ Len(got.log) \in Nat /\ got.count \in Nat
      /\ cl.s.shown \in Seq(Events) /\ Len(cl.s.shown) \in Nat /\ cl.s.view = "open"
  BY LenProperties DEF TypeOK, ClientState, Fetched, Follows
<1>2. /\ Slice(cl) \in Seq(Events) /\ From(cl) \in Nat
      /\ To(cl) = IF Slice(cl) # <<>> THEN Len(got.log) ELSE Max({From(cl), Len(got.log), got.count})
      /\ Max({From(cl), Len(got.log), got.count}) \in {From(cl), Len(got.log), got.count}
      /\ \A y \in {From(cl), Len(got.log), got.count} : Max({From(cl), Len(got.log), got.count}) >= y
  BY <1>1, PullIsTyped, MaxOfThree
<1>3. Extended(cl).s.shown = cl.s.shown \o Slice(cl) /\ Extended(cl).cursor = To(cl)
  <2>1. Applied(cl, Slice(cl)).s.shown = cl.s.shown \o Slice(cl)
    BY <1>1, <1>2, AppliedProperties
  <2> QED
    BY <1>1, <2>1, PulledIsTyped
<1>4. Pulling(cl)
  BY DEF Pulling
<1>5. CASE cl.sync.need
  <2>1. Abreast(cl)
    BY <1>4, <1>5 DEF Sound, Overtaken
  <2>2. /\ cl.cursor = Len(cl.s.shown) /\ IsPrefix(cl.s.shown, got.log)
        /\ IsPrefix(got.log, disk.log) /\ got.count <= Len(got.log)
    BY <1>5, <2>1 DEF Abreast, Sound, PullInv
  <2>3. Len(cl.s.shown) <= Len(got.log)
    BY <1>1, <2>2, PrefixMeans
  <2>4. From(cl) = Len(cl.s.shown)
    BY <1>1, <2>2, <2>3 DEF From, NoCursor
  <2>5. /\ cl.s.shown \o Slice(cl) = got.log
        /\ Slice(cl) = <<>> => Len(cl.s.shown) = Len(got.log)
    <3>1. Slice(cl) = SubSeq(got.log, Len(cl.s.shown) + 1, Len(got.log))
      BY <2>4 DEF Slice
    <3> DEFINE log == got.log
               shown == cl.s.shown
    <3>2. log \in Seq(Events) /\ shown \in Seq(Events) /\ IsPrefix(shown, log)
      BY <1>1, <2>2
    <3> HIDE DEF log, shown
    <3>3. /\ shown \o SubSeq(log, Len(shown) + 1, Len(log)) = log
          /\ SubSeq(log, Len(shown) + 1, Len(log)) = <<>> => Len(shown) = Len(log)
      BY <3>2, PrefixAndRest
    <3> QED
      BY <3>1, <3>3 DEF log, shown
  <2> HIDE DEF got
  <2>6. Slice(cl) = <<>> => To(cl) = Len(got.log)
    <3>1. Slice(cl) = <<>> => {From(cl), Len(got.log), got.count} = {Len(got.log), got.count}
      BY <2>4, <2>5
    <3>2. Max({Len(got.log), got.count}) = Len(got.log)
      BY <1>1, <2>2, MaxOfTwo
    <3> QED
      BY <1>2, <3>1, <3>2
  <2>7. To(cl) = Len(got.log)
    BY <1>2, <2>6
  <2> QED
    BY <1>3, <2>2, <2>5, <2>7 DEF got
<1>6. CASE ~cl.sync.need
  <2>1. Past /\ cl.cursor \in Nat /\ cl.cursor > 0
    BY <1>1, <1>4, <1>6 DEF Sound, Abreast, Overtaken, ClientState, NoCursor
  <2>2. got.log = <<>> /\ Len(got.log) = 0
    BY <1>6, EmptySeq DEF Sound, PullInv
  <2>3. From(cl) = cl.cursor
    BY <1>6, <2>1 DEF From, NoCursor
  <2>4. Slice(cl) = <<>>
    BY <2>1, <2>2, <2>3 DEF Slice
  <2>5. To(cl) > 0
    BY <1>1, <1>2, <2>1, <2>3, <2>4
  <2>6. cl.s.shown \o <<>> = cl.s.shown
    BY <1>1, ConcatEmptySeq
  <2> QED
    BY <1>3, <2>1, <2>4, <2>5, <2>6
<1> QED
  BY <1>5, <1>6

(* Whatever the lists said, the merge leaves a trace in the order of the log, and its cursor where
   a trace of that order may go on. *)
LEMMA MergeKeepsOrder ==
    ASSUME TypeOK, NEW c \in Clients, Sound(c), Follows(client[c]),
           client[c].sync.at = "answered", client[c].sync.had
    PROVE  /\ Extended(client[c]).cursor \in 0..Len(disk.log)
           /\ Selects(Extended(client[c]).s.shown, disk.log, Extended(client[c]).cursor)
<1> DEFINE cl == client[c]
           got == cl.sync.got
<1>1. /\ cl \in ClientState /\ got.log \in Seq(Events) /\ Len(got.log) \in Nat /\ got.count \in Nat
      /\ cl.s.shown \in Seq(Events) /\ cl.s.view = "open"
      /\ disk.log \in Seq(Events) /\ Len(disk.log) \in Nat
  BY LenProperties DEF TypeOK, ClientState, Fetched, Follows
<1>2. /\ Slice(cl) \in Seq(Events) /\ From(cl) \in Nat
      /\ To(cl) = IF Slice(cl) # <<>> THEN Len(got.log) ELSE Max({From(cl), Len(got.log), got.count})
      /\ Max({From(cl), Len(got.log), got.count}) \in {From(cl), Len(got.log), got.count}
      /\ \A y \in {From(cl), Len(got.log), got.count} : Max({From(cl), Len(got.log), got.count}) >= y
  BY <1>1, PullIsTyped, MaxOfThree
<1>3. Extended(cl).s.shown = cl.s.shown \o Slice(cl) /\ Extended(cl).cursor = To(cl)
  <2>1. Applied(cl, Slice(cl)).s.shown = cl.s.shown \o Slice(cl)
    BY <1>1, <1>2, AppliedProperties
  <2> QED
    BY <1>1, <2>1, PulledIsTyped
<1>4. /\ cl.cursor \in Nat /\ cl.cursor <= Len(disk.log) /\ Selects(cl.s.shown, disk.log, cl.cursor)
      /\ cl.sync.need => cl.cursor <= Len(got.log)
  BY <1>1 DEF Sound, Ordered
<1>5. From(cl) = cl.cursor
  BY <1>1, <1>4 DEF From, NoCursor
<1>6. CASE cl.sync.need
  <2>1. IsPrefix(got.log, disk.log) /\ got.count <= Len(got.log)
    BY <1>6 DEF Sound, PullInv
  <2>2. Slice(cl) = SubSeq(got.log, cl.cursor + 1, Len(got.log))
    BY <1>5 DEF Slice
  <2>3. Len(got.log) <= Len(disk.log)
    BY <1>1, <2>1, PrefixMeans
  <2>4. To(cl) = Len(got.log)
    BY <1>1, <1>2, <1>4, <1>5, <1>6, <2>1
  <2>5. Selects(cl.s.shown \o Slice(cl), disk.log, Len(got.log))
    <3> DEFINE log == got.log
               shown == cl.s.shown
               n == cl.cursor
    <3>1. /\ log \in Seq(Events) /\ shown \in Seq(Events) /\ n \in Nat /\ n <= Len(log)
          /\ Selects(shown, disk.log, n) /\ IsPrefix(log, disk.log)
      BY <1>1, <1>4, <1>6, <2>1
    <3> HIDE DEF log, shown, n
    <3>2. Selects(shown \o SubSeq(log, n + 1, Len(log)), disk.log, Len(log))
      BY <1>1, <3>1, SelectionAndRest
    <3> QED
      BY <2>2, <3>2 DEF log, shown, n
  <2> QED
    BY <1>1, <1>3, <2>3, <2>4, <2>5
<1>7. CASE ~cl.sync.need
  <2>1. got.log = <<>> /\ Len(got.log) = 0 /\ got.count <= Len(disk.log)
    BY <1>7, EmptySeq DEF Sound, PullInv
  <2>2. Slice(cl) = <<>>
    BY <1>4, <1>5, <2>1 DEF Slice
  <2>3. cl.s.shown \o <<>> = cl.s.shown
    BY <1>1, ConcatEmptySeq
  <2>4. To(cl) \in Nat /\ cl.cursor <= To(cl) /\ To(cl) <= Len(disk.log)
    BY <1>1, <1>2, <1>4, <1>5, <2>1, <2>2
  <2>5. IsPrefix(disk.log, disk.log)
    BY <1>1, PrefixOfItself
  <2>6. Selects(cl.s.shown, disk.log, To(cl))
    BY <1>1, <1>4, <2>4, <2>5, SelectionOfLonger
  <2> QED
    BY <1>1, <1>3, <2>2, <2>3, <2>4, <2>6
<1> QED
  BY <1>6, <1>7

(* What every step of a run without a deletion may count on.                *)
LEMMA StepFacts ==
    ASSUME TypeOK, CountTrailsLog, FollowInv, [Next]_vars, "delete" \notin left'.happened
    PROVE  /\ TypeOK' /\ HostInv /\ "delete" \notin left.happened
           /\ IsPrefix(disk.log, disk'.log) /\ (Begun => Begun') /\ (Past => Past')
           /\ left.happened \subseteq left'.happened
           /\ \A c \in Clients : Sound(c)
<1>1. TypeOK'
  <2>1. CASE UNCHANGED vars
    BY <2>1 DEF TypeOK, vars
  <2> QED
    BY <2>1, OwnerStepsAreTyped, HostStepsAreTyped, ClientStepsAreTyped DEF Next
<1> QED
  BY <1>1, DisturbancesRemain, LogGrows, TheRunGoesOn DEF FollowInv

(* Steps of the owner keep every client sound.                              *)
LEMMA OwnerStepsAreSound ==
    ASSUME TypeOK, CountTrailsLog, FollowInv, "delete" \notin left'.happened,
           OpenWorkspace \/ Launch \/ Emit \/ FlushStream \/ ProcessExits
           \/ HarnessSettles \/ HarnessPersists,
           NEW c \in Clients
    PROVE  Sound(c)'
<1> DEFINE o == client[Owner]
           new == client'[Owner]
           flushed == [Applied(o, o.batch) EXCEPT !.batch = <<>>]
<1> USE DEF Begun
<1>1. [Next]_vars
  BY DEF Next
<1>2. /\ TypeOK' /\ HostInv /\ "delete" \notin left.happened /\ IsPrefix(disk.log, disk'.log)
      /\ (Begun => Begun') /\ (Past => Past') /\ \A d \in Clients : Sound(d)
      /\ left.happened \subseteq left'.happened
  BY <1>1, StepFacts
<1>3. Owner \in Clients /\ o \in ClientState /\ Sound(Owner) /\ Sound(c) /\ PullInv(o) /\ o.batch \in Seq(Events)
  BY <1>2, SessionLogAssumption DEF TypeOK, Sound, ClientState
<1>4. ASSUME c # Owner, client'[c] = client[c]
      PROVE  Sound(c)'
  BY <1>2, <1>3, <1>4, UntouchedStaysSound
<1>5. ASSUME run # "none", run' # "none", o.s.view = "open", o.s.durable, run # "ended",
             new.s.view = "open", new.s.durable, new.sync = o.sync
      PROVE  Sound(Owner)'
  <2>1. PullInv(o)'
    <3>1. new.s.view = o.s.view /\ new.sync = o.sync
      BY <1>5
    <3>2. /\ o.sync.got.log \in Seq(Events) /\ disk.log \in Seq(Events) /\ disk'.log \in Seq(Events)
      BY <1>2, <1>3 DEF TypeOK, ClientState, Fetched
    <3>3. IsPrefix(o.sync.got.log, disk.log) => IsPrefix(o.sync.got.log, disk'.log)
      BY <1>2, <3>2, PrefixIsTransitive
    <3>4. /\ Len(disk.log) \in Nat /\ Len(disk'.log) \in Nat /\ Len(disk.log) <= Len(disk'.log)
          /\ o.sync.got.count \in Nat
      BY <1>2, <1>3, <3>2, LenProperties, PrefixMeans DEF ClientState, Fetched
    <3> QED
      BY <1>2, <1>3, <3>1, <3>3, <3>4 DEF PullInv, Pulling
  <2>2. ~Follows(o)'
    BY <1>5 DEF Follows
  <2> QED
    BY <1>5, <2>1, <2>2 DEF Sound
<1>6. run \notin {"none", "ended"} => o.s.view = "open" /\ o.s.durable
  BY <1>3 DEF Sound, Follows, ClientState
<1>7. /\ flushed.sync = o.sync /\ flushed.s.view = o.s.view /\ flushed.s.durable = o.s.durable
      /\ flushed \in ClientState
  <2>1. Applied(o, o.batch) \in ClientState
    BY <1>3, AppliedProperties
  <2>2. flushed.sync = Applied(o, o.batch).sync /\ flushed.s = Applied(o, o.batch).s
    BY <2>1 DEF ClientState
  <2>3. flushed \in ClientState
    BY <2>1, ClientFieldsAreTyped
  <2>4. /\ Applied(o, o.batch).sync = o.sync /\ Applied(o, o.batch).s.view = o.s.view
        /\ Applied(o, o.batch).s.durable = o.s.durable
    BY <1>3, AppliedProperties
  <2> QED
    BY <2>2, <2>3, <2>4
<1>8. CASE OpenWorkspace
  <2> DEFINE fresh == [NewClient EXCEPT !.s = [view |-> "open", durable |-> TRUE, shown |-> <<>>,
                                               count |-> 0, status |-> "ready"],
                                        !.sync = client[Owner].sync]
             shows == Applied(fresh, <<emitted + 1>>)
  <2>1. fresh \in ClientState
    BY <1>3, EmptySeq, NewClientIsTyped DEF ClientState
  <2>2. fresh.sync = o.sync /\ fresh.s.view = "open" /\ fresh.s.durable /\ fresh.batch = <<>>
    BY DEF NewClient
  <2>3. <<emitted + 1>> \in Seq(Events)
    BY <1>8, SessionLogAssumption DEF OpenWorkspace, TypeOK, Events
  <2>4. /\ client' = [client EXCEPT ![Owner] = Persisted(shows)]
        /\ run = "none" /\ run' = "opened"
    BY <1>8 DEF OpenWorkspace
  <2> HIDE DEF fresh
  <2>5. /\ shows \in ClientState /\ shows.sync = o.sync /\ shows.s.view = "open" /\ shows.s.durable
        /\ shows.batch = <<>>
    BY <2>1, <2>2, <2>3, AppliedProperties
  <2> HIDE DEF shows
  <2>6. /\ Persisted(shows).sync = o.sync /\ Persisted(shows).s.view = "open"
        /\ Persisted(shows).s.durable
    BY <2>5 DEF Persisted, ClientState
  <2>7. new = Persisted(shows)
    BY <1>3, <2>4 DEF TypeOK
  <2>8. o.s.view = "none" /\ ~o.sync.live
    BY <1>3, <2>4 DEF Sound, PullInv
  <2>9. ~Pulling(o)
    BY <1>3, <2>8 DEF PullInv, Pulling
  <2>10. PullInv(o)'
    BY <2>6, <2>7, <2>8, <2>9 DEF PullInv, Pulling
  <2>11. Sound(Owner)'
    BY <2>4, <2>6, <2>7, <2>10 DEF Sound, Follows
  <2>12. c # Owner => client'[c] = client[c]
    BY <2>4 DEF TypeOK
  <2> QED
    BY <1>4, <2>11, <2>12
<1>9. CASE Launch
  <2>1. new.s.view = o.s.view /\ new.s.durable = o.s.durable /\ new.sync = o.sync
    BY <1>3, <1>9 DEF Launch, TypeOK, ClientState
  <2>2. c # Owner => client'[c] = client[c]
    BY <1>9 DEF Launch, TypeOK
  <2> QED
    BY <1>4, <1>5, <1>6, <1>9, <2>1, <2>2 DEF Launch
<1>10. CASE Emit
  <2>1. new.s.view = o.s.view /\ new.s.durable = o.s.durable /\ new.sync = o.sync
    BY <1>3, <1>10 DEF Emit, TypeOK, ClientState
  <2>2. c # Owner => client'[c] = client[c]
    BY <1>10 DEF Emit, TypeOK
  <2> QED
    BY <1>4, <1>5, <1>6, <1>10, <2>1, <2>2 DEF Emit
<1>11. CASE FlushStream
  <2>1. new = flushed
    BY <1>3, <1>11 DEF FlushStream, TypeOK
  <2>2. c # Owner => client'[c] = client[c]
    BY <1>11 DEF FlushStream, TypeOK
  <2>3. run \notin {"none", "ended"} \/ run = "ended"
    BY <1>3, <1>11 DEF Sound, FlushStream, TypeOK
  <2>4. CASE run = "ended"
    <3>1. o.s.view = "open" /\ o.s.durable
      BY <1>3, <1>11, <2>4 DEF Sound, FlushStream, Follows, ClientState
    <3>2. PullInv(o)'
      <4>1. /\ o.sync.got.log \in Seq(Events) /\ disk.log \in Seq(Events) /\ disk'.log \in Seq(Events)
        BY <1>2, <1>3 DEF TypeOK, ClientState, Fetched
      <4>2. IsPrefix(o.sync.got.log, disk.log) => IsPrefix(o.sync.got.log, disk'.log)
        BY <1>2, <4>1, PrefixIsTransitive
      <4>3. new.sync = o.sync /\ new.s.view = o.s.view
        BY <1>7, <2>1
      <4>4. /\ Len(disk.log) \in Nat /\ Len(disk'.log) \in Nat /\ Len(disk.log) <= Len(disk'.log)
            /\ o.sync.got.count \in Nat
        BY <1>2, <1>3, <4>1, LenProperties, PrefixMeans DEF ClientState, Fetched
      <4> QED
        BY <1>2, <1>3, <4>2, <4>3, <4>4 DEF PullInv, Pulling
    <3> QED
      BY <1>4, <1>7, <1>11, <2>1, <2>2, <2>4, <3>1, <3>2 DEF Sound, Follows, FlushStream
  <2> QED
    BY <1>4, <1>5, <1>6, <1>7, <1>11, <2>1, <2>2, <2>3, <2>4 DEF FlushStream
<1>12. CASE ProcessExits
  <2>1. client' = client /\ run' = run
    BY <1>12 DEF ProcessExits
  <2> QED
    BY <1>2, <1>3, <2>1, UntouchedStaysSound
<1>13. CASE HarnessSettles
  <2> DEFINE v == IF flushed.s.view = "none" THEN flushed ELSE [flushed EXCEPT !.s.status = "completed"]
  <2>1. new = v
    BY <1>3, <1>13 DEF HarnessSettles, TypeOK
  <2>2. v.sync = o.sync /\ v.s.view = o.s.view /\ v.s.durable = o.s.durable
    <3> HIDE DEF flushed
    <3> QED
      BY <1>7 DEF ClientState
  <2>3. c # Owner => client'[c] = client[c]
    BY <1>13 DEF HarnessSettles, TypeOK
  <2> HIDE DEF v
  <2> QED
    BY <1>4, <1>5, <1>6, <1>13, <2>1, <2>2, <2>3 DEF HarnessSettles
<1>14. CASE HarnessPersists
  <2>1. new.s = o.s /\ new.sync = o.sync
    BY <1>3, <1>14 DEF HarnessPersists, Persisted, TypeOK, ClientState
  <2>2. c # Owner => client'[c] = client[c]
    BY <1>14 DEF HarnessPersists, TypeOK
  <2> QED
    BY <1>4, <1>5, <1>6, <1>14, <2>1, <2>2 DEF HarnessPersists
<1> QED
  BY <1>8, <1>9, <1>10, <1>11, <1>12, <1>13, <1>14

(* Steps of a window keep its own client sound.                             *)
LEMMA ClientStepsAreSound ==
    ASSUME TypeOK, CountTrailsLog, FollowInv, "delete" \notin left'.happened, NEW c \in Clients,
           \/ TimerFires(c) \/ Reload(c) \/ (\E listed \in BOOLEAN : PollLists(c, listed))
           \/ Poll(c) \/ PollFails(c)
    PROVE  Sound(c)'
<1> DEFINE cl == client[c]
           new == client'[c]
<1>1. [Next]_vars
  BY DEF Next
<1>2. /\ TypeOK' /\ HostInv /\ "delete" \notin left.happened /\ IsPrefix(disk.log, disk'.log)
      /\ (Begun => Begun') /\ (Past => Past') /\ Sound(c) /\ PullInv(cl)
      /\ left.happened \subseteq left'.happened
  BY <1>1, StepFacts DEF Sound
<1>3. cl \in ClientState /\ disk \in Fetched /\ cl.cursor \in Nat \cup {NoCursor} /\ cl.sync.live \in BOOLEAN
  BY DEF TypeOK, ClientState
\* The trace, its kind and the log stay: what is left to show is the poll and the cursor.
<1>4. ASSUME new.s.view = cl.s.view, new.s.durable = cl.s.durable, new.s.shown = cl.s.shown,
             new.batch = cl.batch, UNCHANGED <<disk, run, live>>,
             PullInv(cl)',
             Follows(cl) => new.cursor = cl.cursor,
             new.sync.at = "answered" /\ new.sync.need =>
               \/ new.sync = cl.sync
               \/ Len(new.sync.got.log) = Len(disk.log),
             Follows(cl) /\ "unlisted" \notin left'.happened => Abreast(cl)' \/ Overtaken(cl)'
      PROVE  Sound(c)'
  <2>1. Follows(cl) => Ordered(cl)'
    <3>1. SUFFICES ASSUME Follows(cl) PROVE Ordered(cl)'
      OBVIOUS
    <3>2. Ordered(cl)
      BY <1>2, <3>1 DEF Sound
    <3> QED
      BY <1>4, <3>1, <3>2 DEF Ordered
  <2> QED
    BY <1>2, <1>4, <2>1 DEF Sound, Follows, Begun
<1>5. CASE TimerFires(c)
  <2>1. new = Persisted(cl) /\ UNCHANGED <<disk, run>>
    BY <1>5 DEF TimerFires, TypeOK
  <2>2. /\ new.batch = cl.batch /\ new.cursor = cl.cursor /\ new.sync = cl.sync /\ new.s = cl.s
    BY <1>3, <2>1 DEF Persisted, ClientState
  <2> QED
    BY <1>2, <2>1, <2>2, UntouchedStaysSound
<1>6. CASE Reload(c)
  <2>1. new = NewClient /\ (run' = IF c = Owner /\ run # "none" THEN "ended" ELSE run)
    BY <1>6 DEF Reload, TypeOK
  <2>2. /\ NewClient.batch = <<>> /\ NewClient.s.view = "none" /\ NewClient.sync.at = "idle"
        /\ ~NewClient.sync.live
    BY DEF NewClient, NoView, Idle
  <2>3. PullInv(cl)'
    BY <2>1, <2>2 DEF PullInv, Pulling
  <2> QED
    BY <2>1, <2>2, <2>3 DEF Sound, Follows
<1>7. ASSUME NEW listed \in BOOLEAN, PollLists(c, listed)
      PROVE  Sound(c)'
  <2> DEFINE y == [Idle EXCEPT !.at = "listed", !.live = listed]
  <2>1. new = [cl EXCEPT !.sync = y] /\ UNCHANGED <<disk, run, live>>
    BY <1>7 DEF PollLists, TypeOK
  <2>2. /\ y.at = "listed" /\ y.live = listed /\ (listed => live)
        /\ "unlisted" \notin left'.happened => listed = live
    <3>1. listed = live \/ (live /\ ~listed /\ Disturb("unlisted"))
      BY <1>7 DEF PollLists
    <3>2. Disturb("unlisted") => "unlisted" \in left'.happened
      BY DisturbIsTyped
    <3>3. y.at = "listed" /\ y.live = listed
      BY DEF Idle
    <3> HIDE DEF y
    <3> QED
      BY <3>1, <3>2, <3>3
  <2> HIDE DEF y
  <2>3. new.s = cl.s /\ new.batch = cl.batch /\ new.cursor = cl.cursor /\ new.sync = y
    BY <1>3, <2>1 DEF ClientState
  <2>4. PullInv(cl)'
    BY <1>2, <2>1, <2>2, <2>3 DEF PullInv, Pulling, HostInv, Begun
  <2>5. ASSUME Follows(cl), "unlisted" \notin left'.happened PROVE Abreast(cl)' \/ Overtaken(cl)'
    <3>1. Begun
      BY <1>2, <2>5 DEF Sound
    <3>2. Abreast(cl) => Abreast(cl)'
      BY <2>1, <2>2, <2>3, <2>5, <3>1 DEF Abreast, Past, Begun, Pulling
    <3>3. Overtaken(cl) => Overtaken(cl)'
      BY <2>1, <2>2, <2>3, <2>5 DEF Overtaken, Past, Begun, Pulling
    <3> QED
      BY <1>2, <2>5, <3>2, <3>3 DEF Sound
  <2> QED
    BY <1>4, <2>1, <2>2, <2>3, <2>4, <2>5
<1>8. CASE PollAsks(c)
  <2> DEFINE y == Asking(cl)
  <2>1. new = [cl EXCEPT !.cursor = Cursor(cl), !.sync = y] /\ UNCHANGED <<disk, run, live>> /\ cl.sync.at = "listed"
    BY <1>8 DEF PollAsks, Asking, Cursor, TypeOK
  <2>2. /\ y.at = IF cl.sync.live \/ cl.s.view # "none" THEN "asked" ELSE "idle"
        /\ (y.had <=> cl.s.view # "none") /\ (y.live <=> cl.sync.live)
        /\ (y.need <=> cl.sync.live \/ cl.s.view = "none" \/ Cursor(cl) \in {0, NoCursor})
    BY <1>3 DEF Asking, ClientState
  <2> HIDE DEF y
  <2>3. new.s = cl.s /\ new.batch = cl.batch /\ new.cursor = Cursor(cl) /\ new.sync = y
    BY <1>3, <2>1 DEF ClientState
  <2>4. PullInv(cl)'
    BY <1>2, <1>3, <2>1, <2>2, <2>3 DEF PullInv, Pulling, ClientState, Begun
  <2>6. ASSUME Follows(cl) PROVE cl.cursor \in Nat /\ Cursor(cl) = cl.cursor
    <3>1. disk.log \in Seq(Events) /\ Len(disk.log) \in Nat
      BY <1>3, LenProperties DEF Fetched
    <3>2. cl.cursor \in Nat
      BY <1>2, <2>6, <3>1 DEF Sound, Ordered
    <3> QED
      BY <3>2 DEF Cursor, NoCursor
  <2>5. ASSUME Follows(cl), "unlisted" \notin left'.happened PROVE Abreast(cl)' \/ Overtaken(cl)'
    <3>1. cl.cursor \in Nat
      BY <2>5, <2>6
    <3>2. Cursor(cl) = cl.cursor
      BY <2>5, <2>6
    <3>3. Abreast(cl) => Abreast(cl)'
      BY <2>1, <2>2, <2>3, <3>1, <3>2 DEF Abreast, Past, Begun, Pulling
    <3>4. Overtaken(cl) => Overtaken(cl)'
      BY <2>1, <2>2, <2>3, <2>5, <3>1, <3>2 DEF Overtaken, Past, Begun, Pulling, Follows, NoCursor
    <3> QED
      BY <1>2, <2>5, <3>3, <3>4 DEF Sound
  <2> QED
    BY <1>4, <2>1, <2>2, <2>3, <2>4, <2>5, <2>6
<1>9. CASE PollReads(c)
  <2> DEFINE got == IF cl.sync.need THEN disk ELSE [disk EXCEPT !.log = <<>>]
             y == [cl.sync EXCEPT !.at = "answered", !.got = got]
  <2>1. new = [cl EXCEPT !.sync = y] /\ UNCHANGED <<disk, run, live>> /\ cl.sync.at = "asked"
    BY <1>3, <1>9 DEF PollReads, TypeOK, ClientState
  <2>2. /\ y.at = "answered" /\ y.had = cl.sync.had /\ y.live = cl.sync.live
        /\ y.need = cl.sync.need /\ y.got = got
    BY <1>3 DEF ClientState
  <2>3. got.log = IF cl.sync.need THEN disk.log ELSE <<>>
    BY <1>3 DEF Fetched
  <2>4. got.count <= Len(disk.log) /\ (cl.sync.need => got.count <= Len(got.log))
    BY <1>3 DEF CountTrailsLog, Fetched
  <2> HIDE DEF y, got
  <2>5. new.s = cl.s /\ new.batch = cl.batch /\ new.cursor = cl.cursor /\ new.sync = y
    BY <1>3, <2>1 DEF ClientState
  <2>6. IsPrefix(disk.log, disk.log)
    BY <1>3, PrefixOfItself DEF Fetched
  <2>7. PullInv(cl)'
    BY <1>2, <2>1, <2>2, <2>3, <2>4, <2>5, <2>6 DEF PullInv, Pulling, Begun
  <2>8. ASSUME Follows(cl), "unlisted" \notin left'.happened PROVE Abreast(cl)' \/ Overtaken(cl)'
    <3>1. Abreast(cl) => Abreast(cl)'
      BY <1>2, <2>1, <2>2, <2>3, <2>5, <2>8 DEF Abreast, Past, Begun, Pulling, Sound
    <3>2. Overtaken(cl) => Overtaken(cl)'
      BY <2>1, <2>2, <2>5 DEF Overtaken, Past, Begun, Pulling
    <3> QED
      BY <1>2, <2>8, <3>1, <3>2 DEF Sound
  <2> QED
    BY <1>4, <2>1, <2>2, <2>3, <2>5, <2>7, <2>8
<1>10. CASE PollFails(c)
  <2> DEFINE stale == cl.s.status = "running" /\ ~cl.sync.live
             z == [cl.sync EXCEPT !.at = "listed", !.again = TRUE]
             y == IF stale /\ ~cl.sync.again THEN z ELSE Idle
             st == IF stale /\ cl.sync.again THEN "ready" ELSE cl.s.status
  <2>1. /\ new = [cl EXCEPT !.sync = y, !.s.status = st]
        /\ UNCHANGED <<disk, run, live>> /\ cl.sync.at = "asked"
    BY <1>10 DEF PollFails, TypeOK
  <2>2. /\ z.at = "listed" /\ z.live = cl.sync.live
        /\ Idle.at = "idle" /\ ~Idle.live
    BY <1>3 DEF ClientState, Idle
  <2>3. (y.at = "idle" /\ ~y.live) \/ (y.at = "listed" /\ ~y.live /\ ~cl.sync.live)
    <3> HIDE DEF z
    <3>1. CASE stale /\ ~cl.sync.again
      <4>1. y = z
        BY <3>1
      <4> QED
        BY <2>2, <3>1, <4>1
    <3>2. CASE ~(stale /\ ~cl.sync.again)
      <4>1. y = Idle
        BY <3>2
      <4> QED
        BY <2>2, <4>1
    <3> QED
      BY <3>1, <3>2
  <2> HIDE DEF y, st
  <2>4. /\ new.s.view = cl.s.view /\ new.s.durable = cl.s.durable /\ new.s.shown = cl.s.shown
        /\ new.batch = cl.batch /\ new.cursor = cl.cursor /\ new.sync = y
    BY <1>3, <2>1 DEF ClientState
  <2>5. PullInv(cl)'
    BY <2>3, <2>4 DEF PullInv, Pulling
  <2>6. ASSUME Follows(cl), "unlisted" \notin left'.happened PROVE Abreast(cl)' \/ Overtaken(cl)'
    <3>1. Abreast(cl) => Abreast(cl)'
      BY <2>1, <2>3, <2>4 DEF Abreast, Past, Begun, Pulling
    <3>2. Overtaken(cl) => Overtaken(cl)'
      BY <2>1, <2>3, <2>4 DEF Overtaken, Past, Begun, Pulling
    <3> QED
      BY <1>2, <2>6, <3>1, <3>2 DEF Sound
  <2> QED
    BY <1>4, <2>1, <2>3, <2>4, <2>5, <2>6
<1>11. CASE PollMerges(c)
  <2>1. PICK st \in {"ready", "running", "completed"} :
             client' = [client EXCEPT ![c] = [Pulled(cl) EXCEPT !.sync = Idle, !.s.status = st]]
    BY <1>11, MergedClient
  <2>2. Pulled(cl) \in ClientState /\ Pulled(cl).batch = cl.batch
    BY <1>3, PulledIsTyped
  <2>3. new = [Pulled(cl) EXCEPT !.sync = Idle, !.s.status = st]
    BY <2>1 DEF TypeOK
  <2>4. /\ new.s.view = Pulled(cl).s.view /\ new.s.durable = Pulled(cl).s.durable
        /\ new.s.shown = Pulled(cl).s.shown /\ new.batch = cl.batch
        /\ new.cursor = Pulled(cl).cursor /\ new.sync = Idle
    BY <2>2, <2>3 DEF ClientState
  <2>5. Idle.at = "idle" /\ ~Idle.live
    BY DEF Idle
  <2>6. PullInv(cl)'
    BY <2>4, <2>5 DEF PullInv, Pulling
  <2>7. cl.sync.at = "answered" /\ UNCHANGED <<disk, run, live>> /\ Pulling(cl)
    BY <1>11 DEF PollMerges, Pulling
  <2>8. CASE cl.sync.had
    <3>1. Pulled(cl) = Extended(cl) /\ cl.s.view = "open"
      BY <1>2, <2>7, <2>8 DEF Pulled, PullInv
    <3>2. new.s.view = "open" /\ new.s.durable = cl.s.durable
      <4>1. Slice(cl) \in Seq(Events)
        BY <1>3, PullIsTyped
      <4>2. Applied(cl, Slice(cl)).s.view = cl.s.view /\ Applied(cl, Slice(cl)).s.durable = cl.s.durable
        BY <1>3, <4>1, AppliedProperties
      <4> QED
        BY <1>3, <2>4, <3>1, <4>2, PulledIsTyped
    <3>5. ASSUME Follows(cl)
          PROVE  Ordered(cl)'
      BY <2>4, <2>5, <2>7, <2>8, <3>1, <3>5, <1>2, MergeKeepsOrder DEF Ordered
    <3>3. ASSUME Follows(cl), "unlisted" \notin left'.happened
          PROVE  /\ IsPrefix(cl.s.shown, disk.log)'
                 /\ Abreast(cl)' \/ Overtaken(cl)'
      <4>1. CASE /\ Extended(cl).s.shown = cl.sync.got.log
                 /\ Extended(cl).cursor = Len(cl.sync.got.log)
                 /\ IsPrefix(cl.sync.got.log, disk.log)
        BY <2>4, <2>5, <2>7, <3>1, <4>1 DEF Abreast, Pulling
      <4>2. CASE /\ Extended(cl).s.shown = cl.s.shown
                 /\ Past /\ Extended(cl).cursor > 0
        BY <1>2, <2>4, <2>5, <2>7, <3>1, <3>3, <4>2 DEF Overtaken, Pulling, Sound, Past, Begun
      <4> QED
        BY <1>2, <2>7, <2>8, <3>3, <4>1, <4>2, MergeExtends
    <3>4. Follows(cl)' <=> Follows(cl)
      BY <3>1, <3>2 DEF Follows
    <3> QED
      BY <1>2, <2>4, <2>6, <2>7, <3>1, <3>2, <3>3, <3>4, <3>5 DEF Sound, Begun
  <2>9. CASE ~cl.sync.had
    <3>1. Pulled(cl) = Joined(cl) /\ cl.s.view = "none" /\ cl.sync.live /\ cl.sync.need /\ Begun
      BY <1>2, <2>7, <2>9 DEF Pulled, PullInv
    <3>2. IsPrefix(cl.sync.got.log, disk.log)
      BY <1>2, <2>7, <3>1 DEF PullInv
    <3>3. new.s.view = "open" /\ new.s.durable = cl.sync.got.snap.any
      BY <1>3, <2>4, <3>1, JoinedIsTyped
    <3>4. ASSUME Follows(cl)'
          PROVE  Begun' /\ Ordered(cl)' /\ IsPrefix(cl.s.shown, disk.log)' /\ Abreast(cl)'
      <4>1. ~cl.sync.got.snap.any
        BY <3>3, <3>4 DEF Follows
      <4>2. new.s.shown = cl.sync.got.log /\ new.cursor = Len(cl.sync.got.log)
        BY <1>3, <2>4, <3>1, <4>1, JoinedIsTyped
      <4>3. cl.sync.got.log \in Seq(Events) /\ disk.log \in Seq(Events)
        BY <1>3 DEF ClientState, Fetched
      <4>4. /\ Len(cl.sync.got.log) \in 0..Len(disk.log)
            /\ Selects(cl.sync.got.log, disk.log, Len(cl.sync.got.log))
        BY <3>2, <4>3, LenProperties, PrefixMeans, PrefixIsASelection
      <4>5. Ordered(cl)'
        BY <2>4, <2>5, <2>7, <4>2, <4>4 DEF Ordered
      <4> QED
        BY <2>4, <2>5, <2>7, <3>1, <3>2, <4>2, <4>5 DEF Abreast, Pulling, Begun
    <3> QED
      BY <1>2, <2>4, <2>6, <2>7, <3>1, <3>3, <3>4 DEF Sound, Begun, Follows
  <2> QED
    BY <2>8, <2>9
<1> QED
  BY <1>5, <1>6, <1>7, <1>8, <1>9, <1>10, <1>11 DEF Poll

(* The invariant from one state to the next.                                *)
LEMMA FollowStep ==
    ASSUME TypeOK, CountTrailsLog, FollowInv, [Next]_vars
    PROVE  FollowInv'
<1>1. HostInv'
  BY HostStep DEF FollowInv
<1>2. SUFFICES ASSUME "delete" \notin left'.happened, NEW c \in Clients
               PROVE  Sound(c)'
  BY <1>1 DEF FollowInv
<1>3. /\ TypeOK' /\ IsPrefix(disk.log, disk'.log) /\ (Begun => Begun') /\ (Past => Past')
      /\ left.happened \subseteq left'.happened /\ Sound(c)
  BY <1>2, StepFacts
<1>4. ASSUME client'[c] = client[c], run' = run \/ c # Owner
      PROVE  Sound(c)'
  BY <1>3, <1>4, UntouchedStaysSound
<1>5. CASE UNCHANGED vars
  BY <1>4, <1>5 DEF vars
<1>6. CASE OpenWorkspace \/ Launch \/ Emit \/ FlushStream \/ ProcessExits \/ HarnessSettles \/ HarnessPersists
  BY <1>2, <1>6, OwnerStepsAreSound
<1>7. ASSUME NEW i \in Sent, Handle(i) \/ HandleAppend(i, FALSE) \/ Lose(i)
      PROVE  Sound(c)'
  <2>1. UNCHANGED <<client, run>>
    BY <1>7 DEF Handle, HandleRegister, HandleDelete, HandlerChecks, HandleAppend, HandleSnapshot, Lose
  <2> QED
    BY <1>4, <2>1
<1>8. ASSUME NEW d \in Clients,
             \/ TimerFires(d) \/ DeleteSession(d) \/ Reload(d)
             \/ (\E listed \in BOOLEAN : PollLists(d, listed)) \/ Poll(d) \/ PollFails(d)
      PROVE  Sound(c)'
  <2>1. ~DeleteSession(d)
    BY <1>2, DisturbIsTyped DEF DeleteSession
  <2>2. CASE d = c
    BY <1>2, <1>8, <2>1, <2>2, ClientStepsAreSound
  <2>3. CASE d # c
    <3>1. client'[c] = client[c]
      BY <1>8, <2>3 DEF TimerFires, DeleteSession, Reload, PollLists, Poll, PollAsks, PollReads,
                        PollMerges, PollFails, TypeOK
    <3>2. run' = run \/ c # Owner
      BY <1>8, <2>3 DEF TimerFires, DeleteSession, Reload, PollLists, Poll, PollAsks, PollReads,
                        PollMerges, PollFails
    <3> QED
      BY <1>4, <3>1, <3>2
  <2> QED
    BY <2>2, <2>3
<1> QED
  BY <1>5, <1>6, <1>7, <1>8 DEF Next

(* The invariant holds at first.                                            *)
LEMMA FollowInit == Init => FollowInv
<1> SUFFICES ASSUME Init PROVE FollowInv
  OBVIOUS
<1>1. HostInv
  BY EmptySeq DEF Init, HostInv, Sent, NoDisk
<1>2. ASSUME NEW c \in Clients PROVE Sound(c)
  BY DEF Init, Sound, NewClient, NoView, Idle, Follows, PullInv, Pulling
<1> QED
  BY <1>1, <1>2 DEF FollowInv

(* The cursor of pulledCount and the merge keep a client that follows from the log alone in the
   order of the log: it shows no event twice and none before an earlier one, for any number of
   clients and polls, and whatever requests, lists of live processes, counts or pages are lost. *)
THEOREM FollowersKeepOrder == Spec => []FollowerKeepsOrder
<1>1. TypeOK /\ FollowInv => FollowerKeepsOrder
  <2>1. SUFFICES ASSUME TypeOK, FollowInv, "delete" \notin left.happened, NEW c \in Clients,
                        Follows(client[c])
                 PROVE  Selects(client[c].s.shown, disk.log, Len(disk.log))
    BY DEF FollowerKeepsOrder
  <2>2. /\ client[c].s.shown \in Seq(Events) /\ disk.log \in Seq(Events) /\ Len(disk.log) \in Nat
        /\ IsPrefix(disk.log, disk.log)
    BY <2>1, LenProperties, PrefixOfItself DEF TypeOK, ClientState, Fetched
  <2>3. /\ client[c].cursor \in Nat /\ client[c].cursor <= Len(disk.log)
        /\ Selects(client[c].s.shown, disk.log, client[c].cursor)
    BY <2>1, <2>2 DEF FollowInv, Sound, Ordered
  <2> QED
    BY <2>2, <2>3, SelectionOfLonger
<1> QED
  BY <1>1, FollowInit, FollowStep, TypeCorrect, CountAlwaysTrails, PTL DEF Spec

(* As long as every list of live processes can be had, it leaves nothing out either: what it shows
   is the beginning of the log. With a failed list the next live poll starts after a gap. *)
THEOREM FollowersShowPrefixes == Spec => []FollowerShowsPrefix
<1>1. FollowInv /\ FollowerKeepsOrder => FollowerShowsPrefix
  BY DEF FollowInv, FollowerShowsPrefix, Sound, Follows
<1> QED
  BY <1>1, FollowInit, FollowStep, TypeCorrect, CountAlwaysTrails, FollowersKeepOrder, PTL DEF Spec
=============================================================================
