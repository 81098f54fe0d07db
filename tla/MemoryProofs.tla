---------------------------- MODULE MemoryProofs ----------------------------
(***************************************************************************)
(* What TLAPS proves of MemoryHost, for any claims, calls and turns, any   *)
(* failures of the store or of the transport, crashes and restarts with    *)
(* the other provider: the host implements the contract of PersonalMemory, *)
(* and an outage of the remote provider is never silent.                   *)
(***************************************************************************)
EXTENDS MemoryHost, FiniteSetTheorems, TLAPS

\* Folding the stream into claims, filtering a sequence, listing what to append.
F == INSTANCE Folding WITH Op <- LAMBDA none, m, e : Fold(m, e)
K == INSTANCE Folding WITH Op <- LAMBDA S, kept, e : Kept(S, kept, e)
A == INSTANCE Folding WITH Op <- LAMBDA before, events, c : AndRecorded(before, events, c)

-----------------------------------------------------------------------------
(* Types *)

Marks == {"healthy", "degraded", "unavailable"}
ClaimEvents == {Recorded(c) : c \in Ids} \union {Superseded(c) : c \in Ids}
               \union {Retracted(c) : c \in Ids} \union {Consolidated}
Healths == [type : {"health"}, id : {None}, from : Marks, to : Marks]
Events == ClaimEvents \union Healths

\* No entry occurs twice.
Once(s) == \A i, j \in DOMAIN s : s[i] = s[j] => i = j

\* A projection: the order lists claims that were recorded, each once.
Claims == {m \in [status : [Ids -> Provider!Statuses], order : Seq(Ids)] :
             /\ Once(m.order)
             /\ \A i \in DOMAIN m.order : m.status[m.order[i]] # "none"}

Writing == {"appending", "folding"}
Places == {"idle", "absent", "asking", "sent", "probing", "queued", "deriving",
           "done", "failed", "skipped", "lost"} \union Writing

Shape ==
  /\ log \in Seq(Events) /\ claims \in Claims /\ plan \in Seq(ClaimEvents)
  /\ up \in BOOLEAN /\ provider \in {"embedded", "remote"}
  /\ tail \in Seq(Ops) /\ target \in [Ops -> Ids \union {None}] /\ pc \in [Ops -> Places]
  /\ failures \in Nat /\ outbox \in Seq(Healths) /\ born \in Nat /\ born <= Len(log)

-----------------------------------------------------------------------------
(* The inductive invariant *)

\* The embedded host serves the replay of its stream, which may be the plan ahead.
Stored == \E o \in Ops : pc[o] = "folding"
Projected == up /\ provider = "embedded" =>
               Replay(log) = IF Stored THEN FoldLeft(Fold, claims, plan) ELSE claims

\* Without a remote provider at work there is no outage to tell of.
Quiet == ~up \/ provider = "embedded" =>
           outbox = <<>> /\ failures = 0 /\ ~unrecorded

\* Only the call in front is writing, and what it writes is what it would plan now.
InFront ==
  \A o \in Ops : pc[o] \in Writing =>
     /\ up /\ provider = "embedded" /\ tail # <<>> /\ Head(tail) = o
     /\ plan = Plan(o) /\ plan # <<>> /\ ~Throws(o)

\* Every change in a sequence of health events starts where the last one ended.
Told(told, now) ==
  /\ \A i \in DOMAIN told : /\ told[i].from = IF i = 1 THEN "healthy" ELSE told[i - 1].to
                            /\ told[i].to # told[i].from
  /\ now = IF told = <<>> THEN "healthy" ELSE told[Len(told)].to

Recording == /\ published = Breaker
             /\ (provider = "remote" /\ up /\ ~unrecorded) =>
                   SubSeq(log, born + 1, Len(log)) \in Seq(Healths) /\ Told(Life, Breaker)

MInv == Projected /\ Quiet /\ InFront /\ Recording
-----------------------------------------------------------------------------
(* Events and projections *)

LEMMA FoldsAre ==
    ASSUME NEW m, NEW t
    PROVE  FoldLeft(Fold, m, t) = F!Folding(None, m, t)
BY DEF F!Folding, FoldLeft, F!FoldLeft, MapThenFoldSet, F!MapThenFoldSet, Max, F!Max

\* What an event does to a projection.
LEMMA FoldSteps ==
    ASSUME NEW m \in Claims, NEW c \in Ids
    PROVE  /\ Fold(m, Recorded(c)) \in Claims
           /\ Fold(m, Recorded(c)).status = [m.status EXCEPT ![c] = "active"]
           /\ Fold(m, Superseded(c)) \in Claims
           /\ Fold(m, Superseded(c)).status =
                 IF m.status[c] = "active" THEN [m.status EXCEPT ![c] = "superseded"] ELSE m.status
           /\ Fold(m, Retracted(c)) \in Claims
           /\ m.status[c] # "none" =>
                 Fold(m, Retracted(c)).status = [m.status EXCEPT ![c] = "retracted"]
<1>1. /\ m.status \in [Ids -> Provider!Statuses] /\ m.order \in Seq(Ids) /\ Once(m.order)
      /\ \A i \in DOMAIN m.order : m.status[m.order[i]] # "none"
      /\ m = [status |-> m.status, order |-> m.order]
  BY DEF Claims
<1>2. ASSUME NEW s \in {"active", "superseded", "retracted"}
      PROVE  [m.status EXCEPT ![c] = s] \in [Ids -> Provider!Statuses]
  BY <1>1, <1>2 DEF Provider!Statuses
<1>3. ASSUME NEW s \in {"superseded", "retracted"}
      PROVE  /\ [m EXCEPT !.status[c] = s] \in Claims
             /\ [m EXCEPT !.status[c] = s].status = [m.status EXCEPT ![c] = s]
  <2> DEFINE status == [m.status EXCEPT ![c] = s]
             n == [m EXCEPT !.status[c] = s]
  <2>1. n = [status |-> status, order |-> m.order]
    BY <1>1
  <2>2. status \in [Ids -> Provider!Statuses] /\ \A d \in Ids : status[d] = "none" => m.status[d] = "none"
    BY <1>1, <1>2
  <2> HIDE DEF status, n
  <2>3. n \in Claims /\ n.status = status
    BY <1>1, <2>1, <2>2 DEF Claims
  <2>4. QED  BY <2>3 DEF status, n
<1>4. /\ Fold(m, Recorded(c)) \in Claims
      /\ Fold(m, Recorded(c)).status = [m.status EXCEPT ![c] = "active"]
  <2> DEFINE status == [m.status EXCEPT ![c] = "active"]
             order == IF m.status[c] = "none" THEN Append(m.order, c) ELSE m.order
  <2>1. Fold(m, Recorded(c)) = [status |-> status, order |-> order]
    BY DEF Fold, Recorded
  <2>2. status \in [Ids -> Provider!Statuses] /\ \A d \in Ids : status[d] = "none" => m.status[d] = "none"
        /\ status[c] # "none"
    BY <1>1, <1>2
  <2>3. /\ order \in Seq(Ids) /\ Once(order)
        /\ \A i \in DOMAIN order : order[i] = c \/ m.status[order[i]] # "none"
    <3>1. CASE m.status[c] = "none"
      <4>1. order = Append(m.order, c)
        BY <3>1
      <4> HIDE DEF order
      <4>2. /\ order \in Seq(Ids) /\ DOMAIN order = 1 .. (Len(m.order) + 1)
            /\ order[Len(m.order) + 1] = c /\ DOMAIN m.order = 1 .. Len(m.order)
            /\ \A i \in DOMAIN m.order : order[i] = m.order[i]
            /\ Len(m.order) \in Nat
        BY <1>1, <4>1
      <4>3. \A i \in DOMAIN order : i \in DOMAIN m.order \/ i = Len(m.order) + 1
        BY <4>2
      <4>4. Once(order)
        BY <1>1, <3>1, <4>2, <4>3 DEF Once
      <4>5. QED  BY <1>1, <4>2, <4>3, <4>4
    <3>2. CASE m.status[c] # "none"
      BY <1>1, <3>2
    <3>3. QED  BY <3>1, <3>2
  <2> HIDE DEF status, order
  <2>4. \A i \in DOMAIN order : status[order[i]] # "none"
    BY <2>2, <2>3
  <2> DEFINE n == [status |-> status, order |-> order]
  <2>5. n \in Claims /\ n.status = status
    BY <2>2, <2>3, <2>4 DEF Claims
  <2>6. QED  BY <2>1, <2>5 DEF status
<1>5. Fold(m, Superseded(c)) = IF m.status[c] = "active" THEN [m EXCEPT !.status[c] = "superseded"] ELSE m
  BY DEF Fold, Superseded
<1>6. Fold(m, Retracted(c)) = IF m.status[c] # "none" THEN [m EXCEPT !.status[c] = "retracted"] ELSE m
  BY DEF Fold, Retracted
<1>7. QED  BY <1>3, <1>4, <1>5, <1>6

\* The other events leave the projection alone.
LEMMA FoldIdles ==
    ASSUME NEW m
    PROVE  Fold(m, Consolidated) = m /\ \A e \in Healths : Fold(m, e) = m
BY DEF Fold, Consolidated, Healths

LEMMA FoldType ==
    ASSUME NEW m \in Claims, NEW e \in Events
    PROVE  Fold(m, e) \in Claims
BY FoldSteps, FoldIdles DEF Events, ClaimEvents

LEMMA FoldedType ==
    ASSUME NEW m \in Claims, NEW t \in Seq(Events)
    PROVE  F!Folding(None, m, t) \in Claims
BY FoldType, F!FoldsInto

LEMMA EmptyType == Empty \in Claims
<1> DEFINE none == << >>
           status == [c \in Ids |-> "none"]
<1>1. none \in Seq(Ids) /\ DOMAIN none = {}
  OBVIOUS
<1>2. status \in [Ids -> Provider!Statuses]
  BY DEF Provider!Statuses
<1>3. Empty = [status |-> status, order |-> none]
  BY DEF Empty
<1> HIDE DEF none, status
<1>4. QED  BY <1>1, <1>2, <1>3 DEF Claims, Once

\* One event more, and a sequence of events more.
LEMMA ReplayGrows ==
    ASSUME NEW s \in Seq(Events)
    PROVE  /\ Replay(s) \in Claims
           /\ \A e \in Events : Replay(Append(s, e)) = Fold(Replay(s), e)
           /\ \A t \in Seq(Events) : Replay(s \o t) = FoldLeft(Fold, Replay(s), t)
<1>1. \A u : Replay(u) = F!Folding(None, Empty, u)
  BY FoldsAre DEF Replay
<1>2. Replay(s) \in Claims
  BY <1>1, EmptyType, FoldedType
<1>3. ASSUME NEW e \in Events
      PROVE  Replay(Append(s, e)) = Fold(Replay(s), e)
  <2>1. F!Folding(None, Empty, Append(s, e)) = Fold(F!Folding(None, Empty, s), e)
    BY F!FoldsOneMore
  <2>2. QED  BY <1>1, <2>1
<1>4. ASSUME NEW t \in Seq(Events)
      PROVE  Replay(s \o t) = FoldLeft(Fold, Replay(s), t)
  <2>1. F!Folding(None, Empty, s \o t) = F!Folding(None, F!Folding(None, Empty, s), t)
    BY F!FoldsInTurn
  <2>2. QED  BY <1>1, <2>1, FoldsAre
<1>5. QED  BY <1>2, <1>3, <1>4

Recordings(new, gone) == {Recorded(c) : c \in new} \union {Superseded(c) : c \in gone}
                         \union {Consolidated}

\* The claims that come are new to the projection, those that go are active.
Fits(status, new, gone) ==
  (\A c \in new : status[c] = "none") /\ (\A c \in gone : status[c] = "active")

\* A sequence of events tells of each of them.
TellsAll(s, new, gone) ==
  /\ \A c \in new : \E k \in DOMAIN s : s[k] = Recorded(c)
  /\ \A c \in gone : \E k \in DOMAIN s : s[k] = Superseded(c)

Changed(status, new, gone) ==
  [c \in Ids |-> CASE c \in new -> "active" [] c \in gone -> "superseded" [] OTHER -> status[c]]

\* What a sequence of recordings and supersessions makes of a projection, whatever its
\* order, if it tells of every claim at least once.
LEMMA EventsTell ==
    ASSUME NEW m \in Claims, NEW new \in SUBSET Ids, NEW gone \in SUBSET Ids,
           Fits(m.status, new, gone), NEW s \in Seq(Recordings(new, gone)), TellsAll(s, new, gone)
    PROVE  FoldLeft(Fold, m, s).status = Changed(m.status, new, gone)
<1> DEFINE D == Recordings(new, gone)
           U == {a \in Claims : \A c \in Ids :
                   /\ c \notin new \union gone => a.status[c] = m.status[c]
                   /\ c \in gone => a.status[c] \in {"active", "superseded"}}
           Has(c, s1) == {a \in U : a.status[c] = s1}
           r == F!Folding(None, m, s)
<1>0. (\A c \in new : m.status[c] = "none") /\ (\A c \in gone : m.status[c] = "active")
  BY DEF Fits
<1>1. new \intersect gone = {}
  BY <1>0
<1>2. \A e \in D : \/ \E c \in new : e = Recorded(c)
                   \/ \E c \in gone : e = Superseded(c)
                   \/ e = Consolidated
  BY DEF Recordings
<1>3. ASSUME NEW a \in U, NEW c \in new
      PROVE  /\ Fold(a, Recorded(c)) \in Claims
             /\ Fold(a, Recorded(c)).status[c] = "active"
             /\ \A d \in Ids : d # c => Fold(a, Recorded(c)).status[d] = a.status[d]
  <2>1. a \in Claims /\ a.status \in [Ids -> Provider!Statuses] /\ c \in Ids
    BY DEF Claims
  <2>2. /\ Fold(a, Recorded(c)) \in Claims
        /\ Fold(a, Recorded(c)).status = [a.status EXCEPT ![c] = "active"]
    BY <2>1, FoldSteps
  <2>3. QED  BY <2>1, <2>2
<1>4. ASSUME NEW a \in U, NEW c \in gone
      PROVE  /\ Fold(a, Superseded(c)) \in Claims
             /\ Fold(a, Superseded(c)).status[c] = "superseded"
             /\ \A d \in Ids : d # c => Fold(a, Superseded(c)).status[d] = a.status[d]
  <2>1. a \in Claims /\ a.status \in [Ids -> Provider!Statuses] /\ c \in Ids
        /\ a.status[c] \in {"active", "superseded"}
    BY DEF Claims
  <2>2. /\ Fold(a, Superseded(c)) \in Claims
        /\ Fold(a, Superseded(c)).status =
              IF a.status[c] = "active" THEN [a.status EXCEPT ![c] = "superseded"] ELSE a.status
    BY <2>1, FoldSteps
  <2>3. QED  BY <2>1, <2>2
<1>5. \A a : Fold(a, Consolidated) = a
  BY FoldIdles
<1>6. ASSUME NEW a \in U, NEW e \in D
      PROVE  Fold(a, e) \in U
  <2>1. ASSUME NEW c \in new, e = Recorded(c) PROVE Fold(a, e) \in U
    BY <1>1, <1>3, <2>1
  <2>2. ASSUME NEW c \in gone, e = Superseded(c) PROVE Fold(a, e) \in U
    BY <1>1, <1>4, <2>2
  <2>3. QED  BY <1>2, <1>5, <2>1, <2>2
<1>7. m \in U
  BY <1>0
<1>8. s \in Seq(D) /\ DOMAIN s = 1 .. Len(s)
  OBVIOUS
<1>9. r \in U
  <2> HIDE DEF U, D
  <2>1. QED  BY <1>6, <1>7, <1>8, F!FoldsInto
<1>10. ASSUME NEW c \in new PROVE r.status[c] = "active"
  <2> DEFINE T == Has(c, "active")
  <2>1. PICK k \in 1 .. Len(s) : s[k] = Recorded(c)
    BY <1>8 DEF TellsAll
  <2>2. \A a \in U : Fold(a, s[k]) \in T
    BY <1>3, <1>6, <1>8, <2>1
  <2>3. ASSUME NEW a \in T, NEW e \in D PROVE Fold(a, e) \in T
    <3>1. Fold(a, e) \in U
      BY <1>6
    <3>2. Fold(a, e).status[c] = "active"
      BY <1>1, <1>2, <1>3, <1>4, <1>5
    <3>3. QED  BY <3>1, <3>2
  <2> HIDE DEF U, D, T
  <2>4. r \in T
    BY <1>6, <1>7, <1>8, <2>2, <2>3, F!FoldsReach
  <2>5. QED  BY <2>4 DEF T
<1>11. ASSUME NEW c \in gone PROVE r.status[c] = "superseded"
  <2> DEFINE T == Has(c, "superseded")
  <2>1. PICK k \in 1 .. Len(s) : s[k] = Superseded(c)
    BY <1>8 DEF TellsAll
  <2>2. \A a \in U : Fold(a, s[k]) \in T
    BY <1>4, <1>6, <1>8, <2>1
  <2>3. ASSUME NEW a \in T, NEW e \in D PROVE Fold(a, e) \in T
    <3>1. Fold(a, e) \in U
      BY <1>6
    <3>2. Fold(a, e).status[c] = "superseded"
      BY <1>1, <1>2, <1>3, <1>4, <1>5
    <3>3. QED  BY <3>1, <3>2
  <2> HIDE DEF U, D, T
  <2>4. r \in T
    BY <1>6, <1>7, <1>8, <2>2, <2>3, F!FoldsReach
  <2>5. QED  BY <2>4 DEF T
<1>12. r.status \in [Ids -> Provider!Statuses]
       /\ \A c \in Ids : c \notin new \union gone => r.status[c] = m.status[c]
  BY <1>9 DEF Claims
<1> HIDE DEF r
<1>13. r.status = Changed(m.status, new, gone)
  <2>1. \A c \in Ids : r.status[c] = Changed(m.status, new, gone)[c]
    BY <1>1, <1>10, <1>11, <1>12 DEF Changed
  <2>2. QED  BY <1>12, <2>1, Zenon DEF Changed
<1>14. QED  BY <1>13, FoldsAre DEF r

-----------------------------------------------------------------------------
(* Sequences a plan is made of *)

LEMMA SelectIs ==
    ASSUME NEW s, NEW S
    PROVE  Select(s, S) = K!Folding(S, << >>, s)
BY DEF Select, K!Folding, FoldLeft, K!FoldLeft, MapThenFoldSet, K!MapThenFoldSet, Max, K!Max

LEMMA SelectType ==
    ASSUME NEW D, NEW s \in Seq(D), NEW S
    PROVE  Select(s, S) \in Seq(D \intersect S)
<1>1. \A kept \in Seq(D \intersect S) : \A e \in D : Kept(S, kept, e) \in Seq(D \intersect S)
  BY DEF Kept
<1>2. << >> \in Seq(D \intersect S)
  OBVIOUS
<1>3. K!Folding(S, << >>, s) \in Seq(D \intersect S)
  BY <1>1, <1>2, K!FoldsInto
<1>4. QED  BY <1>3, SelectIs

\* What is selected from entries that differ differs.
LEMMA SelectOnce ==
    ASSUME NEW D, NEW s \in Seq(D), Once(s), NEW S
    PROVE  Once(Select(s, S))
<1> DEFINE In(r, n) == /\ Once(r)
                       /\ \A i \in DOMAIN r : \E j \in 1 .. n : r[i] = s[j]
           Q == [n \in 0 .. Len(s) |-> {r \in Seq(D) : In(r, n)}]
           none == << >>
<1>1. Len(s) \in Nat /\ DOMAIN s = 1 .. Len(s) /\ none \in Seq(D) /\ DOMAIN none = {}
  OBVIOUS
<1>2. none \in Q[0]
  BY <1>1 DEF Once
<1>3. ASSUME NEW n \in 1 .. Len(s), NEW r \in Q[n - 1]
      PROVE  Kept(S, r, s[n]) \in Q[n]
  <2>1. n \in Nat /\ n - 1 \in 0 .. Len(s) /\ n \in 0 .. Len(s) /\ s[n] \in D
    OBVIOUS
  <2>2. r \in Seq(D) /\ In(r, n - 1)
    BY <2>1
  <2>3. CASE s[n] \notin S
    <3>1. Kept(S, r, s[n]) = r
      BY <2>3 DEF Kept
    <3>2. \A j \in 1 .. (n - 1) : j \in 1 .. n
      BY <2>1
    <3>3. In(r, n)
      BY <2>2, <3>2
    <3>4. QED  BY <2>1, <2>2, <3>1, <3>3
  <2>4. CASE s[n] \in S
    <3> DEFINE u == Append(r, s[n])
    <3>1. Kept(S, r, s[n]) = u
      BY <2>4 DEF Kept
    <3>2. /\ u \in Seq(D) /\ Len(r) \in Nat /\ DOMAIN r = 1 .. Len(r)
          /\ DOMAIN u = 1 .. (Len(r) + 1) /\ u[Len(r) + 1] = s[n]
          /\ \A i \in DOMAIN r : u[i] = r[i]
      BY <2>1, <2>2
    <3> HIDE DEF u
    <3>3. \A i \in DOMAIN u : i \in DOMAIN r \/ i = Len(r) + 1
      BY <3>2
    <3>4. \A i \in DOMAIN r : \E j \in 1 .. (n - 1) : u[i] = s[j] /\ j # n /\ j \in 1 .. n
      BY <2>1, <2>2, <3>2
    <3>5. \A i \in DOMAIN r : u[i] # s[n]
      <4>1. \A j \in DOMAIN s : s[j] = s[n] => j = n
        BY <1>1, <2>1 DEF Once
      <4>2. QED  BY <1>1, <2>1, <3>4, <4>1
    <3>6. Once(u)
      BY <2>2, <3>2, <3>3, <3>5 DEF Once
    <3>7. \A i \in DOMAIN u : \E j \in 1 .. n : u[i] = s[j]
      BY <2>1, <3>2, <3>3, <3>4
    <3>8. QED  BY <2>1, <3>1, <3>2, <3>6, <3>7
  <2>5. QED  BY <2>3, <2>4
<1>4. Q[Len(s)] = {r \in Seq(D) : In(r, Len(s))}
  BY <1>1
<1>5. K!Folding(S, << >>, s) \in Q[Len(s)]
  <2>1. none \in Q[0]
    BY <1>2
  <2> HIDE DEF Q, none
  <2>2. K!Folding(S, none, s) \in Q[Len(s)]
    BY <1>3, <2>1, K!FoldsAlong
  <2>3. QED  BY <2>2 DEF none
<1>6. QED  BY <1>4, <1>5, SelectIs

\* A finite set listed as a sequence: all of it and nothing else.
LEMMA SetListed ==
    ASSUME NEW S, IsFiniteSet(S)
    PROVE  /\ SetToSeq(S) \in Seq(S)
           /\ \A c \in S : \E k \in DOMAIN SetToSeq(S) : SetToSeq(S)[k] = c
<1> DEFINE n == Cardinality(S)
           f == SetToSeq(S)
<1>1. n \in Nat /\ Bijection(1 .. n, S) # {}
  BY FS_CardinalityType DEF ExistsBijection
<1>2. \E g \in [1 .. n -> S] : IsInjective(g)
  BY <1>1 DEF Bijection, Injection
<1> HIDE DEF n
<1>3. f \in [1 .. n -> S] /\ IsInjective(f)
  BY <1>2, Zenon DEF SetToSeq, n
<1> HIDE DEF f
<1>4. f \in Injection(1 .. n, S)
  BY <1>3 DEF Injection
<1>5. Cardinality(1 .. n) = n
  <2>1. 1 \in Int /\ n \in Int
    BY <1>1
  <2>2. Cardinality(1 .. n) = IF 1 > n THEN 0 ELSE n - 1 + 1
    BY <2>1, FS_Interval
  <2>3. QED  BY <1>1, <2>2
<1>6. f \in Surjection(1 .. n, S)
  BY <1>4, <1>5, FS_Injection DEF n
<1>7. \A c \in S : \E k \in 1 .. n : f[k] = c
  BY <1>6 DEF Surjection
<1>8. QED  BY <1>1, <1>3, <1>7 DEF f

-----------------------------------------------------------------------------
(* What a plan makes of the claims *)

\* A step of the contract, on the statuses before and after.
Moves(before, after) ==
  \/ \E new, gone \in SUBSET Ids :
       new # {} /\ Fits(before, new, gone) /\ after = Changed(before, new, gone)
  \/ \E gone \in SUBSET Ids :
       /\ gone # {} /\ Fits(before, {}, gone) /\ after = Changed(before, {}, gone)
       /\ \A g \in gone : \E kept \in Ids \ gone : before[kept] = "active" /\ Says[kept] = Says[g]
  \/ \E c \in Ids : before[c] # "none" /\ after = [before EXCEPT ![c] = "retracted"]

LEMMA RecordingsType ==
    ASSUME NEW new \in SUBSET Ids, NEW gone \in SUBSET Ids
    PROVE  Recordings(new, gone) \subseteq ClaimEvents /\ ClaimEvents \subseteq Events
BY DEF Recordings, ClaimEvents, Events

LEMMA SeqOfMore ==
    ASSUME NEW D, NEW E, D \subseteq E, NEW s \in Seq(D)
    PROVE  s \in Seq(E)
OBVIOUS

\* #ingestNow records every new claim and supersedes every active one it corrects.
LEMMA IngestTells ==
    ASSUME claims \in Claims, NEW ids \in Seq(Ids), NEW over \in SUBSET Ids, IsFiniteSet(over)
    PROVE  /\ Ingested(ids, over) \in Seq(ClaimEvents)
           /\ Ingested(ids, over) # << >> =>
                Moves(claims.status, FoldLeft(Fold, claims, Ingested(ids, over)).status)
<1> DEFINE fresh == Select(ids, {c \in Ids : claims.status[c] = "none"})
           gone == over \intersect Active(claims)
           retired == SetToSeq(gone)
           before == [i \in DOMAIN retired |-> Superseded(retired[i])]
           new == {fresh[i] : i \in DOMAIN fresh}
           D == Recordings(new, gone)
           s == A!Folding(before, << >>, fresh)
<1>1. Ingested(ids, over) = s
  BY DEF Ingested, A!Folding, FoldLeft, A!FoldLeft, MapThenFoldSet, A!MapThenFoldSet, Max, A!Max
<1>2. fresh \in Seq(Ids \intersect {c \in Ids : claims.status[c] = "none"})
  BY SelectType
<1>3. /\ new \in SUBSET Ids /\ \A c \in new : claims.status[c] = "none"
      /\ fresh \in Seq(new) /\ DOMAIN fresh = 1 .. Len(fresh)
  <2> HIDE DEF fresh
  <2>1. QED  BY <1>2
<1>4. gone \in SUBSET Ids /\ IsFiniteSet(gone) /\ \A c \in gone : claims.status[c] = "active"
  BY FS_Subset DEF Active
<1>5. retired \in Seq(gone) /\ \A c \in gone : \E k \in DOMAIN retired : retired[k] = c
  BY <1>4, SetListed
<1>6. before \in Seq(D) /\ \A c \in gone : \E k \in DOMAIN before : before[k] = Superseded(c)
  <2> HIDE DEF retired, gone, new
  <2>1. DOMAIN retired = 1 .. Len(retired) /\ Len(retired) \in Nat
        /\ \A i \in DOMAIN retired : Superseded(retired[i]) \in D
    BY <1>5 DEF Recordings
  <2>2. QED  BY <1>5, <2>1
<1>7. \A c \in new : Recorded(c) \in D
  BY DEF Recordings
<1> HIDE DEF fresh, gone, retired, before, new, D, s
<1>8. ASSUME NEW a \in Seq(D), NEW c \in new
      PROVE  /\ AndRecorded(before, a, c) \in Seq(D)
             /\ AndRecorded(before, a, c) = a \o Append(before, Recorded(c))
             /\ Append(before, Recorded(c)) \in Seq(D)
  BY <1>6, <1>7 DEF AndRecorded
<1> DEFINE Tells(e) == {a \in Seq(D) : \E k \in DOMAIN a : a[k] = e}
<1>9. ASSUME NEW e, NEW a \in Tells(e), NEW c \in new
      PROVE  AndRecorded(before, a, c) \in Tells(e)
  <2> DEFINE b == Append(before, Recorded(c))
  <2>1. b \in Seq(D) /\ AndRecorded(before, a, c) = a \o b /\ a \o b \in Seq(D) /\ a \in Seq(D)
    BY <1>8
  <2>2. PICK k \in DOMAIN a : a[k] = e
    OBVIOUS
  <2> HIDE DEF b
  <2>3. k \in DOMAIN (a \o b) /\ (a \o b)[k] = a[k]
    BY <2>1
  <2>4. QED  BY <2>1, <2>2, <2>3
<1>10. ASSUME NEW a \in Seq(D), NEW c \in new, NEW e,
              \E k \in DOMAIN Append(before, Recorded(c)) : Append(before, Recorded(c))[k] = e
       PROVE  AndRecorded(before, a, c) \in Tells(e)
  <2> DEFINE b == Append(before, Recorded(c))
  <2>1. b \in Seq(D) /\ AndRecorded(before, a, c) = a \o b /\ a \o b \in Seq(D) /\ a \in Seq(D)
    BY <1>8
  <2>2. PICK k \in DOMAIN b : b[k] = e
    BY <1>10
  <2> HIDE DEF b
  <2>3. Len(a) + k \in DOMAIN (a \o b) /\ (a \o b)[Len(a) + k] = b[k]
    BY <2>1
  <2>4. QED  BY <2>1, <2>2, <2>3
<1>11. << >> \in Seq(D)
  OBVIOUS
<1>12. s \in Seq(D)
  BY <1>3, <1>8, <1>11, A!FoldsInto DEF s
<1>13. ASSUME NEW k \in 1 .. Len(fresh), NEW e,
              \E i \in DOMAIN Append(before, Recorded(fresh[k])) :
                 Append(before, Recorded(fresh[k]))[i] = e
       PROVE  s \in Tells(e)
  <2>1. fresh[k] \in new
    BY <1>3
  <2> DEFINE T == Tells(e)
             U == Seq(D)
             none == << >>
  <2>2. \A a \in U : AndRecorded(before, a, fresh[k]) \in T
    <3> HIDE DEF Tells
    <3>1. QED  BY <1>10, <1>13, <2>1
  <2>3. \A a \in T : \A c \in new : AndRecorded(before, a, c) \in T
    <3> HIDE DEF Tells
    <3>1. QED  BY <1>9
  <2>4. none \in U /\ \A a \in U : \A c \in new : AndRecorded(before, a, c) \in U
    BY <1>8, <1>11
  <2> HIDE DEF T, U, none
  <2>5. A!Folding(before, none, fresh) \in T
    BY <1>3, <2>2, <2>3, <2>4, A!FoldsReach
  <2>6. QED  BY <2>5 DEF s, T, none
<1>14. ASSUME NEW c \in new PROVE \E k \in DOMAIN s : s[k] = Recorded(c)
  <2>1. PICK k \in 1 .. Len(fresh) : fresh[k] = c
    BY <1>3 DEF new
  <2>2. Len(before) + 1 \in DOMAIN Append(before, Recorded(c))
        /\ Append(before, Recorded(c))[Len(before) + 1] = Recorded(c)
    BY <1>6, <1>7
  <2>3. QED  BY <1>13, <2>1, <2>2
<1>15. ASSUME NEW c \in gone, new # {} PROVE \E k \in DOMAIN s : s[k] = Superseded(c)
  <2>1. PICK k \in 1 .. Len(fresh) : TRUE
    BY <1>3, <1>15 DEF new
  <2>2. PICK i \in DOMAIN before : before[i] = Superseded(c)
    BY <1>6
  <2>3. fresh[k] \in new /\ Recorded(fresh[k]) \in D
    BY <1>3, <1>7
  <2>4. /\ i \in DOMAIN Append(before, Recorded(fresh[k]))
        /\ Append(before, Recorded(fresh[k]))[i] = Superseded(c)
    BY <1>6, <2>2, <2>3
  <2>5. QED  BY <1>13, <2>4
<1>16. s # << >> => new # {}
  <2>1. SUFFICES ASSUME new = {} PROVE s = << >>
    OBVIOUS
  <2>2. fresh = << >>
    BY <1>3, <2>1
  <2>3. QED  BY <2>2, A!FoldsNothing DEF s
<1>17. s # << >> => Moves(claims.status, FoldLeft(Fold, claims, s).status)
  <2>1. SUFFICES ASSUME new # {}
                 PROVE  Moves(claims.status, FoldLeft(Fold, claims, s).status)
    BY <1>16
  <2>2. s \in Seq(Recordings(new, gone)) /\ TellsAll(s, new, gone) /\ Fits(claims.status, new, gone)
    BY <1>3, <1>4, <1>12, <1>14, <1>15, <2>1 DEF D, TellsAll, Fits
  <2>3. FoldLeft(Fold, claims, s).status = Changed(claims.status, new, gone)
    BY <1>3, <1>4, <2>2, EventsTell
  <2>4. QED  BY <1>3, <1>4, <2>1, <2>2, <2>3 DEF Moves
<1>18. s \in Seq(ClaimEvents)
  <2>1. D \subseteq ClaimEvents
    BY <1>3, <1>4, RecordingsType DEF D
  <2>2. QED  BY <1>12, <2>1, SeqOfMore
<1>19. QED  BY <1>1, <1>17, <1>18

\* #consolidateNow supersedes the later of two active claims that say the same: the
\* first to say it is never among them.
LEMMA MergeTells ==
    ASSUME claims \in Claims
    PROVE  /\ Merged \in Seq(ClaimEvents)
           /\ Merged # << >> => Moves(claims.status, FoldLeft(Fold, claims, Merged).status)
<1> DEFINE active == Active(claims)
           live == Select(claims.order, active)
           Later(c) == \E i, j \in DOMAIN live :
                          live[j] = c /\ i < j /\ Says[live[i]] = Says[c]
           S == {c \in Ids : Later(c)}
           dups == Duplicates
           gone == {dups[i] : i \in DOMAIN dups}
           events == [i \in DOMAIN dups |-> Superseded(dups[i])]
           none == {}
<1>1. live \in Seq(Ids \intersect active) /\ Once(live) /\ active \subseteq Ids
  BY SelectType, SelectOnce DEF Claims, Active
<1>2. dups \in Seq((Ids \intersect active) \intersect S)
  <2>1. dups = Select(live, S)
    BY DEF Duplicates
  <2> HIDE DEF S, live, dups
  <2>2. QED  BY <1>1, <2>1, SelectType
<1>3. /\ gone \in SUBSET Ids /\ dups \in Seq(gone) /\ DOMAIN dups = 1 .. Len(dups)
      /\ gone \subseteq active /\ gone \subseteq S
  <2> HIDE DEF dups, S, active
  <2>1. QED  BY <1>2
<1>4. CASE dups = << >>
  <2> DEFINE nothing == << >>
  <2>1. Merged = nothing
    BY <1>4 DEF Merged
  <2>2. nothing \in Seq(ClaimEvents)
    OBVIOUS
  <2>3. QED  BY <2>1, <2>2
<1>5. CASE dups # << >>
  <2>1. Merged = Append(events, Consolidated)
    BY <1>5 DEF Merged
  <2>2. gone # {} /\ none \in SUBSET Ids
    <3> HIDE DEF dups
    <3>1. dups[1] \in gone
      BY <1>3, <1>5
    <3>2. QED  BY <3>1
  <2>3. \A c \in gone : Superseded(c) \in Recordings(none, gone)
    BY DEF Recordings
  <2>4. Consolidated \in Recordings(none, gone)
    BY DEF Recordings
  <2> DEFINE D == Recordings(none, gone)
  <2>5. events \in Seq(D) /\ Len(events) = Len(dups)
    <3> HIDE DEF D, dups
    <3>1. \A i \in DOMAIN dups : Superseded(dups[i]) \in D
      BY <2>3 DEF D
    <3> HIDE DEF gone
    <3>2. QED  BY <1>3, <3>1
  <2>6. \A c \in gone : \E k \in DOMAIN events : events[k] = Superseded(c)
    OBVIOUS
  <2> HIDE DEF D, events
  <2>7. Merged \in Seq(D) /\ \A k \in DOMAIN events : k \in DOMAIN Merged /\ Merged[k] = events[k]
    BY <2>1, <2>4, <2>5 DEF D
  <2>8. Merged \in Seq(Recordings(none, gone)) /\ TellsAll(Merged, none, gone)
    BY <2>6, <2>7 DEF D, TellsAll
  <2>9. Fits(claims.status, none, gone)
    BY <1>3 DEF Fits, Active
  <2> HIDE DEF gone, dups, S, live, none
  <2>10. FoldLeft(Fold, claims, Merged).status = Changed(claims.status, none, gone)
    BY <1>3, <2>2, <2>8, <2>9, EventsTell
  <2>11. ASSUME NEW g \in gone
         PROVE  \E kept \in Ids \ gone : claims.status[kept] = "active" /\ Says[kept] = Says[g]
    <3> DEFINE I == {i \in DOMAIN live : Says[live[i]] = Says[g]}
    <3>1. \A c \in gone : Later(c)
      BY <1>3 DEF S
    <3>2. I # {}
      BY <3>1
    <3>3. PICK i \in I : \A j \in I : i <= j
      <4>1. I \in SUBSET Nat
        BY <1>1
      <4> HIDE DEF I
      <4>2. QED  BY <3>2, <4>1, F!LeastNumber
    <3>4. /\ live[i] \in Ids /\ live[i] \in active /\ Says[live[i]] = Says[g]
          /\ DOMAIN live \subseteq Nat /\ i \in DOMAIN live
      BY <1>1
    <3>5. live[i] \notin gone
      <4>1. SUFFICES ASSUME live[i] \in gone PROVE FALSE
        OBVIOUS
      <4>2. PICK m, n \in DOMAIN live : live[n] = live[i] /\ m < n /\ Says[live[m]] = Says[live[i]]
        BY <3>1, <4>1
      <4>3. n = i
        BY <1>1, <3>4, <4>2 DEF Once
      <4>4. m \in I
        BY <3>4, <4>2
      <4>5. i <= m /\ m < i
        BY <3>3, <4>2, <4>3, <4>4
      <4>6. QED  BY <3>4, <4>5
    <3>6. QED  BY <3>4, <3>5 DEF Active
  <2>12. Moves(claims.status, FoldLeft(Fold, claims, Merged).status)
    BY <1>3, <2>2, <2>9, <2>10, <2>11 DEF Moves, none
  <2>13. Merged \in Seq(ClaimEvents)
    BY <1>3, <2>2, <2>8, RecordingsType, SeqOfMore
  <2>14. QED  BY <2>12, <2>13
<1>6. QED  BY <1>4, <1>5

\* What a call that does not throw plans is a step of the contract.
LEMMA PlanTells ==
    ASSUME claims \in Claims, target \in [Ops -> Ids \union {None}], NEW o \in Ops
    PROVE  /\ Plan(o) \in Seq(ClaimEvents)
           /\ Plan(o) # << >> /\ ~Throws(o) =>
                Moves(claims.status, FoldLeft(Fold, claims, Plan(o)).status)
<1>0. /\ Asks[o].kind \in {"ingest", "retract", "consolidate", "turn", "recall"}
      /\ Asks[o].ids \in Seq(Ids) /\ (Asks[o].kind = "retract" => Asks[o].ids # <<>>)
      /\ Asks[o].over \subseteq Ids /\ IsFiniteSet(Asks[o].over)
  BY MemoryAssumption
<1>1. CASE Asks[o].kind \in {"ingest", "turn"}
  <2>1. Plan(o) = Ingested(Asks[o].ids, Supersedes(o))
    BY <1>1 DEF Plan
  <2>2. Supersedes(o) \in SUBSET Ids /\ IsFiniteSet(Supersedes(o))
    <3>1. CASE target[o] # None
      BY <3>1, FS_Singleton DEF Supersedes
    <3>2. CASE target[o] = None
      BY <1>0, <3>2 DEF Supersedes
    <3>3. QED  BY <3>1, <3>2
  <2>3. QED  BY <1>0, <2>1, <2>2, IngestTells
<1>2. CASE Asks[o].kind = "retract"
  <2> DEFINE c == Asks[o].ids[1]
             none == << >>
             e == Retracted(c)
  <2>1. Plan(o) = << e >> /\ << e >> = Append(none, e)
    BY <1>2 DEF Plan
  <2>2. c \in Ids
    BY <1>0, <1>2
  <2>3. e \in ClaimEvents /\ none \in Seq(ClaimEvents)
    BY <2>2 DEF ClaimEvents
  <2>4. Plan(o) \in Seq(ClaimEvents)
    BY <2>1, <2>3
  <2>5. FoldLeft(Fold, claims, Append(none, e)) = Fold(claims, e)
    <3>1. F!Folding(None, claims, none) = claims
      BY F!FoldsNothing
    <3> HIDE DEF none, e
    <3>2. F!Folding(None, claims, Append(none, e)) = Fold(F!Folding(None, claims, none), e)
      BY <2>3, F!FoldsOneMore
    <3>3. QED  BY <3>1, <3>2, FoldsAre
  <2>6. ASSUME ~Throws(o)
        PROVE  Moves(claims.status, FoldLeft(Fold, claims, Plan(o)).status)
    <3>1. claims.status[c] # "none"
      BY <1>2, <2>6 DEF Throws
    <3> HIDE DEF c, none
    <3>2. Fold(claims, e).status = [claims.status EXCEPT ![c] = "retracted"]
      BY <2>2, <3>1, FoldSteps
    <3> HIDE DEF e
    <3>3. FoldLeft(Fold, claims, Plan(o)).status = [claims.status EXCEPT ![c] = "retracted"]
      BY <2>1, <2>5, <3>2
    <3>4. QED  BY <2>2, <3>1, <3>3 DEF Moves
  <2>7. QED  BY <2>4, <2>6
<1>3. CASE Asks[o].kind = "consolidate"
  <2>1. Plan(o) = Merged
    BY <1>3 DEF Plan
  <2>2. QED  BY <2>1, MergeTells
<1>4. CASE Asks[o].kind = "recall"
  <2> DEFINE none == << >>
  <2>1. Plan(o) = none
    BY <1>4 DEF Plan
  <2>2. none \in Seq(ClaimEvents)
    OBVIOUS
  <2>3. QED  BY <2>1, <2>2
<1>5. QED  BY <1>0, <1>1, <1>2, <1>3, <1>4

-----------------------------------------------------------------------------
(* The breaker and what it tells *)

LEMMA StatusIs ==
    ASSUME NEW n \in Nat
    PROVE  Status(n) \in Marks /\ Status(0) = "healthy"
BY HostAssumption DEF Status, Marks

\* A change of status, told behind the others.
LEMMA ToldOneMore ==
    ASSUME NEW told \in Seq(Healths), NEW now \in Marks, Told(told, now), NEW s \in Marks, s # now,
           NEW e, e = [type |-> "health", id |-> None, from |-> now, to |-> s]
    PROVE  e \in Healths /\ Told(Append(told, e), s)
<1> DEFINE u == Append(told, e)
           n == Len(told)
<1>1. e \in Healths /\ e.from = now /\ e.to = s
  BY DEF Healths
<1>2. /\ u \in Seq(Healths) /\ Len(u) = n + 1 /\ u[n + 1] = e /\ n \in Nat
      /\ \A i \in 1 .. n : u[i] = told[i]
      /\ DOMAIN u = 1 .. (n + 1) /\ DOMAIN told = 1 .. n
  BY <1>1
<1>3. now = IF n = 0 THEN "healthy" ELSE told[n].to
  <2>1. n = 0 <=> told = << >>
    OBVIOUS
  <2>2. QED  BY <2>1 DEF Told
<1>4. ASSUME NEW i \in DOMAIN u
      PROVE  /\ u[i].from = IF i = 1 THEN "healthy" ELSE u[i - 1].to
             /\ u[i].to # u[i].from
  <2>1. CASE i \in 1 .. n
    <3>1. told[i].from = (IF i = 1 THEN "healthy" ELSE told[i - 1].to) /\ told[i].to # told[i].from
      BY <1>2, <2>1 DEF Told
    <3>2. i # 1 => i - 1 \in 1 .. n
      BY <1>2, <2>1
    <3>3. QED  BY <1>2, <2>1, <3>1, <3>2
  <2>2. CASE i = n + 1
    <3>1. u[i] = e
      BY <1>2, <2>2
    <3>2. i = 1 <=> n = 0
      BY <1>2, <2>2
    <3>3. n # 0 => i - 1 = n /\ u[i - 1] = told[n]
      <4>1. i - 1 = n /\ (n # 0 => n \in 1 .. n)
        BY <1>2, <2>2
      <4> HIDE DEF n, u
      <4>2. n # 0 => u[n] = told[n]
        BY <1>2, <4>1
      <4>3. QED  BY <4>1, <4>2
    <3>4. QED  BY <1>1, <1>3, <3>1, <3>2, <3>3
  <2>3. QED  BY <1>2, <2>1, <2>2
<1>5. u # << >> /\ u[Len(u)].to = s
  BY <1>1, <1>2
<1> HIDE DEF u
<1>6. Told(u, s)
  BY <1>4, <1>5 DEF Told
<1>7. QED  BY <1>1, <1>6 DEF u

\* The remote provider goes on: the breaker stands still or publishes its new status.
LEMMA RemoteKeeps ==
    ASSUME Shape, MInv, provider = "remote", up, UnchangedLocal,
           UNCHANGED <<provider, born, unrecorded>>,
           pc' \in [Ops -> Places], \A o \in Ops : pc'[o] \in Writing => pc[o] \in Writing,
           OnSuccess \/ OnFailure \/ UNCHANGED <<failures, published, outbox>>
    PROVE  Shape' /\ MInv'
<1>1. /\ log' = log /\ up' = up /\ claims' = claims /\ tail' = tail /\ plan' = plan
      /\ target' = target /\ provider' = provider /\ born' = born /\ unrecorded' = unrecorded
  BY DEF UnchangedLocal
<1>2. \A o \in Ops : pc[o] \notin Writing
  BY DEF MInv, InFront
<1>3. InFront' /\ Projected' /\ Quiet'
  BY <1>1, <1>2 DEF InFront, Projected, Quiet
<1>4. published = Breaker /\ failures \in Nat /\ Breaker \in Marks /\ outbox \in Seq(Healths)
  BY StatusIs DEF MInv, Recording, Breaker, Shape
<1> DEFINE told == SubSeq(log, born + 1, Len(log))
           e == [type |-> "health", id |-> None, from |-> published, to |-> published']
<1>5. \/ failures' = failures /\ published' = published /\ outbox' = outbox
      \/ /\ failures' \in Nat /\ published' = Status(failures')
         /\ outbox' = IF published' = published THEN outbox ELSE Append(outbox, e)
  <2>1. CASE OnSuccess
    BY <2>1, StatusIs DEF OnSuccess, Publish
  <2>2. CASE OnFailure
    BY <1>4, <2>2 DEF OnFailure, Publish
  <2>3. QED  BY <2>1, <2>2
<1>6. /\ failures' \in Nat /\ published' = Breaker' /\ published' \in Marks
      /\ \/ published' = published /\ outbox' = outbox
         \/ published' # published /\ outbox' = Append(outbox, e)
  BY <1>4, <1>5, StatusIs DEF Breaker
<1>7. outbox' \in Seq(Healths)
  <2>1. published \in Marks /\ published' \in Marks
    BY <1>4, <1>6
  <2>2. e \in Healths
    BY <2>1 DEF Healths
  <2> HIDE DEF e
  <2>3. QED  BY <1>4, <1>6, <2>2
<1>8. Shape'
  BY <1>1, <1>6, <1>7 DEF Shape
<1>9. ASSUME ~unrecorded
      PROVE  told \in Seq(Healths) /\ Told((told \o outbox)', published')
  <2>1. told \in Seq(Healths) /\ Told(told \o outbox, published) /\ told' = told
    BY <1>1, <1>4, <1>9 DEF MInv, Recording, Life
  <2> HIDE DEF told
  <2>2. CASE published' = published /\ outbox' = outbox
    BY <2>1, <2>2
  <2>3. CASE published' # published /\ outbox' = Append(outbox, e)
    <3> DEFINE all == told \o outbox
    <3>1. all \in Seq(Healths)
      BY <1>4, <2>1
    <3> HIDE DEF all
    <3>2. e \in Healths /\ Told(Append(all, e), published')
      BY <1>4, <1>6, <2>1, <2>3, <3>1, ToldOneMore DEF all
    <3> HIDE DEF e
    <3>3. told \o Append(outbox, e) = Append(all, e)
      BY <1>4, <2>1, <3>2 DEF all
    <3>4. QED  BY <2>1, <2>3, <3>2, <3>3
  <2>4. QED  BY <1>6, <2>1, <2>2, <2>3
<1>10. Recording'
  BY <1>1, <1>6, <1>9 DEF Recording, Life
<1>11. QED  BY <1>3, <1>8, <1>10 DEF MInv

LEMMA RemoteStepKeeps ==
    ASSUME Shape, MInv, NEW o \in Ops, Begin(o) \/ Ask(o) \/ AskHealth(o) \/ Answer(o)
    PROVE  Shape' /\ MInv'
<1> DEFINE To(x) == pc' = [pc EXCEPT ![o] = x]
           Rest == {"asking", "sent", "probing", "done", "skipped", "failed"}
<1>1. \/ pc' = pc
      \/ \E x \in Rest : To(x)
  BY DEF Begin, Ask, AskHealth, Answer, Answered, Failed, HealthAnswered, HealthFailed, Ends, GoOn
<1>2. /\ pc' \in [Ops -> Places]
      /\ \A q \in Ops : pc'[q] \in Writing => pc[q] \in Writing
  BY <1>1 DEF Shape, Places, Writing
<1>3. /\ provider = "remote" /\ up /\ UnchangedLocal /\ UNCHANGED <<provider, born, unrecorded>>
      /\ OnSuccess \/ OnFailure \/ UNCHANGED <<failures, published, outbox>>
  BY DEF Begin, Ask, AskHealth, Answer, Answered, Failed, HealthAnswered, HealthFailed, remoteVars
<1>4. QED  BY <1>2, <1>3, RemoteKeeps

\* The end of a sequence grows with it.
LEMMA SubSeqGrows ==
    ASSUME NEW D, NEW s \in Seq(D), NEW e \in D, NEW k \in 1 .. (Len(s) + 1)
    PROVE  SubSeq(Append(s, e), k, Len(s) + 1) = Append(SubSeq(s, k, Len(s)), e)
<1> DEFINE n == Len(s)
           u == Append(s, e)
           a == SubSeq(u, k, n + 1)
           b == SubSeq(s, k, n)
           c == Append(b, e)
<1>1. n \in Nat /\ k \in Nat /\ 0 < k /\ k <= n + 1
  OBVIOUS
<1>2. u \in Seq(D) /\ Len(u) = n + 1 /\ u[n + 1] = e /\ \A i \in 1 .. n : u[i] = s[i]
  OBVIOUS
<1> HIDE DEF u
<1>3. /\ a = [i \in 1 .. (n + 1 - k + 1) |-> u[i + k - 1]]
      /\ b = [i \in 1 .. (n - k + 1) |-> s[i + k - 1]]
  BY <1>1, <1>2
<1>4. b \in Seq(D) /\ Len(b) = n - k + 1
  <2>1. \A i \in 1 .. (n - k + 1) : i + k - 1 \in 1 .. n /\ s[i + k - 1] \in D
    BY <1>1
  <2>2. n - k + 1 \in Nat
    BY <1>1
  <2>3. QED  BY <1>3, <2>1, <2>2
<1>5. /\ c \in Seq(D) /\ Len(c) = n - k + 2 /\ c[n - k + 2] = e
      /\ \A i \in 1 .. (n - k + 1) : c[i] = b[i]
  <2> HIDE DEF b
  <2>1. QED  BY <1>1, <1>4
<1>6. a \in Seq(D) /\ Len(a) = n - k + 2
  <2> DEFINE m == n - k + 2
  <2>1. \A i \in 1 .. m : i + k - 1 \in 1 .. (n + 1) /\ u[i + k - 1] \in D
    BY <1>1, <1>2
  <2>2. m \in Nat /\ n + 1 - k + 1 = m
    BY <1>1
  <2>3. a = [i \in 1 .. m |-> u[i + k - 1]]
    BY <1>3, <2>2
  <2> HIDE DEF m
  <2>4. a \in [1 .. m -> D]
    BY <2>1, <2>3
  <2> HIDE DEF a
  <2>5. a \in Seq(D) /\ Len(a) = m
    BY <2>2, <2>4
  <2>6. QED  BY <2>5 DEF m
<1>7. \A i \in 1 .. (n - k + 2) : a[i] = c[i]
  <2>1. SUFFICES ASSUME NEW i \in 1 .. (n - k + 2) PROVE a[i] = c[i]
    OBVIOUS
  <2>2. n - k + 2 = n + 1 - k + 1 /\ a[i] = u[i + k - 1]
    BY <1>1, <1>3
  <2>3. CASE i \in 1 .. (n - k + 1)
    <3>1. i + k - 1 \in 1 .. n
      BY <1>1, <2>3
    <3>2. b[i] = s[i + k - 1]
      BY <1>3, <2>3
    <3>3. QED  BY <1>2, <1>5, <2>2, <2>3, <3>1, <3>2
  <2>4. CASE i = n - k + 2
    <3>1. i + k - 1 = n + 1
      BY <1>1, <2>4
    <3>2. QED  BY <1>2, <1>5, <2>2, <2>4, <3>1
  <2>5. i \in 1 .. (n - k + 1) \/ i = n - k + 2
    BY <1>1
  <2>6. QED  BY <2>3, <2>4, <2>5
<1> HIDE DEF a, b, c
<1>8. a = c
  BY <1>5, <1>6, <1>7
<1>9. QED  BY <1>8 DEF a, b, c, u, n

LEMMA RecordHealthKeeps ==
    ASSUME Shape, MInv, RecordHealth
    PROVE  Shape' /\ MInv'
<1> DEFINE h == Head(outbox)
           told == SubSeq(log, born + 1, Len(log))
           n == Len(log)
<1>1. /\ outbox # << >> /\ log' = Append(log, h) /\ outbox' = Tail(outbox) /\ up
      /\ UNCHANGED <<up, claims, tail, plan, target, pc, provider, failures, published, born, unrecorded>>
  BY DEF RecordHealth
<1>2. provider = "remote"
  BY <1>1 DEF MInv, Quiet, Shape
<1>3. outbox \in Seq(Healths) /\ h \in Healths /\ Tail(outbox) \in Seq(Healths) /\ log \in Seq(Events)
      /\ h \in Events
  BY <1>1 DEF Shape, Events
<1> HIDE DEF h
<1>4. Shape'
  <2>1. log' \in Seq(Events) /\ Len(log') = n + 1 /\ n \in Nat
    BY <1>1, <1>3
  <2>2. born' <= Len(log') /\ born' \in Nat
    BY <1>1, <2>1 DEF Shape
  <2>3. QED  BY <1>1, <1>3, <2>1, <2>2 DEF Shape
<1>5. Projected' /\ Quiet' /\ InFront'
  BY <1>1, <1>2 DEF MInv, Projected, Quiet, InFront
<1>6. ASSUME ~unrecorded
      PROVE  SubSeq(log, born + 1, Len(log))' \in Seq(Healths) /\ Life' = Life
  <2>1. told \in Seq(Healths)
    BY <1>1, <1>2, <1>6 DEF MInv, Recording
  <2>2. born \in Nat /\ born <= n /\ n \in Nat /\ Len(log') = n + 1 /\ born' = born
    BY <1>1, <1>3 DEF Shape
  <2>3. SubSeq(Append(log, h), born + 1, n + 1) = Append(told, h)
    <3>1. born + 1 \in 1 .. (n + 1)
      BY <2>2
    <3>2. QED  BY <1>3, <3>1, SubSeqGrows
  <2>4. SubSeq(log, born + 1, Len(log))' = Append(told, h)
    BY <1>1, <2>2, <2>3
  <2> HIDE DEF told
  <2>5. Append(told, h) \in Seq(Healths) /\ Append(told, h) \o Tail(outbox) = told \o outbox
    BY <1>1, <1>3, <2>1 DEF h
  <2>6. QED  BY <1>1, <2>4, <2>5 DEF Life, told
<1>7. Recording'
  BY <1>1, <1>2, <1>6 DEF MInv, Recording, Breaker
<1>8. QED  BY <1>4, <1>5, <1>7 DEF MInv

LEMMA HealthRefusedKeeps ==
    ASSUME Shape, MInv, HealthRefused
    PROVE  Shape' /\ MInv'
<1>1. /\ outbox # << >> /\ outbox' = Tail(outbox) /\ up /\ unrecorded'
      /\ UNCHANGED <<log, up, claims, tail, plan, target, pc, provider, failures, published, born>>
  BY DEF HealthRefused
<1>2. provider = "remote"
  BY <1>1 DEF MInv, Quiet, Shape
<1>3. Shape'
  BY <1>1 DEF Shape
<1>4. Projected' /\ Quiet' /\ InFront'
  BY <1>1, <1>2 DEF MInv, Projected, Quiet, InFront
<1>5. Recording'
  BY <1>1 DEF MInv, Recording, Breaker
<1>6. QED  BY <1>3, <1>4, <1>5 DEF MInv

\* A host without health events to tell of: nothing was told, nothing is queued.
LEMMA NothingTold ==
    ASSUME NEW s \in Seq(Events)
    PROVE  /\ SubSeq(s, Len(s) + 1, Len(s)) = << >>
           /\ << >> \in Seq(Healths) /\ << >> \o << >> = << >>
           /\ Told(<< >>, Status(0))
<1>1. SubSeq(s, Len(s) + 1, Len(s)) = << >>
  OBVIOUS
<1>2. Told(<< >>, Status(0))
  BY StatusIs DEF Told
<1>3. QED  BY <1>1, <1>2

LEMMA HostCrashKeeps ==
    ASSUME Shape, MInv, HostCrash
    PROVE  Shape' /\ MInv'
<1> DEFINE none == << >>
<1>1. /\ up' = FALSE /\ claims' = Empty /\ tail' = none /\ plan' = none /\ outbox' = none
      /\ pc' = [o \in Ops |-> IF pc[o] \in Pending THEN "lost" ELSE pc[o]]
      /\ failures' = 0 /\ published' = "healthy" /\ ~unrecorded'
      /\ UNCHANGED <<log, target, provider, born>>
  BY DEF HostCrash, Crash
<1>2. none \in Seq(Ops) /\ none \in Seq(ClaimEvents) /\ none \in Seq(Healths)
  OBVIOUS
<1>3. pc' \in [Ops -> Places] /\ \A o \in Ops : pc'[o] \notin Writing
  BY <1>1 DEF Shape, Places, Pending, Writing
<1>4. Shape'
  BY <1>1, <1>2, <1>3, EmptyType DEF Shape
<1>5. Projected' /\ Quiet' /\ InFront'
  BY <1>1, <1>3 DEF Projected, Quiet, InFront
<1>6. Recording'
  BY <1>1, StatusIs DEF Recording, Breaker
<1>7. QED  BY <1>4, <1>5, <1>6 DEF MInv

LEMMA RestartKeeps ==
    ASSUME Shape, MInv, Restart
    PROVE  Shape' /\ MInv'
<1>1. /\ ~up /\ up' /\ up' \in BOOLEAN /\ born' = Len(log) /\ provider' \in {"embedded", "remote"}
      /\ provider' = "embedded" => claims' = Replay(log)
      /\ claims' = Replay(log) \/ claims' = claims
      /\ UNCHANGED <<log, tail, plan, target, pc, failures, published, outbox, unrecorded>>
  <2>1. PICK p \in {"embedded", "remote"} :
           /\ provider' = p
           /\ IF p = "embedded" THEN Rebuild
              ELSE up' = TRUE /\ UNCHANGED <<log, claims, tail, plan, turns, target, pc, faults>>
    BY DEF Restart, Shape
  <2>2. QED  BY <2>1 DEF Restart, Rebuild
<1>2. outbox = << >> /\ failures = 0 /\ ~unrecorded /\ log \in Seq(Events) /\ Replay(log) \in Claims
  BY <1>1, ReplayGrows DEF MInv, Quiet, Shape
<1>3. Shape'
  BY <1>1, <1>2 DEF Shape
<1>4. Projected' /\ Quiet'
  <2>1. ~Stored'
    BY <1>1 DEF MInv, InFront, Stored, Writing
  <2>2. QED  BY <1>1, <1>2, <2>1 DEF Projected, Quiet
<1>5. InFront'
  BY <1>1 DEF MInv, InFront
<1>6. SubSeq(log, born + 1, Len(log))' = << >> /\ outbox' = << >> /\ Breaker' = Status(0)
  BY <1>1, <1>2, NothingTold DEF Breaker
<1>7. Recording'
  BY <1>1, <1>2, <1>6, NothingTold DEF MInv, Recording, Life, Breaker
<1>8. QED  BY <1>3, <1>4, <1>5, <1>7 DEF MInv

-----------------------------------------------------------------------------
(* The embedded provider *)

\* Ingested, of the projection it looks at.
IngestedInto(m, ids, over) ==
  LET fresh   == Select(ids, {c \in Ids : m.status[c] = "none"})
      retired == SetToSeq(over \cap Active(m))
      before  == [i \in DOMAIN retired |-> Superseded(retired[i])]
  IN  FoldLeft(LAMBDA events, c : AndRecorded(before, events, c), <<>>, fresh)

LEMMA IngestedIs == \A ids, over : Ingested(ids, over) = IngestedInto(claims, ids, over)
BY DEF Ingested, IngestedInto

\* What a call would append depends on the claims and on what the call corrects.
LEMMA PlanStays ==
    ASSUME claims' = claims, NEW o \in Ops, target'[o] = target[o]
    PROVE  Plan(o)' = Plan(o) /\ (Throws(o)' <=> Throws(o))
<1>1. Supersedes(o)' = Supersedes(o)
  BY DEF Supersedes
<1>2. \A ids, over : Ingested(ids, over)' = Ingested(ids, over)
  <2>1. (\A ids, over : Ingested(ids, over) = IngestedInto(claims, ids, over))'
    BY IngestedIs, PTL
  <2>2. QED  BY <2>1, IngestedIs
<1>3. Merged' = Merged
  BY DEF Merged, Duplicates
<1>4. QED  BY <1>1, <1>2, <1>3 DEF Plan, Throws, UnknownTarget

\* In a host with the embedded provider the remote one is silent.
LEMMA AsideKeeps ==
    ASSUME Shape, MInv, provider = "embedded", up' = up, UNCHANGED remoteVars
    PROVE  Quiet' /\ Recording'
BY DEF MInv, Quiet, Recording, Breaker, remoteVars

\* The running call is alone in front.
LEMMA OneInFront ==
    ASSUME Shape, MInv, NEW o \in Ops, tail # << >>, Head(tail) = o
    PROVE  \A q \in Ops : pc[q] \in Writing => q = o
BY DEF MInv, InFront

LEMMA JoinKeeps ==
    ASSUME Shape, MInv, NEW o \in Ops, provider = "embedded", UNCHANGED remoteVars,
           Call(o) \/ OnTurn(o)
    PROVE  Shape' /\ MInv'
<1>1. /\ UNCHANGED <<log, up, claims, plan, provider, failures, outbox, born>> /\ pc[o] \notin Writing
      /\ pc' = [pc EXCEPT ![o] = "queued"] \/ pc' = [pc EXCEPT ![o] = "deriving"]
      /\ tail' = Append(tail, o) \/ tail' = tail
      /\ target' = target
         \/ target' = [target EXCEPT ![o] = IF Asks[o].corrects THEN LatestPreference ELSE None]
  BY DEF Call, OnTurn, TurnCompleted, Derive, remoteVars, Writing
<1>2. LatestPreference \in Ids \union {None}
  <2> DEFINE live == Select(claims.order, Active(claims) \intersect Preferences)
  <2>1. claims.order \in Seq(Ids)
    BY DEF Shape, Claims
  <2>2. live \in Seq(Ids \intersect (Active(claims) \intersect Preferences))
    BY <2>1, SelectType
  <2> HIDE DEF live
  <2>3. live # << >> => Last(live) \in Ids
    BY <2>2 DEF Last
  <2>4. QED  BY <2>3 DEF LatestPreference, live
<1>3. target' \in [Ops -> Ids \union {None}] /\ \A q \in Ops : q # o => target'[q] = target[q]
  BY <1>1, <1>2 DEF Shape
<1>4. /\ pc' \in [Ops -> Places]
      /\ \A q \in Ops : pc'[q] \in Writing => q # o
      /\ \A q \in Ops : q # o => pc'[q] = pc[q]
      /\ pc'[o] \notin Writing
  BY <1>1 DEF Shape, Places, Writing
<1>5. tail' \in Seq(Ops) /\ (tail # << >> => tail' # << >> /\ Head(tail') = Head(tail))
  <2>1. tail \in Seq(Ops)
    BY DEF Shape
  <2>2. CASE tail' = tail
    BY <2>1, <2>2
  <2>3. CASE tail' = Append(tail, o)
    BY <2>1, <2>3
  <2>4. QED  BY <1>1, <2>2, <2>3
<1>6. Shape'
  BY <1>1, <1>3, <1>4, <1>5 DEF Shape
<1>7. ASSUME NEW q \in Ops, pc'[q] \in Writing
      PROVE  /\ up' /\ provider' = "embedded" /\ tail' # << >> /\ Head(tail') = q
             /\ plan' = Plan(q)' /\ plan' # << >> /\ ~Throws(q)'
  <2>1. target'[q] = target[q] /\ pc[q] \in Writing
    BY <1>3, <1>4, <1>7
  <2>2. /\ up /\ provider = "embedded" /\ tail # << >> /\ Head(tail) = q
        /\ plan = Plan(q) /\ plan # << >> /\ ~Throws(q)
    BY <2>1 DEF MInv, InFront
  <2>3. Plan(q)' = Plan(q) /\ (Throws(q)' <=> Throws(q))
    BY <1>1, <2>1, PlanStays
  <2>4. QED  BY <1>1, <1>5, <2>2, <2>3
<1>8. InFront' /\ Projected'
  <2>1. Stored' <=> Stored
    BY <1>1, <1>4 DEF Stored, Writing
  <2>2. QED  BY <1>1, <1>7, <2>1 DEF MInv, InFront, Projected
<1>9. QED  BY <1>1, <1>6, <1>8, AsideKeeps DEF MInv

\* A call in front that is not stored yet: nothing is.
LEMMA NoneStored ==
    ASSUME Shape, MInv, NEW o \in Ops, tail # << >>, Head(tail) = o, pc[o] # "folding"
    PROVE  ~Stored
BY OneInFront DEF Stored, Writing

LEMMA StartKeeps ==
    ASSUME Shape, MInv, NEW o \in Ops, provider = "embedded", UNCHANGED remoteVars, Start(o)
    PROVE  Shape' /\ MInv'
<1>1. /\ up /\ tail # << >> /\ Head(tail) = o /\ pc[o] = "queued"
      /\ UNCHANGED <<log, up, claims, target, provider, failures, outbox, born>>
  BY DEF Start, remoteVars
<1>2. \A q \in Ops : pc[q] \notin Writing
  BY <1>1, OneInFront DEF Writing
<1>3. ~Stored
  BY <1>1, NoneStored
<1>4. CASE plan' = plan /\ tail' = Tail(tail)
           /\ (pc' = [pc EXCEPT ![o] = "failed"] \/ pc' = [pc EXCEPT ![o] = "done"])
  <2>1. tail' \in Seq(Ops)
    BY <1>1, <1>4 DEF Shape
  <2>2. pc' \in [Ops -> Places] /\ \A q \in Ops : pc'[q] \notin Writing
    BY <1>2, <1>4 DEF Shape, Places, Writing
  <2>3. Shape' /\ InFront'
    BY <1>1, <1>4, <2>1, <2>2 DEF Shape, InFront
  <2>4. Projected'
    BY <1>1, <1>3, <2>2 DEF MInv, Projected, Stored, Writing
  <2>5. QED  BY <1>1, <2>3, <2>4, AsideKeeps DEF MInv
<1>5. CASE /\ plan' = Plan(o) /\ Plan(o) # << >> /\ ~Throws(o) /\ tail' = tail
           /\ pc' = [pc EXCEPT ![o] = "appending"]
  <2>1. /\ pc' \in [Ops -> Places] /\ \A q \in Ops : pc'[q] # "folding"
        /\ \A q \in Ops : pc'[q] \in Writing => q = o
    BY <1>1, <1>2, <1>5 DEF Shape, Places, Writing
  <2>2. Plan(o) \in Seq(ClaimEvents)
    BY PlanTells DEF Shape
  <2>3. Shape'
    BY <1>1, <1>5, <2>1, <2>2 DEF Shape
  <2>4. Plan(o)' = Plan(o) /\ (Throws(o)' <=> Throws(o))
    BY <1>1, PlanStays
  <2>5. InFront'
    BY <1>1, <1>5, <2>1, <2>4 DEF InFront
  <2>6. Projected'
    BY <1>1, <1>3, <2>1 DEF MInv, Projected, Stored
  <2>7. QED  BY <1>1, <2>3, <2>5, <2>6, AsideKeeps DEF MInv
<1>6. QED  BY <1>4, <1>5 DEF Start, Settled

\* Storing: what was planned on the replay of the stream is its replay's next.
LEMMA StoreKeeps ==
    ASSUME Shape, MInv, NEW o \in Ops, provider = "embedded", UNCHANGED remoteVars, Store(o)
    PROVE  Shape' /\ MInv'
<1>1. /\ up /\ tail # << >> /\ Head(tail) = o /\ pc[o] = "appending" /\ log' = log \o plan
      /\ pc' = [pc EXCEPT ![o] = "folding"]
      /\ UNCHANGED <<up, claims, tail, plan, target, provider, failures, outbox, born>>
  BY DEF Store, remoteVars
<1>2. log \in Seq(Events) /\ plan \in Seq(Events) /\ claims \in Claims
  <2>1. ClaimEvents \subseteq Events
    BY DEF Events
  <2>2. QED  BY <2>1, SeqOfMore DEF Shape
<1>3. log' \in Seq(Events) /\ born' \in Nat /\ born' <= Len(log')
  <2>1. Len(log \o plan) = Len(log) + Len(plan) /\ log \o plan \in Seq(Events)
        /\ Len(log) \in Nat /\ Len(plan) \in Nat
    BY <1>2
  <2>2. QED  BY <1>1, <2>1 DEF Shape
<1>4. /\ pc' \in [Ops -> Places] /\ pc'[o] = "folding"
      /\ \A q \in Ops : pc'[q] \in Writing => pc[q] \in Writing
  BY <1>1 DEF Shape, Places, Writing
<1>5. Shape'
  BY <1>1, <1>3, <1>4 DEF Shape
<1>6. Projected'
  <2>1. claims = Replay(log)
    BY <1>1, NoneStored DEF MInv, Projected
  <2>2. Replay(log') = FoldLeft(Fold, claims, plan)
    BY <1>1, <1>2, <2>1, ReplayGrows
  <2>3. Stored'
    BY <1>4 DEF Stored
  <2>4. QED  BY <1>1, <2>2, <2>3 DEF Projected
<1>7. InFront'
  <2>1. \A q \in Ops : Plan(q)' = Plan(q) /\ (Throws(q)' <=> Throws(q))
    BY <1>1, PlanStays
  <2>2. QED  BY <1>1, <1>4, <2>1 DEF MInv, InFront
<1>8. QED  BY <1>1, <1>5, <1>6, <1>7, AsideKeeps DEF MInv

\* Folding: the projection catches up with the stream.
LEMMA FoldKeeps ==
    ASSUME Shape, MInv, NEW o \in Ops, provider = "embedded", UNCHANGED remoteVars, FoldStored(o)
    PROVE  Shape' /\ MInv'
<1>1. /\ up /\ tail # << >> /\ Head(tail) = o /\ pc[o] = "folding"
      /\ claims' = FoldLeft(Fold, claims, plan) /\ plan' = << >> /\ tail' = Tail(tail)
      /\ pc' = [pc EXCEPT ![o] = "done"]
      /\ UNCHANGED <<log, up, target, provider, failures, outbox, born>>
  BY DEF FoldStored, Settled, remoteVars
<1>2. \A q \in Ops : pc'[q] \notin Writing
  BY <1>1, OneInFront DEF Shape, Writing
<1>3. claims' \in Claims
  <2>1. ClaimEvents \subseteq Events
    BY DEF Events
  <2>2. plan \in Seq(Events) /\ claims \in Claims
    BY <2>1, SeqOfMore DEF Shape
  <2>3. QED  BY <1>1, <2>2, FoldsAre, FoldedType
<1>4. plan' \in Seq(ClaimEvents) /\ tail' \in Seq(Ops) /\ pc' \in [Ops -> Places]
  <2>1. tail' \in Seq(Ops)
    BY <1>1 DEF Shape
  <2>2. << >> \in Seq(ClaimEvents)
    OBVIOUS
  <2>3. QED  BY <1>1, <2>1, <2>2 DEF Shape, Places
<1>5. Shape'
  BY <1>1, <1>3, <1>4 DEF Shape
<1>6. Projected'
  <2>1. Stored
    BY <1>1 DEF Stored
  <2>2. ~Stored'
    BY <1>2 DEF Stored, Writing
  <2>3. QED  BY <1>1, <2>1, <2>2 DEF MInv, Projected
<1>7. InFront'
  BY <1>2 DEF InFront
<1>8. QED  BY <1>1, <1>5, <1>6, <1>7, AsideKeeps DEF MInv

LEMMA RefusedKeeps ==
    ASSUME Shape, MInv, NEW o \in Ops, provider = "embedded", UNCHANGED remoteVars, AppendRefused(o)
    PROVE  Shape' /\ MInv'
<1>1. /\ up /\ tail # << >> /\ Head(tail) = o /\ pc[o] = "appending"
      /\ plan' = << >> /\ tail' = Tail(tail) /\ pc' = [pc EXCEPT ![o] = "failed"]
      /\ UNCHANGED <<log, up, claims, target, provider, failures, outbox, born>>
  BY DEF AppendRefused, Settled, remoteVars
<1>2. \A q \in Ops : pc'[q] \notin Writing
  BY <1>1, OneInFront DEF Shape, Writing
<1>3. plan' \in Seq(ClaimEvents) /\ tail' \in Seq(Ops) /\ pc' \in [Ops -> Places]
  <2>1. tail' \in Seq(Ops)
    BY <1>1 DEF Shape
  <2>2. << >> \in Seq(ClaimEvents)
    OBVIOUS
  <2>3. QED  BY <1>1, <2>1, <2>2 DEF Shape, Places
<1>4. Shape'
  BY <1>1, <1>3 DEF Shape
<1>5. Projected'
  <2>1. ~Stored /\ ~Stored'
    BY <1>1, <1>2, NoneStored DEF Stored, Writing
  <2>2. QED  BY <1>1, <2>1 DEF MInv, Projected
<1>6. InFront'
  BY <1>2 DEF InFront
<1>7. QED  BY <1>1, <1>4, <1>5, <1>6, AsideKeeps DEF MInv

-----------------------------------------------------------------------------
(* The invariant *)

LEMMA InitKeeps ==
    ASSUME Init
    PROVE  Shape /\ MInv
<1> DEFINE none == << >>
<1>1. /\ log = none /\ up = TRUE /\ claims = Empty /\ tail = none /\ plan = none
      /\ target = [o \in Ops |-> None]
      /\ failures = 0 /\ published = "healthy" /\ outbox = none /\ born = 0 /\ ~unrecorded
  BY DEF Init, MemoryInit
<1>2. provider \in {"embedded", "remote"} /\ \E ops : pc = [o \in Ops |-> IF o \in ops THEN "idle" ELSE "absent"]
  BY HostAssumption DEF Init
<1>3. pc \in [Ops -> Places] /\ \A o \in Ops : pc[o] \notin Writing
  BY <1>2 DEF Places, Writing
<1>4. /\ none \in Seq(Events) /\ none \in Seq(ClaimEvents) /\ none \in Seq(Ops)
      /\ none \in Seq(Healths) /\ Len(none) = 0
  OBVIOUS
<1>5. Replay(none) = Empty
  BY FoldsAre, F!FoldsNothing DEF Replay
<1>6. SubSeq(none, Len(none) + 1, Len(none)) = none /\ none \o none = none /\ Told(none, Status(0))
  <2>1. none \in Seq(Events)
    BY <1>4
  <2>2. QED  BY <2>1, NothingTold
<1> HIDE DEF none
<1>7. Shape
  BY <1>1, <1>2, <1>3, <1>4, EmptyType DEF Shape
<1>8. Projected /\ Quiet /\ InFront
  <2>1. claims = Replay(log)
    BY <1>1, <1>5
  <2>2. outbox = << >> /\ failures = 0 /\ ~unrecorded
    BY <1>1 DEF none
  <2>3. QED  BY <1>3, <2>1, <2>2 DEF Projected, Stored, Writing, Quiet, InFront
<1>9. SubSeq(log, born + 1, Len(log)) = none
  BY <1>1, <1>4, <1>6
<1>10. Recording
  BY <1>1, <1>4, <1>6, <1>9, StatusIs DEF Recording, Life, Breaker
<1>11. QED  BY <1>7, <1>8, <1>10 DEF MInv

LEMMA NextKeeps ==
    ASSUME Shape, MInv, [Next]_vars
    PROVE  Shape' /\ MInv'
<1>1. CASE UNCHANGED vars
  <2>1. UNCHANGED <<log, up, claims, tail, plan, target, pc, provider, failures, published,
                    outbox, born, unrecorded>>
    BY <1>1 DEF vars, memoryVars, remoteVars
  <2>2. Shape' /\ Projected' /\ Quiet' /\ Recording'
    BY <2>1 DEF Shape, MInv, Projected, Stored, Quiet, Recording, Breaker, Life
  <2>3. \A o \in Ops : Plan(o)' = Plan(o) /\ (Throws(o)' <=> Throws(o))
    BY <2>1, PlanStays
  <2>4. InFront'
    BY <2>1, <2>3 DEF MInv, InFront
  <2>5. QED  BY <2>2, <2>4 DEF MInv
<1>2. ASSUME NEW o \in Ops, Embedded(o) PROVE Shape' /\ MInv'
  BY <1>2, JoinKeeps, StartKeeps, StoreKeeps, FoldKeeps, RefusedKeeps DEF Embedded, OnQueue
<1>3. ASSUME NEW o \in Ops, Begin(o) \/ Ask(o) \/ AskHealth(o) \/ Answer(o)
      PROVE  Shape' /\ MInv'
  BY <1>3, RemoteStepKeeps
<1>4. CASE RecordHealth
  BY <1>4, RecordHealthKeeps
<1>5. CASE HealthRefused
  BY <1>5, HealthRefusedKeeps
<1>6. CASE HostCrash
  BY <1>6, HostCrashKeeps
<1>7. CASE Restart
  BY <1>7, RestartKeeps
<1>8. QED  BY <1>1, <1>2, <1>3, <1>4, <1>5, <1>6, <1>7 DEF Next

LEMMA InvHolds == Spec => [](Shape /\ MInv)
<1>1. Init => Shape /\ MInv
  BY InitKeeps
<1>2. (Shape /\ MInv) /\ [Next]_vars => (Shape /\ MInv)'
  BY NextKeeps
<1>3. QED  BY <1>1, <1>2, PTL DEF Spec

-----------------------------------------------------------------------------
(* What follows *)

(* The breaker of the remote provider (remote-memory.ts #publish, #append) never changes    *)
(* its status in silence: within one life of the host the events stored and those queued    *)
(* tell every change, in order, each from where the last one ended, and the last of them is *)
(* the status the breaker has - for any threshold, any calls and any answers, unless the    *)
(* store refused one of them.                                                               *)
THEOREM OutagesAreTold == Spec => []HealthIsOnRecord
<1>1. ASSUME Shape, MInv PROVE HealthIsOnRecord
  <2>1. SUFFICES ASSUME provider = "remote", up, ~unrecorded
                 PROVE  LET Status0(i) == IF i = 0 THEN "healthy" ELSE Life[i].to
                        IN  /\ \A i \in DOMAIN Life : /\ Life[i].from = Status0(i - 1)
                                                      /\ Life[i].to # Life[i].from
                            /\ Status0(Len(Life)) = Breaker
    BY DEF HealthIsOnRecord
  <2>2. Life \in Seq(Healths) /\ Told(Life, Breaker)
    <3>1. SubSeq(log, born + 1, Len(log)) \in Seq(Healths) /\ outbox \in Seq(Healths)
          /\ Told(Life, Breaker)
      BY <1>1, <2>1 DEF Shape, MInv, Recording
    <3>2. QED  BY <3>1 DEF Life
  <2> HIDE DEF Life
  <2>3. DOMAIN Life = 1 .. Len(Life) /\ Len(Life) \in Nat /\ (Life = << >> <=> Len(Life) = 0)
    BY <2>2
  <2>4. \A i \in DOMAIN Life : i - 1 = 0 <=> i = 1
    BY <2>3
  <2>5. QED  BY <2>2, <2>3, <2>4 DEF Told
<1>2. QED  BY <1>1, InvHolds, PTL

\* Statuses that move as an event sequence tells move as the contract allows.
LEMMA MovesIsNext ==
    ASSUME NEW before, NEW after, Moves(before, after), before = Known.status, after = (Known.status)'
    PROVE  Provider!Next
<1>1. ASSUME NEW new \in SUBSET Ids, NEW gone \in SUBSET Ids, new # {},
             Fits(before, new, gone), after = Changed(before, new, gone)
      PROVE  Provider!Next
  <2>1. Provider!Record(new, gone)
    BY <1>1 DEF Provider!Record, Provider!Active, Fits, Changed
  <2>2. QED  BY <2>1 DEF Provider!Next
<1>2. ASSUME NEW gone \in SUBSET Ids, gone # {}, Fits(before, {}, gone),
             after = Changed(before, {}, gone),
             \A g \in gone : \E kept \in Ids \ gone : before[kept] = "active" /\ Says[kept] = Says[g]
      PROVE  Provider!Next
  <2>1. gone \subseteq Provider!Active
        /\ \A g \in gone : \E kept \in Provider!Active \ gone : Says[kept] = Says[g]
    BY <1>2 DEF Provider!Active, Fits
  <2>2. after = [c \in Ids |-> IF c \in gone THEN "superseded" ELSE before[c]]
    BY <1>2 DEF Changed
  <2>3. Provider!Merge(gone)
    BY <1>2, <2>1, <2>2 DEF Provider!Merge
  <2>4. QED  BY <2>3 DEF Provider!Next
<1>3. ASSUME NEW c \in Ids, before[c] # "none", after = [before EXCEPT ![c] = "retracted"]
      PROVE  Provider!Next
  <2>1. Provider!Retract(c)
    BY <1>3 DEF Provider!Retract
  <2>2. QED  BY <2>1 DEF Provider!Next
<1>4. QED  BY <1>1, <1>2, <1>3 DEF Moves

\* A stored plan moves what is known, when it is folded or when it is replayed.
LEMMA StoredMoves ==
    ASSUME Shape, MInv, up, provider = "embedded", Stored,
           (Known.status)' = FoldLeft(Fold, claims, plan).status
    PROVE  Provider!Next
<1>1. PICK o \in Ops : pc[o] = "folding"
  BY DEF Stored
<1>2. plan = Plan(o) /\ plan # << >> /\ ~Throws(o)
  BY <1>1 DEF MInv, InFront, Writing
<1>3. Moves(claims.status, FoldLeft(Fold, claims, plan).status)
  BY <1>2, PlanTells DEF Shape
<1>4. Known.status = claims.status
  BY DEF Known
<1>5. QED  BY <1>3, <1>4, MovesIsNext

\* Every step of the host is a step of the contract or leaves what is known alone.
LEMMA StepsAreMoves ==
    ASSUME Shape, MInv, [Next]_vars
    PROVE  [Provider!Next]_(Known.status)
<1>1. Shape' /\ MInv'
  BY NextKeeps
<1>2. ASSUME log' = log, claims' = claims, up' = up, provider' = provider
      PROVE  (Known.status)' = Known.status
  BY <1>2 DEF Known
<1>3. CASE UNCHANGED vars
  BY <1>2, <1>3 DEF vars, memoryVars, remoteVars
<1>4. ASSUME NEW o \in Ops, Embedded(o) PROVE [Provider!Next]_(Known.status)
  <2>1. CASE FoldStored(o)
    <3>1. /\ up /\ up' /\ provider = "embedded" /\ provider' = "embedded" /\ pc[o] = "folding"
          /\ claims' = FoldLeft(Fold, claims, plan)
      BY <1>4, <2>1 DEF FoldStored, Embedded, remoteVars
    <3>2. Stored /\ (Known.status)' = FoldLeft(Fold, claims, plan).status
      BY <3>1 DEF Stored, Known
    <3>3. QED  BY <3>1, <3>2, StoredMoves
  <2>2. CASE Store(o)
    <3>1. /\ up /\ up' /\ provider = "embedded" /\ provider' = "embedded" /\ claims' = claims
      BY <1>4, <2>2 DEF Store, Embedded, remoteVars
    <3>2. QED  BY <3>1 DEF Known
  <2>3. CASE ~Store(o) /\ ~FoldStored(o)
    BY <1>2, <1>4, <2>3
       DEF Embedded, Call, OnTurn, TurnCompleted, Derive, OnQueue, Start, AppendRefused, remoteVars
  <2>4. QED  BY <2>1, <2>2, <2>3
<1>5. ASSUME NEW o \in Ops, Begin(o) \/ Ask(o) \/ AskHealth(o) \/ Answer(o)
      PROVE  [Provider!Next]_(Known.status)
  BY <1>2, <1>5 DEF Begin, Ask, AskHealth, Answer, Answered, Failed, HealthAnswered, HealthFailed,
     UnchangedLocal, remoteVars
<1>6. CASE RecordHealth
  <2>1. /\ outbox # << >> /\ log' = Append(log, Head(outbox)) /\ UNCHANGED <<up, claims, provider>>
    BY <1>6 DEF RecordHealth
  <2>2. Head(outbox) \in Healths /\ Head(outbox) \in Events /\ log \in Seq(Events)
    BY <2>1 DEF Shape, Events
  <2>3. Replay(log') = Replay(log)
    BY <2>1, <2>2, ReplayGrows, FoldIdles
  <2>4. QED  BY <2>1, <2>3 DEF Known
<1>7. CASE HealthRefused
  BY <1>2, <1>7 DEF HealthRefused
<1>8. CASE HostCrash
  <2>1. up /\ ~up' /\ log' = log /\ provider' = provider
    BY <1>8 DEF HostCrash, Crash
  <2>2. (Known.status)' = Replay(log).status
    BY <2>1 DEF Known
  <2>3. CASE provider = "embedded" /\ Stored
    <3>1. Replay(log) = FoldLeft(Fold, claims, plan)
      BY <2>1, <2>3 DEF MInv, Projected
    <3>2. QED  BY <2>1, <2>2, <2>3, <3>1, StoredMoves
  <2>4. CASE ~(provider = "embedded" /\ Stored)
    BY <2>1, <2>2, <2>4 DEF MInv, Projected, Known
  <2>5. QED  BY <2>3, <2>4
<1>9. CASE Restart
  <2>1. ~up /\ log' = log
    BY <1>9 DEF Restart, Rebuild
  <2>2. ~Stored'
    BY <1>9, <2>1 DEF Restart, Rebuild, MInv, InFront, Stored, Writing
  <2>3. QED  BY <1>1, <2>1, <2>2 DEF MInv, Projected, Known
<1>10. QED  BY <1>3, <1>4, <1>5, <1>6, <1>7, <1>8, <1>9 DEF Next

(* The host keeps the contract of a memory provider (knowledge/src/memory.ts), whatever is  *)
(* queued behind #tail, refused by the store or cut off by a crash, and whichever provider  *)
(* serves after a restart: what is known changes by recording, correcting, merging or       *)
(* retracting claims as PersonalMemory allows, once per committed call and never otherwise. *)
THEOREM HostKeepsTheContract == Spec => ImplementsProvider
<1>1. Init => Provider!Init
  <2>1. SUFFICES ASSUME Init PROVE Provider!Init
    OBVIOUS
  <2>2. claims = Empty /\ log = << >>
    BY <2>1 DEF Init, MemoryInit
  <2>3. Replay(<< >>) = Empty
    BY FoldsAre, F!FoldsNothing DEF Replay
  <2>4. Known = Empty
    BY <2>2, <2>3 DEF Known
  <2>5. QED  BY <2>4 DEF Provider!Init, Empty
<1>2. (Shape /\ MInv) /\ [Next]_vars => [Provider!Next]_(Known.status)
  BY StepsAreMoves
<1>3. QED  BY <1>1, <1>2, InvHolds, PTL DEF Spec, ImplementsProvider, Provider!Spec
=============================================================================
