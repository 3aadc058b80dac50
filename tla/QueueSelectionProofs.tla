------------------------ MODULE QueueSelectionProofs ------------------------
(***************************************************************************)
(* The head of a class is served by its turn, for any number of runs,      *)
(* providers and executors.                                                *)
(*                                                                         *)
(* The bound is not inductive by itself.  What every claim keeps is the    *)
(* sum: the claims that passed a head and the turns still to come before   *)
(* one of its class.  A claim of another class takes at least one turn off *)
(* the second while it adds one to the first, and never goes past a turn   *)
(* of the head's class.                                                    *)
(***************************************************************************)
EXTENDS QueueSelection, TLAPS

-----------------------------------------------------------------------------
(* The cycle of turns *)

\* Every turn is of a class.
LEMMA TurnClass ==
  ASSUME NEW i \in Places, NEW k \in Nat
  PROVE  turn(i, k) \in Classes
<1>1. (i + k) % 7 \in 0 .. 6
  BY DEF Places
<1> QED
  BY <1>1 DEF turn, Turns, Classes

\* Turns count from where the cursor stands.
LEMMA TurnShift ==
  ASSUME NEW i \in Places, NEW k \in Places, NEW j \in Places
  PROVE  turn((i + k + 1) % 7, j) = turn(i, k + 1 + j)
<1>1. (((i + k + 1) % 7) + j) % 7 = (i + (k + 1 + j)) % 7
  BY DEF Places
<1> QED
  BY <1>1 DEF turn

\* A class has a turn within its bound of every place.
LEMMA TurnComes ==
  ASSUME NEW i \in Places, NEW c \in Classes
  PROVE  \E k \in 0 .. WaitBound[c] : turn(i, k) = c
<1>1. CASE c = "urgent"
  <2>1. i % 7 = i /\ (i + 0) % 7 = i
    BY DEF Places
  <2>2. CASE i \in {0, 1, 3, 4}
    BY <2>2, <2>1, <1>1 DEF turn, Turns, WaitBound
  <2>3. CASE i \in {2, 6}
    <3>1. (i + 1) % 7 \in {3, 0}
      BY <2>3
    <3> QED
      BY <3>1, <1>1 DEF turn, Turns, WaitBound
  <2>4. CASE i = 5
    <3>1. (i + 2) % 7 = 0
      BY <2>4
    <3> QED
      BY <3>1, <1>1 DEF turn, Turns, WaitBound
  <2> QED
    BY <2>2, <2>3, <2>4 DEF Places
<1>2. CASE c = "normal"
  <2>1. PICK k \in 0 .. 3 : (i + k) % 7 \in {2, 5}
    <3>1. i \in {0, 1, 2, 3, 4, 5, 6}
      BY DEF Places
    <3>2. (0 + 2) % 7 = 2 /\ (1 + 1) % 7 = 2 /\ (2 + 0) % 7 = 2 /\ (3 + 2) % 7 = 5
          /\ (4 + 1) % 7 = 5 /\ (5 + 0) % 7 = 5 /\ (6 + 3) % 7 = 2
      OBVIOUS
    <3> QED
      BY <3>1, <3>2
  <2> QED
    BY <2>1, <1>2 DEF turn, Turns, WaitBound
<1>3. CASE c = "background"
  <2>1. (i + (6 - i)) % 7 = 6 /\ 6 - i \in 0 .. 6
    BY DEF Places
  <2> QED
    BY <2>1, <1>3 DEF turn, Turns, WaitBound
<1> QED
  BY <1>1, <1>2, <1>3 DEF Classes

\* The first turn of one of the classes.
IsFirst(i, classes, m) ==
  turn(i, m) \in classes /\ \A k \in 0 .. m - 1 : turn(i, k) \notin classes

LEMMA FirstUnique ==
  ASSUME NEW i \in Places, NEW classes, NEW m \in Places, NEW n \in Places,
         IsFirst(i, classes, m), IsFirst(i, classes, n)
  PROVE  m = n
<1>1. ~(m < n) /\ ~(n < m)
  BY DEF IsFirst, Places
<1> QED
  BY <1>1 DEF Places

\* Among the turns up to one of the classes there is a first one.
LEMMA FirstExists ==
  ASSUME NEW i \in Places, NEW classes, NEW k \in Places, turn(i, k) \in classes
  PROVE  \E m \in 0 .. k : IsFirst(i, classes, m)
<1> SUFFICES ASSUME \A m \in 0 .. k : ~IsFirst(i, classes, m) PROVE FALSE
  OBVIOUS
<1> DEFINE Before(n) == \A l \in 0 .. n - 1 : l <= k => turn(i, l) \notin classes
<1>1. ASSUME NEW n \in Places, Before(n) PROVE Before(n + 1)
  <2>1. n <= k => turn(i, n) \notin classes
    <3>1. SUFFICES ASSUME n <= k PROVE turn(i, n) \notin classes
      OBVIOUS
    <3>2. n \in 0 .. k /\ \A l \in 0 .. n - 1 : turn(i, l) \notin classes
      BY <1>1, <3>1 DEF Places
    <3> QED
      BY <3>2 DEF IsFirst
  <2> QED
    BY <2>1, <1>1 DEF Places
<1>2. Before(0)
  OBVIOUS
<1> HIDE DEF Before
<1>3. Before(1) /\ Before(2)
  <2>1. 0 \in Places /\ 1 \in Places /\ 0 + 1 = 1 /\ 1 + 1 = 2
    BY DEF Places
  <2> QED
    BY <2>1, <1>1, <1>2, Zenon
<1>4. Before(3) /\ Before(4)
  <2>1. 2 \in Places /\ 3 \in Places /\ 2 + 1 = 3 /\ 3 + 1 = 4
    BY DEF Places
  <2> QED
    BY <2>1, <1>1, <1>3, Zenon
<1>5. Before(5) /\ Before(6)
  <2>1. 4 \in Places /\ 5 \in Places /\ 4 + 1 = 5 /\ 5 + 1 = 6
    BY DEF Places
  <2> QED
    BY <2>1, <1>1, <1>4, Zenon
<1>6. Before(7)
  <2>1. 6 \in Places /\ 6 + 1 = 7
    BY DEF Places
  <2> QED
    BY <2>1, <1>1, <1>5, Zenon
<1> QED
  BY <1>6 DEF Before, Places

LEMMA StepsToFirst ==
  ASSUME NEW i \in Places, NEW classes, NEW m \in Places, IsFirst(i, classes, m)
  PROVE  stepsTo(i, classes) = m
<1> DEFINE n == stepsTo(i, classes)
<1>1. n \in Places /\ IsFirst(i, classes, n)
  BY DEF stepsTo, IsFirst
<1> QED
  BY <1>1, FirstUnique

\* The turns to come before one of a class.
LEMMA StepsToClass ==
  ASSUME NEW i \in Places, NEW c \in Classes
  PROVE  /\ stepsTo(i, {c}) \in Places
         /\ stepsTo(i, {c}) <= WaitBound[c]
         /\ IsFirst(i, {c}, stepsTo(i, {c}))
<1>1. WaitBound[c] \in Places
  BY DEF WaitBound, Classes, Places
<1>2. PICK k \in 0 .. WaitBound[c] : turn(i, k) = c
  BY TurnComes
<1>3. k \in Places /\ turn(i, k) \in {c}
  BY <1>1, <1>2 DEF Places
<1>4. PICK m \in 0 .. k : IsFirst(i, {c}, m)
  BY <1>3, FirstExists
<1>5. m \in Places /\ m <= WaitBound[c]
  BY <1>1, <1>3, <1>4 DEF Places
<1>6. stepsTo(i, {c}) = m
  BY <1>4, <1>5, StepsToFirst
<1> QED
  BY <1>4, <1>5, <1>6

(* A turn of one class, chosen over another, brings the other's turn       *)
(* nearer.                                                                 *)
LEMMA TurnAfterNearer ==
  ASSUME NEW i \in Places, NEW classes \in SUBSET Classes, NEW c \in classes, NEW d \in classes,
         c = turn(i, stepsTo(i, classes)), c # d
  PROVE  stepsTo(queuePriorityTurnAfter(i, c), {d}) + 1 <= stepsTo(i, {d})
<1> DEFINE m == stepsTo(i, {d})
           k == stepsTo(i, {c})
           j == queuePriorityTurnAfter(i, c)
<1>1. m \in Places /\ IsFirst(i, {d}, m)
  BY StepsToClass
<1>2. k \in Places /\ IsFirst(i, {c}, k)
  BY StepsToClass
<1>3. k < m
  <2>1. turn(i, m) \in classes
    BY <1>1 DEF IsFirst
  <2>2. PICK n \in 0 .. m : IsFirst(i, classes, n)
    BY <2>1, <1>1, FirstExists
  <2>3. n \in Places /\ n <= m
    BY <2>2, <1>1 DEF Places
  <2>4. stepsTo(i, classes) = n
    BY <2>2, <2>3, StepsToFirst
  <2>5. turn(i, n) = c
    BY <2>4
  <2>6. n # m
    BY <2>5, <1>1 DEF IsFirst
  <2>7. IsFirst(i, {c}, n)
    BY <2>2, <2>5 DEF IsFirst
  <2>8. k = n
    BY <2>7, <2>3, StepsToFirst
  <2> QED
    BY <2>3, <2>6, <2>8, <1>1 DEF Places
<1>4. j = (i + k + 1) % 7 /\ j \in Places
  BY <1>2 DEF queuePriorityTurnAfter, Places
<1> DEFINE n == m - k - 1
<1>5. n \in Places /\ k + 1 + n = m
  BY <1>1, <1>2, <1>3 DEF Places
<1>6. \A l \in Places : turn(j, l) = turn(i, k + 1 + l)
  BY <1>2, <1>4, TurnShift
<1>7. IsFirst(j, {d}, n)
  <2>1. turn(j, n) = d
    BY <1>1, <1>5, <1>6 DEF IsFirst
  <2>2. ASSUME NEW l \in 0 .. n - 1
        PROVE  turn(j, l) # d
    <3>1. l \in Places /\ k + 1 + l \in 0 .. m - 1
      BY <1>1, <1>2, <1>3, <1>5 DEF Places
    <3> QED
      BY <3>1, <1>1, <1>6 DEF IsFirst
  <2> QED
    BY <2>1, <2>2 DEF IsFirst
<1>8. stepsTo(j, {d}) = n
  BY <1>4, <1>5, <1>7, StepsToFirst
<1> QED
  BY <1>1, <1>2, <1>5, <1>8 DEF Places

-----------------------------------------------------------------------------
(* The invariant *)

States == {"absent", "queued", "deferred", "claimed"}

\* What the variables the argument is about may hold.
SelectionType ==
  /\ state \in [Runs -> States]
  /\ older \subseteq Runs \X Runs
  /\ positions \in [Pipelines -> Places]
  /\ passed \in [Runs -> Nat]

\* Of two live runs one is the older.
Ordered ==
  \A q, r \in Runs :
    q # r /\ state[q] # "absent" /\ state[r] # "absent" => <<q, r>> \in older \/ <<r, q>> \in older

\* The turns before the next one of a run's class.
Ahead(pos, r) == stepsTo(pos[PipelineOf[r]], {PriorityOf[r]})

\* The claims that passed a run and the turns still before its class.
OnTrack == \A r \in Runs : passed[r] + Ahead(positions, r) <= WaitBound[PriorityOf[r]]

\* Only heads count.
HeadsCount == \A r \in Runs : passed[r] # 0 => ClassHead(state, older, r)

SelectionInv == SelectionType /\ Ordered /\ HeadsCount /\ OnTrack

LEMMA BecomesCounts ==
  ASSUME NEW st, NEW ol, NEW claimed, becomes(st, ol, claimed)
  PROVE  HeadsCount'
BY DEF becomes, HeadsCount, ClassHead

LEMMA AheadBounded ==
  ASSUME NEW pos \in [Pipelines -> Places], NEW r \in Runs
  PROVE  /\ Ahead(pos, r) \in Nat /\ Ahead(pos, r) <= WaitBound[PriorityOf[r]]
         /\ WaitBound[PriorityOf[r]] \in Nat
<1>1. pos[PipelineOf[r]] \in Places /\ PriorityOf[r] \in Classes
  BY SelectionAssumption
<1>2. WaitBound[PriorityOf[r]] \in Nat
  BY <1>1 DEF WaitBound, Classes
<1> QED
  BY <1>1, <1>2, StepsToClass DEF Ahead, Places

\* A step that claims nothing counts nothing.
LEMMA NoClaim ==
  ASSUME SelectionInv, NEW st \in [Runs -> States], NEW ol \in SUBSET (Runs \X Runs),
         becomes(st, ol, {}), positions' = positions,
         \A q, r \in Runs : q # r /\ st[q] # "absent" /\ st[r] # "absent"
                             => <<q, r>> \in ol \/ <<r, q>> \in ol
  PROVE  SelectionInv'
<1>1. \A r \in Runs : passed'[r] \in {0, passed[r]}
  BY DEF becomes
<1>2. SelectionType'
  BY <1>1 DEF SelectionInv, SelectionType, becomes
<1>3. Ordered'
  BY DEF becomes, Ordered
<1>4. ASSUME NEW r \in Runs
      PROVE  passed'[r] + Ahead(positions', r) <= WaitBound[PriorityOf[r]]
  <2>1. /\ Ahead(positions, r) \in Nat
        /\ Ahead(positions, r) <= WaitBound[PriorityOf[r]]
    BY AheadBounded DEF SelectionInv, SelectionType
  <2>2. passed[r] + Ahead(positions, r) <= WaitBound[PriorityOf[r]]
    BY DEF SelectionInv, OnTrack
  <2>3. passed[r] \in Nat
    BY DEF SelectionInv, SelectionType
  <2> QED
    BY <1>1, <2>1, <2>2, <2>3
<1> QED
  BY <1>2, <1>3, <1>4, BecomesCounts DEF SelectionInv, OnTrack

\* What a poll claims: a run of the class whose turn it is, first in its class.
LEMMA Selected ==
  ASSUME NEW pipelines \in Grants, NEW s \in selectFairQueuedRun(pipelines)
  PROVE  /\ s \in Runs /\ state[s] = "queued"
         /\ LET p       == PipelineOf[s]
                classes == {PriorityOf[r] : r \in candidates(p)}
            IN  /\ PriorityOf[s] = turn(positions[p], stepsTo(positions[p], classes))
                /\ \A r \in candidates(p) : PriorityOf[r] = PriorityOf[s] => <<r, s>> \notin older
<1>1. PICK p \in open(pipelines) : s \in selectPriorityQueuedRun(p)
  BY DEF selectFairQueuedRun
<1>2. s \in candidates(p)
  BY <1>1 DEF selectPriorityQueuedRun, first
<1>3. s \in Runs /\ state[s] = "queued" /\ PipelineOf[s] = p
  BY <1>2 DEF candidates, isQueueAdmissionCandidate
<1> QED
  BY <1>1, <1>3 DEF selectPriorityQueuedRun, first

\* A claim keeps the heads of the other classes on track.
LEMMA ClaimKeeps ==
  ASSUME SelectionInv, NEW pipelines \in Grants, ClaimQueuedRun(pipelines)
  PROVE  SelectionInv'
<1>1. PICK s \in selectFairQueuedRun(pipelines) :
        /\ becomes([state EXCEPT ![s] = "claimed"], older, {PipelineOf[s]})
        /\ positions' = [positions EXCEPT ![PipelineOf[s]] =
                           queuePriorityTurnAfter(@, PriorityOf[s])]
  BY DEF ClaimQueuedRun
<1> DEFINE p == PipelineOf[s]
           c == PriorityOf[s]
           i == positions[p]
           classes == {PriorityOf[r] : r \in candidates(p)}
<1>2. /\ s \in Runs /\ state[s] = "queued"
      /\ c = turn(i, stepsTo(i, classes))
      /\ \A r \in candidates(p) : PriorityOf[r] = c => <<r, s>> \notin older
  BY Selected
<1>3. p \in Pipelines /\ c \in Classes /\ i \in Places
  BY <1>2, SelectionAssumption DEF SelectionInv, SelectionType
<1>4. positions' = [positions EXCEPT ![p] = queuePriorityTurnAfter(i, c)]
  BY <1>1, <1>3
<1>5. queuePriorityTurnAfter(i, c) \in Places
  <2>1. stepsTo(i, {c}) \in Places
    BY <1>3, StepsToClass
  <2> QED
    BY <2>1, <1>3 DEF queuePriorityTurnAfter, Places
<1>6. positions' \in [Pipelines -> Places] /\ positions'[p] = queuePriorityTurnAfter(i, c)
      /\ \A q \in Pipelines : q # p => positions'[q] = positions[q]
  BY <1>3, <1>4, <1>5 DEF SelectionInv, SelectionType
<1>7. state' = [state EXCEPT ![s] = "claimed"] /\ older' = older
  BY <1>1 DEF becomes
<1>8. \A r \in Runs : passed'[r] \in {0, passed[r], passed[r] + 1}
  BY <1>1 DEF becomes
<1>9. SelectionType'
  <2>1. passed' \in [Runs -> Nat]
    BY <1>1, <1>8 DEF SelectionInv, SelectionType, becomes
  <2>2. state' \in [Runs -> States]
    BY <1>2, <1>7 DEF SelectionInv, SelectionType, States
  <2> QED
    BY <1>6, <1>7, <2>1, <2>2 DEF SelectionInv, SelectionType
<1>10. Ordered'
  BY <1>2, <1>7 DEF SelectionInv, SelectionType, Ordered
<1>11. ASSUME NEW r \in Runs
       PROVE  passed'[r] + Ahead(positions', r) <= WaitBound[PriorityOf[r]]
  <2>1. /\ Ahead(positions', r) \in Nat
        /\ Ahead(positions', r) <= WaitBound[PriorityOf[r]]
        /\ WaitBound[PriorityOf[r]] \in Nat
    BY <1>6, AheadBounded
  <2>2. /\ Ahead(positions, r) \in Nat
        /\ passed[r] \in Nat
        /\ passed[r] + Ahead(positions, r) <= WaitBound[PriorityOf[r]]
    BY AheadBounded DEF SelectionInv, SelectionType, OnTrack
  <2>3. CASE passed'[r] = 0
    BY <2>1, <2>3
  <2>4. CASE PipelineOf[r] # p
    <3>1. PipelineOf[r] \in Pipelines
      BY SelectionAssumption
    <3>2. Ahead(positions', r) = Ahead(positions, r)
      BY <1>6, <2>4, <3>1 DEF Ahead
    <3>3. passed'[r] \in {0, passed[r]}
      BY <1>1, <2>4 DEF becomes
    <3> QED
      BY <2>1, <2>2, <3>2, <3>3
  <2>5. CASE PipelineOf[r] = p /\ passed'[r] # 0
    <3>1. ClassHead([state EXCEPT ![s] = "claimed"], older, r)
      BY <1>1, <2>5 DEF becomes
    <3>2. r # s /\ state[r] = "queued"
      BY <1>2, <3>1 DEF ClassHead, SelectionInv, SelectionType
    <3>3. r \in candidates(p) /\ s \in candidates(p)
      BY <1>2, <2>5, <3>2 DEF candidates, isQueueAdmissionCandidate
    <3>4. CASE PriorityOf[r] = c
      \* s is first in its class, so r is younger and was no head before the step.
      <4>1. <<s, r>> \in older
        BY <1>2, <3>2, <3>3, <3>4 DEF SelectionInv, Ordered
      <4>2. ~ClassHead(state, older, r)
        BY <1>2, <2>5, <3>4, <4>1 DEF ClassHead
      <4>3. passed'[r] = passed[r]
        BY <1>1, <2>5, <4>2 DEF becomes
      <4> QED
        BY <2>5, <4>2, <4>3 DEF SelectionInv, HeadsCount
    <3>5. CASE PriorityOf[r] # c
      <4>1. /\ classes \in SUBSET Classes
            /\ c \in classes /\ PriorityOf[r] \in classes
        BY <3>3, SelectionAssumption DEF candidates
      <4>2. stepsTo(queuePriorityTurnAfter(i, c), {PriorityOf[r]}) + 1 <= stepsTo(i, {PriorityOf[r]})
        BY <1>2, <1>3, <3>5, <4>1, TurnAfterNearer
      <4>3. Ahead(positions', r) + 1 <= Ahead(positions, r)
        BY <1>6, <2>5, <4>2 DEF Ahead
      <4>4. passed'[r] <= passed[r] + 1 /\ passed'[r] \in Nat
        BY <1>8, <2>2
      <4> QED
        BY <2>1, <2>2, <4>3, <4>4
    <3> QED
      BY <3>4, <3>5
  <2> QED
    BY <2>3, <2>4, <2>5
<1> QED
  BY <1>1, <1>9, <1>10, <1>11, BecomesCounts DEF SelectionInv, OnTrack

LEMMA SelectionStep ==
  ASSUME SelectionInv, [Next]_vars
  PROVE  SelectionInv'
<1>1. CASE UNCHANGED vars
  BY <1>1 DEF SelectionInv, SelectionType, Ordered, HeadsCount, ClassHead, OnTrack, Ahead, vars
<1>2. ASSUME NEW r \in Runs, Arrive(r)
      PROVE  SelectionInv'
  <2> DEFINE st == [state EXCEPT ![r] = "queued"]
             ol == older \cup ({q \in Runs : state[q] # "absent"} \X {r})
  <2>1. becomes(st, ol, {}) /\ positions' = positions /\ state[r] = "absent"
    BY <1>2 DEF Arrive
  <2>2. st \in [Runs -> States] /\ ol \in SUBSET (Runs \X Runs)
    BY DEF SelectionInv, SelectionType, States
  <2>3. ASSUME NEW q \in Runs, NEW s \in Runs, q # s, st[q] # "absent", st[s] # "absent"
        PROVE  <<q, s>> \in ol \/ <<s, q>> \in ol
    <3>1. CASE q # r /\ s # r
      BY <2>3, <3>1 DEF SelectionInv, SelectionType, Ordered
    <3>2. CASE q = r
      BY <2>3, <3>2 DEF SelectionInv, SelectionType
    <3>3. CASE s = r
      BY <2>3, <3>3 DEF SelectionInv, SelectionType
    <3> QED
      BY <3>1, <3>2, <3>3
  <2> QED
    BY <2>1, <2>2, <2>3, NoClaim
<1>3. ASSUME NEW r \in Runs, ReleaseQueuedRunClaim(r)
      PROVE  SelectionInv'
  <2> DEFINE st == [state EXCEPT ![r] = "deferred"]
  <2>1. becomes(st, older, {}) /\ positions' = positions /\ state[r] = "claimed"
    BY <1>3 DEF ReleaseQueuedRunClaim
  <2>2. st \in [Runs -> States] /\ \A q \in Runs : st[q] # "absent" => state[q] # "absent"
    BY <2>1 DEF SelectionInv, SelectionType, States
  <2> QED
    BY <2>1, <2>2, NoClaim DEF SelectionInv, SelectionType, Ordered
<1>4. ASSUME NEW r \in Runs, DeferralEnds(r)
      PROVE  SelectionInv'
  <2> DEFINE st == [state EXCEPT ![r] = "queued"]
  <2>1. becomes(st, older, {}) /\ positions' = positions /\ state[r] = "deferred"
    BY <1>4 DEF DeferralEnds
  <2>2. st \in [Runs -> States] /\ \A q \in Runs : st[q] # "absent" => state[q] # "absent"
    BY <2>1 DEF SelectionInv, SelectionType, States
  <2> QED
    BY <2>1, <2>2, NoClaim DEF SelectionInv, SelectionType, Ordered
<1>5. ASSUME NEW r \in Runs, withdraws(r), positions' = positions
      PROVE  SelectionInv'
  <2> DEFINE st == [state EXCEPT ![r] = "absent"]
             ol == {c \in older : r \notin {c[1], c[2]}}
  <2>1. becomes(st, ol, {}) /\ positions' = positions
    BY <1>5 DEF withdraws
  <2>2. st \in [Runs -> States] /\ ol \in SUBSET (Runs \X Runs)
    BY DEF SelectionInv, SelectionType, States
  <2>3. ASSUME NEW q \in Runs, NEW s \in Runs, q # s, st[q] # "absent", st[s] # "absent"
        PROVE  <<q, s>> \in ol \/ <<s, q>> \in ol
    <3>1. q # r /\ s # r /\ state[q] # "absent" /\ state[s] # "absent"
      BY <2>3 DEF SelectionInv, SelectionType
    <3> QED
      BY <2>3, <3>1 DEF SelectionInv, Ordered
  <2> QED
    BY <2>1, <2>2, <2>3, NoClaim
<1>6. ASSUME NEW pipelines \in Grants, ClaimQueuedRun(pipelines)
      PROVE  SelectionInv'
  BY <1>6, ClaimKeeps
<1>7. ASSUME NEW p \in Pipelines, CooldownEnds(p)
      PROVE  SelectionInv'
  BY <1>7 DEF CooldownEnds, SelectionInv, SelectionType, Ordered, HeadsCount, ClassHead, OnTrack, Ahead
<1>8. ASSUME NEW r \in Runs, NEW limited \in BOOLEAN, Settle(r, limited)
      PROVE  SelectionInv'
  BY <1>5, <1>8 DEF Settle
<1>9. ASSUME NEW r \in Runs, Cancel(r)
      PROVE  SelectionInv'
  BY <1>5, <1>9 DEF Cancel
<1> QED
  BY <1>1, <1>2, <1>3, <1>4, <1>6, <1>7, <1>8, <1>9 DEF Next

LEMMA SelectionInit == Init => SelectionInv
<1> SUFFICES ASSUME Init PROVE SelectionInv
  OBVIOUS
<1>1. SelectionType
  BY DEF Init, SelectionType, States, Places
<1>2. Ordered /\ HeadsCount
  BY DEF Init, Ordered, HeadsCount
<1>3. ASSUME NEW r \in Runs
      PROVE  passed[r] + Ahead(positions, r) <= WaitBound[PriorityOf[r]]
  BY <1>1, AheadBounded DEF Init, SelectionType
<1> QED
  BY <1>1, <1>2, <1>3 DEF SelectionInv, OnTrack

(* The head of a class that stays eligible is served by its turn           *)
(* (queuePriorityTurnAfter, selectPriorityQueuedRun), whatever the runs,   *)
(* providers, ceilings and executors: no more claims of its provider pass  *)
(* it than the cycle has turns of other classes in a row, six for a        *)
(* background run.                                                         *)
THEOREM HeadServed == Spec => []HeadServedByTurn
<1>1. SelectionInv => HeadServedByTurn
  <2> SUFFICES ASSUME SelectionInv, NEW r \in Runs
               PROVE  passed[r] <= WaitBound[PriorityOf[r]]
    BY DEF HeadServedByTurn
  <2>1. Ahead(positions, r) \in Nat /\ WaitBound[PriorityOf[r]] \in Nat
    BY AheadBounded DEF SelectionInv, SelectionType
  <2>2. passed[r] \in Nat /\ passed[r] + Ahead(positions, r) <= WaitBound[PriorityOf[r]]
    BY DEF SelectionInv, SelectionType, OnTrack
  <2> QED
    BY <2>1, <2>2
<1> QED
  BY <1>1, SelectionInit, SelectionStep, PTL DEF Spec

=============================================================================
