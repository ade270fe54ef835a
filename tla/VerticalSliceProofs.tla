------------------------- MODULE VerticalSliceProofs -------------------------
(***************************************************************************)
(* Proofs about VerticalSlice, for any number of runs and any contents:    *)
(* what is accepted is right, and the trace the runs share is complete.    *)
(***************************************************************************)
EXTENDS VerticalSlice, TLAPS

\* A PASS is about the content of the commit the run made, which was checked
\* out again, and not about the tree the builder tested.
VerdictInv ==
    \A r \in Runs :
        /\ pc[r] \in Places \ {"verify", "accept"} => verdict[r] = None
        /\ pc[r] = "checkout" => candidate[r] # None
        /\ pc[r] \in {"verify", "accept"} =>
             candidate[r] # None /\ verifier[r] = candidate[r]
        /\ pc[r] = "verify" => verdict[r] = None
        /\ verdict[r] = "PASS" => candidate[r] = Fixed /\ verifier[r] = candidate[r]
        /\ pc[r] = "accepted" => verdict[r] = "PASS"
        /\ pc[r] \in Places \ {"checkout", "verify", "accept"} => candidate[r] = None

IInv == TypeOK /\ VerdictInv

USE NoneAssumption, ContentsAssumption
    DEF Places, Terminal, Verdicts, Record, MayPass

LEMMA InitInv == Init => IInv
<1> SUFFICES ASSUME Init
             PROVE  IInv
  OBVIOUS
<1>1. TypeOK
  BY DEF Init, TypeOK
<1>2. \A r \in Runs : pc[r] = "idle" /\ candidate[r] = None /\ verdict[r] = None
  BY DEF Init
<1>3. VerdictInv
  BY <1>2 DEF VerdictInv
<1> QED  BY <1>1, <1>3 DEF IInv

LEMMA StepInv == IInv /\ [Next]_vars => IInv'
<1> SUFFICES ASSUME IInv, [Next]_vars
             PROVE  IInv'
  OBVIOUS
<1> USE DEF IInv, TypeOK, VerdictInv
<1>1. ASSUME NEW r \in Runs, Start(r)
      PROVE  IInv'
  BY <1>1 DEF Start
<1>2. ASSUME NEW r \in Runs, Seed(r) \/ Provision(r) \/ TestBefore(r)
                             \/ Mutate(r) \/ TestAfter(r)
      PROVE  IInv'
  BY <1>2 DEF Seed, Provision, TestBefore, Mutate, TestAfter
<1>3. ASSUME NEW r \in Runs, Commit(r)
      PROVE  IInv'
  BY <1>3 DEF Commit
<1>4. ASSUME NEW r \in Runs, Checkout(r)
      PROVE  IInv'
  BY <1>4 DEF Checkout
<1>5. ASSUME NEW r \in Runs, Verify(r)
      PROVE  IInv'
  BY <1>5 DEF Verify
<1>6. ASSUME NEW r \in Runs, Accept(r)
      PROVE  IInv'
  BY <1>6 DEF Accept
<1>7. ASSUME NEW r \in Runs, Reject(r) \/ Raise(r)
      PROVE  IInv'
  BY <1>7 DEF Reject, Raise
<1>8. CASE UNCHANGED vars
  BY <1>8 DEF vars
<1> QED  BY <1>1, <1>2, <1>3, <1>4, <1>5, <1>6, <1>7, <1>8 DEF Next, Step

LEMMA Invariant == Spec => []IInv
BY InitInv, StepInv, PTL DEF Spec

\* A commit is accepted only if its own content is right.
THEOREM AcceptedIsRight == Spec => []AcceptedCommitIsRight
<1>1. IInv => AcceptedCommitIsRight
  BY DEF IInv, VerdictInv, AcceptedCommitIsRight
<1> QED  BY <1>1, Invariant, PTL

-----------------------------------------------------------------------------
(***************************************************************************)
(* The trace.  Runs of one object follow one another, so that a run that   *)
(* is under way finds its own events at the end of the shared trace: as    *)
(* many links of the chain, from the first on, as its place says.          *)
(***************************************************************************)
Details == Verdicts \cup {"ACCEPTED", "REJECTED", None}
Events == [run : Runs, kind : {Chain[i] : i \in 1..11}, detail : Details]

Under == Places \ {"idle"}

\* The events a run has recorded when it is at a place.
Recorded ==
    [seed |-> 2, provision |-> 3, before |-> 4, mutate |-> 5, after |-> 6,
     commit |-> 7, checkout |-> 8, verify |-> 9, accept |-> 10]

\* The last n entries of t, and no others, are run r's, and they are the first n
\* links of the chain.
EndsInChain(r, t, n) ==
    /\ n <= Len(t)
    /\ \A i \in DOMAIN t : t[i].run = r <=> i > Len(t) - n
    /\ \A i \in 1..n : t[Len(t) - n + i].kind = Chain[i]

\* Run r's last entry in t answers the verdict v.
Answered(r, t, v) ==
    \E i \in DOMAIN t :
        /\ t[i] = Event(r, "mission.acceptance",
                        IF v = "PASS" THEN "ACCEPTED" ELSE "REJECTED")
        /\ \A j \in DOMAIN t : j > i => t[j].run # r

\* What a result holds.
Complete(r, t) ==
    /\ t \in Seq(Events)
    /\ EndsInChain(r, t, 11)
    /\ t[Len(t)].detail = "ACCEPTED"

TraceInv ==
    /\ trace \in Seq(Events)
    /\ \A r \in Runs :
         /\ pc[r] = "idle" => EndsInChain(r, trace, 0)
         /\ pc[r] \in Under =>
              /\ EndsInChain(r, trace, Recorded[pc[r]])
              /\ \A s \in Runs \ {r} : pc[s] \in Terminal \cup {"idle"}
         /\ pc[r] \in Terminal /\ verdict[r] # None => Answered(r, trace, verdict[r])
         /\ returned[r] # None => Complete(r, returned[r])

LEMMA ChainGrows ==
    ASSUME NEW r, NEW t \in Seq(Events), NEW e \in Events, NEW n \in 1..11,
           EndsInChain(r, t, n - 1), e.run = r, e.kind = Chain[n]
    PROVE  EndsInChain(r, Append(t, e), n)
<1>1. /\ Len(Append(t, e)) = Len(t) + 1 /\ Append(t, e)[Len(t) + 1] = e
      /\ \A i \in DOMAIN t : Append(t, e)[i] = t[i]
  OBVIOUS
<1> HIDE DEF Chain
<1>2. ASSUME NEW i \in 1..n
      PROVE  Append(t, e)[Len(t) + 1 - n + i].kind = Chain[i]
  <2>1. CASE i = n
    <3>1. Append(t, e)[Len(t) + 1 - n + i] = e
      BY <1>1, <2>1
    <3> QED  BY <2>1, <3>1
  <2>2. CASE i # n
    <3>1. Len(t) + 1 - n + i = Len(t) - (n - 1) + i /\ i \in 1..(n - 1)
      BY <2>2
    <3>2. Len(t) + 1 - n + i \in DOMAIN t
      BY <3>1 DEF EndsInChain
    <3> QED  BY <1>1, <3>1, <3>2 DEF EndsInChain
  <2> QED  BY <2>1, <2>2
<1> DEFINE u == Append(t, e)
<1>3. /\ Len(u) = Len(t) + 1 /\ u[Len(t) + 1] = e /\ DOMAIN u = 1..(Len(t) + 1)
      /\ \A i \in DOMAIN t : u[i] = t[i]
  BY <1>1
<1>4. \A i \in 1..n : u[Len(t) + 1 - n + i].kind = Chain[i]
  BY <1>2
<1> HIDE DEF u
<1>5. n <= Len(u)
  BY <1>3 DEF EndsInChain
<1>6. ASSUME NEW i \in DOMAIN u
      PROVE  u[i].run = r <=> i > Len(u) - n
  <2>1. CASE i \in DOMAIN t
    <3>1. t[i].run = r <=> i > Len(t) - (n - 1)
      BY <2>1 DEF EndsInChain
    <3>2. Len(u) - n = Len(t) - (n - 1)
      BY <1>3
    <3> QED  BY <1>3, <2>1, <3>1, <3>2
  <2>2. CASE i = Len(t) + 1
    BY <1>3, <2>2
  <2>3. i \in DOMAIN t \/ i = Len(t) + 1
    BY <1>3
  <2> QED  BY <2>1, <2>2, <2>3
<1>7. ASSUME NEW i \in 1..n
      PROVE  u[Len(u) - n + i].kind = Chain[i]
  <2>1. Len(u) - n + i = Len(t) + 1 - n + i
    BY <1>3
  <2> QED  BY <1>4, <2>1
<1>8. EndsInChain(r, u, n)
  BY <1>5, <1>6, <1>7, Zenon DEF EndsInChain
<1> QED  BY <1>8 DEF u

LEMMA NotBegun ==
    ASSUME NEW r, NEW t \in Seq(Events), NEW e \in Events,
           EndsInChain(r, t, 0), e.run # r
    PROVE  EndsInChain(r, Append(t, e), 0)
BY DEF EndsInChain

LEMMA AnswerKept ==
    ASSUME NEW r, NEW v, NEW t \in Seq(Events), NEW e \in Events,
           Answered(r, t, v), e.run # r
    PROVE  Answered(r, Append(t, e), v)
BY DEF Answered

LEMMA AnswerGiven ==
    ASSUME NEW r, NEW v, NEW t \in Seq(Events),
           Event(r, "mission.acceptance",
                 IF v = "PASS" THEN "ACCEPTED" ELSE "REJECTED") \in Events
    PROVE  Answered(r, Append(t, Event(r, "mission.acceptance",
                                       IF v = "PASS" THEN "ACCEPTED" ELSE "REJECTED")), v)
<1> DEFINE e == Event(r, "mission.acceptance",
                      IF v = "PASS" THEN "ACCEPTED" ELSE "REJECTED")
<1>1. e \in Events
  OBVIOUS
<1> HIDE DEF e
<1>2. Len(t) + 1 \in DOMAIN Append(t, e) /\ Append(t, e)[Len(t) + 1] = e
  BY <1>1
<1>3. \A j \in DOMAIN Append(t, e) : ~(j > Len(t) + 1)
  BY <1>1
<1> QED  BY <1>2, <1>3 DEF Answered, e

LEMMA EventIsEvent ==
    ASSUME NEW r \in Runs, NEW i \in 1..11, NEW d \in Details
    PROVE  /\ Event(r, Chain[i], d) \in Events
           /\ Event(r, Chain[i], d).run = r
           /\ Event(r, Chain[i], d).kind = Chain[i]
           /\ Event(r, Chain[i], d).detail = d
<1> HIDE DEF Chain
<1> QED  BY DEF Event, Events

LEMMA RecordedRange == \A p \in Under : Recorded[p] \in 2..10
BY DEF Recorded, Under

\* What every step that records the next link of the chain leaves behind.
LEMMA StepRecords ==
    ASSUME TypeOK, TraceInv, NEW r \in Runs, pc[r] \in Under,
           NEW n, n = Recorded[pc[r]] + 1,
           NEW place \in Places \cup Terminal, NEW d \in Details,
           Record(r, place, Chain[n], d)
    PROVE  /\ trace' \in Seq(Events) /\ EndsInChain(r, trace', n)
           /\ \A s \in Runs \ {r} :
                /\ pc'[s] = pc[s] /\ pc[s] \in Terminal \cup {"idle"}
                /\ pc[s] = "idle" => EndsInChain(s, trace', 0)
                /\ pc[s] \in Terminal /\ verdict[s] # None => Answered(s, trace', verdict[s])
           /\ pc'[r] = place
<1> DEFINE e == Event(r, Chain[n], d)
<1>1. n - 1 \in 0..10 /\ n \in 1..11
  BY RecordedRange
<1>2. e \in Events /\ e.run = r /\ e.kind = Chain[n]
  BY <1>1, EventIsEvent
<1>3. trace' = Append(trace, e)
  OBVIOUS
<1>4. trace \in Seq(Events) /\ EndsInChain(r, trace, n - 1)
  <2>1. n - 1 = Recorded[pc[r]]
    BY <1>1, RecordedRange
  <2> QED  BY <2>1 DEF TraceInv
<1> HIDE DEF e, Chain
<1>5. EndsInChain(r, trace', n)
  <2>1. EndsInChain(r, Append(trace, e), n)
    BY <1>1, <1>2, <1>4, ChainGrows
  <2> QED  BY <1>3, <2>1
<1>6. trace' \in Seq(Events)
  BY <1>2, <1>3, <1>4
<1>7. pc'[r] = place /\ \A s \in Runs \ {r} : pc'[s] = pc[s]
  BY DEF TypeOK
<1>8. ASSUME NEW s \in Runs \ {r}
      PROVE  /\ pc[s] \in Terminal \cup {"idle"}
             /\ pc[s] = "idle" => EndsInChain(s, trace', 0)
             /\ pc[s] \in Terminal /\ verdict[s] # None => Answered(s, trace', verdict[s])
  BY <1>2, <1>3, <1>4, NotBegun, AnswerKept DEF TraceInv
<1> QED  BY <1>5, <1>6, <1>7, <1>8

LEMMA InitTrace == Init => TraceInv
<1> SUFFICES ASSUME Init
             PROVE  TraceInv
  OBVIOUS
<1>1. trace = <<>> /\ \A r \in Runs : pc[r] = "idle" /\ returned[r] = None
  BY DEF Init
<1>2. \A r \in Runs : EndsInChain(r, <<>>, 0)
  BY DEF EndsInChain
<1> QED  BY <1>1, <1>2 DEF TraceInv, Under

LEMMA StartTrace ==
    ASSUME IInv, TraceInv, NEW r \in Runs, Start(r)
    PROVE  TraceInv'
<1> USE DEF IInv, TypeOK
<1> DEFINE e == Event(r, "mission.created", None)
           f == Event(r, "work.created", None)
<1>1. /\ e \in Events /\ e.run = r /\ e.kind = Chain[1]
      /\ f \in Events /\ f.run = r /\ f.kind = Chain[2]
  <2>1. Chain[1] = "mission.created" /\ Chain[2] = "work.created" /\ None \in Details
    BY DEF Chain, Details
  <2> QED  BY <2>1, EventIsEvent
<1>2. trace \in Seq(Events) /\ trace' = trace \o <<e, f>>
  BY DEF Start, TraceInv
<1> HIDE DEF e, f, Chain
<1>3. trace' = Append(Append(trace, e), f)
  BY <1>1, <1>2
<1>4. trace' \in Seq(Events) /\ Append(trace, e) \in Seq(Events)
  BY <1>1, <1>2, <1>3
<1>5. EndsInChain(r, trace', 2)
  <2>1. EndsInChain(r, trace, 1 - 1)
    BY DEF Start, TraceInv
  <2>2. EndsInChain(r, Append(trace, e), 2 - 1)
    BY <1>1, <1>2, <2>1, ChainGrows, 2 - 1 = 1
  <2>3. EndsInChain(r, Append(Append(trace, e), f), 2)
    <3>1. 2 \in 1..11
      OBVIOUS
    <3> QED  BY <1>1, <1>4, <2>2, <3>1, ChainGrows, Zenon
  <2> QED  BY <1>3, <2>3
<1>6. ASSUME NEW s \in Runs \ {r}
      PROVE  /\ pc'[s] = pc[s] /\ pc[s] \in Terminal \cup {"idle"}
             /\ pc[s] = "idle" => EndsInChain(s, trace', 0)
             /\ pc[s] \in Terminal /\ verdict[s] # None => Answered(s, trace', verdict[s])
  <2>1. pc'[s] = pc[s] /\ pc[s] \in Terminal \cup {"idle"}
    BY DEF Start
  <2>2. CASE pc[s] = "idle"
    <3>1. EndsInChain(s, Append(trace, e), 0)
      BY <1>1, <1>2, <2>2, NotBegun DEF TraceInv
    <3>2. EndsInChain(s, trace', 0)
      BY <1>1, <1>3, <1>4, <3>1, NotBegun
    <3> QED  BY <2>1, <2>2, <3>2
  <2>3. CASE pc[s] \in Terminal /\ verdict[s] # None
    <3>1. Answered(s, Append(trace, e), verdict[s])
      BY <1>1, <1>2, <2>3, AnswerKept DEF TraceInv
    <3>2. Answered(s, trace', verdict[s])
      BY <1>1, <1>3, <1>4, <3>1, AnswerKept
    <3> QED  BY <2>1, <2>3, <3>2
  <2> QED  BY <2>1, <2>2, <2>3
<1>7. pc'[r] = "seed" /\ UNCHANGED <<verdict, returned>>
  BY DEF Start
<1> QED  BY <1>4, <1>5, <1>6, <1>7 DEF TraceInv, Under, Recorded

\* A link of the chain before the verdict is answered.
LEMMA LinkTrace ==
    ASSUME IInv, TraceInv, NEW r \in Runs, pc[r] \in Under \ {"accept"},
           NEW n, n = Recorded[pc[r]] + 1,
           NEW place \in Under, Recorded[place] = n,
           NEW d \in Details, Record(r, place, Chain[n], d),
           UNCHANGED returned, \A s \in Runs \ {r} : verdict'[s] = verdict[s]
    PROVE  TraceInv'
<1>1. /\ trace' \in Seq(Events) /\ EndsInChain(r, trace', Recorded[place])
      /\ pc'[r] = place
      /\ \A s \in Runs \ {r} :
           /\ pc'[s] = pc[s] /\ pc[s] \in Terminal \cup {"idle"}
           /\ pc[s] = "idle" => EndsInChain(s, trace', 0)
           /\ pc[s] \in Terminal /\ verdict[s] # None => Answered(s, trace', verdict[s])
  BY StepRecords DEF IInv, Under
<1>2. \A s \in Runs : returned[s] # None => Complete(s, returned[s])
  BY DEF TraceInv
<1>3. place \notin Terminal /\ place # "idle"
  BY DEF Under
<1>4. \A s \in Runs \ {r} : pc'[s] \notin Under
  BY <1>1 DEF Under
<1> HIDE DEF Record, Chain
<1> QED  BY <1>1, <1>2, <1>3, <1>4 DEF TraceInv

\* The verdict is answered, and the run is over.
LEMMA AnswerTrace ==
    ASSUME IInv, TraceInv, NEW r \in Runs, Accept(r) \/ Reject(r)
    PROVE  TraceInv'
<1> DEFINE how == IF verdict[r] = "PASS" THEN "ACCEPTED" ELSE "REJECTED"
           place == IF verdict[r] = "PASS" THEN "accepted" ELSE "raised"
<1>1. /\ pc[r] = "accept" /\ UNCHANGED verdict
      /\ Record(r, place, "mission.acceptance", how)
      /\ returned' = IF verdict[r] = "PASS" THEN [returned EXCEPT ![r] = trace']
                                            ELSE returned
  BY DEF Accept, Reject
<1>2. /\ place \in Terminal /\ how \in Details
      /\ Chain[11] = "mission.acceptance" /\ Recorded[pc[r]] + 1 = 11
      /\ pc[r] \in Under
  BY <1>1 DEF Details, Chain, Recorded, Under
<1>3. /\ trace' \in Seq(Events) /\ EndsInChain(r, trace', 11)
      /\ pc'[r] \in Terminal
      /\ \A s \in Runs \ {r} :
           /\ pc'[s] = pc[s] /\ pc[s] \in Terminal \cup {"idle"}
           /\ pc[s] = "idle" => EndsInChain(s, trace', 0)
           /\ pc[s] \in Terminal /\ verdict[s] # None => Answered(s, trace', verdict[s])
  <2>1. Record(r, place, Chain[11], how)
    BY <1>1, <1>2
  <2> HIDE DEF place, how, Record, Chain
  <2> QED  BY <1>2, <2>1, StepRecords DEF IInv
<1>4. Event(r, "mission.acceptance", how) \in Events
  BY <1>2, EventIsEvent
<1>5. trace' = Append(trace, Event(r, "mission.acceptance", how)) /\ trace \in Seq(Events)
  BY <1>1 DEF TraceInv
<1>6. Answered(r, trace', verdict[r])
  BY <1>4, <1>5, AnswerGiven
<1>7. ASSUME NEW s \in Runs, returned'[s] # None
      PROVE  Complete(s, returned'[s])
  <2>1. CASE s = r /\ verdict[r] = "PASS"
    <3>1. returned'[s] = trace'
      BY <1>1, <2>1 DEF IInv, TypeOK
    <3>2. trace'[Len(trace')] = Event(r, "mission.acceptance", how)
      BY <1>4, <1>5
    <3>3. trace'[Len(trace')].detail = "ACCEPTED"
      BY <2>1, <3>2 DEF Event
    <3> QED  BY <1>3, <2>1, <3>1, <3>3 DEF Complete
  <2>2. CASE ~(s = r /\ verdict[r] = "PASS")
    BY <1>1, <1>7, <2>2 DEF IInv, TypeOK, TraceInv
  <2> QED  BY <2>1, <2>2
<1>8. \A s \in Runs : pc'[s] \notin Under /\ (pc'[s] = "idle" => s # r)
  BY <1>3 DEF Under
<1> HIDE DEF Record, Chain, how, place
<1> QED  BY <1>1, <1>3, <1>6, <1>7, <1>8 DEF TraceInv

\* A run fails before its verdict, and leaves what it has recorded.
LEMMA RaiseTrace ==
    ASSUME IInv, TraceInv, NEW r \in Runs, Raise(r)
    PROVE  TraceInv'
<1>1. verdict[r] = None
  BY DEF Raise, IInv, VerdictInv
<1>2. /\ UNCHANGED <<trace, verdict, returned>> /\ pc'[r] = "raised"
      /\ \A s \in Runs \ {r} : pc'[s] = pc[s]
  BY DEF Raise, IInv, TypeOK
<1> QED  BY <1>1, <1>2 DEF TraceInv, Under

LEMMA StepTrace == IInv /\ TraceInv /\ [Next]_vars => TraceInv'
<1> SUFFICES ASSUME IInv, TraceInv, [Next]_vars
             PROVE  TraceInv'
  OBVIOUS
<1>1. ASSUME NEW r \in Runs,
             Seed(r) \/ Provision(r) \/ TestBefore(r) \/ Mutate(r) \/ TestAfter(r)
             \/ Commit(r) \/ Checkout(r) \/ Verify(r)
      PROVE  TraceInv'
  <2>1. ASSUME NEW from \in Under \ {"accept"}, NEW to \in Under, NEW d \in Details,
               pc[r] = from, Recorded[to] = Recorded[from] + 1, UNCHANGED returned,
               Record(r, to, Chain[Recorded[from] + 1], d),
               \A s \in Runs \ {r} : verdict'[s] = verdict[s]
        PROVE  TraceInv'
    <3> HIDE DEF Record, Chain
    <3> QED  BY <2>1, LinkTrace
  <2>2. UNCHANGED returned /\ \A s \in Runs \ {r} : verdict'[s] = verdict[s]
    BY <1>1 DEF Seed, Provision, TestBefore, Mutate, TestAfter, Commit, Checkout,
       Verify, IInv, TypeOK
  <2>3. None \in Details /\ Verdicts \subseteq Details
    BY DEF Details
  <2>4. /\ Recorded["seed"] = 2 /\ Recorded["provision"] = 3 /\ Recorded["before"] = 4
        /\ Recorded["mutate"] = 5 /\ Recorded["after"] = 6 /\ Recorded["commit"] = 7
        /\ Recorded["checkout"] = 8 /\ Recorded["verify"] = 9 /\ Recorded["accept"] = 10
    BY DEF Recorded
  <2>5. /\ Chain[2 + 1] = "git.baseline" /\ Chain[3 + 1] = "worktree.provisioned"
        /\ Chain[4 + 1] = "test.failed" /\ Chain[5 + 1] = "code.mutated"
        /\ Chain[6 + 1] = "test.passed" /\ Chain[7 + 1] = "git.commit"
        /\ Chain[8 + 1] = "verification.worktree"
        /\ Chain[9 + 1] = "verification.verdict"
    BY DEF Chain
  <2>6. /\ \A p \in Places \ {"idle"} : p \in Under
        /\ \A p \in Places \ {"idle", "accept"} : p \in Under \ {"accept"}
    BY DEF Under
  <2> HIDE DEF Record, Chain, Recorded, Under, Details
  <2>7. CASE Seed(r)
    BY <2>1, <2>2, <2>3, <2>4, <2>5, <2>6, <2>7 DEF Seed
  <2>8. CASE Provision(r)
    BY <2>1, <2>2, <2>3, <2>4, <2>5, <2>6, <2>8 DEF Provision
  <2>9. CASE TestBefore(r)
    BY <2>1, <2>2, <2>3, <2>4, <2>5, <2>6, <2>9 DEF TestBefore
  <2>10. CASE Mutate(r)
    BY <2>1, <2>2, <2>3, <2>4, <2>5, <2>6, <2>10 DEF Mutate
  <2>11. CASE TestAfter(r)
    BY <2>1, <2>2, <2>3, <2>4, <2>5, <2>6, <2>11 DEF TestAfter
  <2>12. CASE Commit(r)
    BY <2>1, <2>2, <2>3, <2>4, <2>5, <2>6, <2>12 DEF Commit
  <2>13. CASE Checkout(r)
    BY <2>1, <2>2, <2>3, <2>4, <2>5, <2>6, <2>13 DEF Checkout
  <2>14. CASE Verify(r)
    BY <2>1, <2>2, <2>3, <2>4, <2>5, <2>6, <2>14 DEF Verify
  <2> QED  BY <1>1, <2>7, <2>8, <2>9, <2>10, <2>11, <2>12, <2>13, <2>14
<1>2. CASE UNCHANGED vars
  BY <1>2 DEF vars, TraceInv
<1> QED  BY <1>1, <1>2, StartTrace, AnswerTrace, RaiseTrace DEF Next, Step

LEMMA TraceInvariant == Spec => [](IInv /\ TraceInv)
BY InitInv, StepInv, InitTrace, StepTrace, PTL DEF Spec

\* Every result ends in its run's whole chain, ACCEPTED at last, whatever earlier
\* runs of the object left in the trace they share.
THEOREM ReturnedTracesAreComplete == Spec => []ReturnedTraceIsComplete
<1>1. ASSUME TraceInv
      PROVE  ReturnedTraceIsComplete
  <2>1. DOMAIN Chain = 1..11 /\ Len(Chain) = 11
    BY DEF Chain
  <2> HIDE DEF Chain
  <2> SUFFICES ASSUME NEW r \in Runs, returned[r] # None
               PROVE  LET t == returned[r]
                          before == Len(t) - Len(Chain)
                      IN  /\ before >= 0
                          /\ \A i \in DOMAIN t : t[i].run = r <=> i > before
                          /\ \A i \in DOMAIN Chain : t[before + i].kind = Chain[i]
                          /\ t[Len(t)].detail = "ACCEPTED"
    BY DEF ReturnedTraceIsComplete
  <2> DEFINE t == returned[r]
  <2>2. t \in Seq(Events) /\ EndsInChain(r, t, 11) /\ t[Len(t)].detail = "ACCEPTED"
    BY <1>1 DEF TraceInv, Complete
  <2> HIDE DEF t
  <2>3. Len(t) \in Nat /\ Len(t) - 11 >= 0
    BY <2>2 DEF EndsInChain
  <2>4. /\ \A i \in DOMAIN t : t[i].run = r <=> i > Len(t) - Len(Chain)
        /\ \A i \in DOMAIN Chain : t[Len(t) - Len(Chain) + i].kind = Chain[i]
    BY <2>1, <2>2 DEF EndsInChain
  <2> QED  BY <2>1, <2>2, <2>3, <2>4 DEF t
<1>2. TraceInv => ReturnedTraceIsComplete
  BY <1>1
<1> QED  BY <1>2, TraceInvariant, PTL

\* Every run that issued a verdict has answered it on record, last of all.
THEOREM VerdictsAreAnswered == Spec => []VerdictIsAnswered
<1>1. TraceInv => VerdictIsAnswered
  BY DEF TraceInv, Answered, VerdictIsAnswered
<1> QED  BY <1>1, TraceInvariant, PTL

-----------------------------------------------------------------------------
(***************************************************************************)
(* The refinement: Commit ties a run to its candidate, a PASS ships it,    *)
(* and Accept accepts it.                                                  *)
(***************************************************************************)
Subject == [r \in Runs |-> IF candidate[r] = None THEN None ELSE <<r, candidate[r]>>]
Shipped == {<<r, verifier[r]>> : r \in {s \in Runs : verdict[s] = "PASS"}}
AcceptedPairs ==
    {<<r, <<r, candidate[r]>>>> : r \in {s \in Runs : pc[s] = "accepted"}}

LEMMA CommitBinds ==
    ASSUME IInv, NEW r \in Runs, Commit(r)
    PROVE  Acceptance!Next
<1> USE DEF IInv, TypeOK, VerdictInv
<1>1. PICK c \in Contents : candidate' = [candidate EXCEPT ![r] = c]
  BY DEF Commit
<1>2. Subject[r] = None /\ Subject' = [Subject EXCEPT ![r] = <<r, c>>]
  BY <1>1 DEF Commit, Subject
<1>3. Shipped' = Shipped
  BY DEF Commit, Shipped
<1>4. AcceptedPairs' = AcceptedPairs
  BY <1>1 DEF Commit, AcceptedPairs
<1>5. Acceptance!Bind(r, <<r, c>>)
  BY <1>2, <1>3, <1>4 DEF Acceptance!Bind, Subject, Shipped, AcceptedPairs
<1>6. <<r, c>> \in Runs \X Contents
  BY <1>1
<1> QED  BY <1>5, <1>6 DEF Acceptance!Next

LEMMA VerifyShips ==
    ASSUME IInv, NEW r \in Runs, Verify(r)
    PROVE  [Acceptance!Next]_Acceptance!vars
<1> USE DEF IInv, TypeOK, VerdictInv
<1>1. PICK v \in Verdicts : verdict' = [verdict EXCEPT ![r] = v]
  BY DEF Verify
<1>2. Subject' = Subject /\ UNCHANGED <<candidate, verifier>>
  BY DEF Verify, Subject
<1>3. AcceptedPairs' = AcceptedPairs
  BY DEF Verify, AcceptedPairs
<1>4. Subject[r] = <<r, verifier[r]>> /\ <<r, verifier[r]>> \in Runs \X Contents
  BY DEF Verify, Subject
<1>5. CASE v = "PASS"
  <2>1. {s \in Runs : verdict'[s] = "PASS"} = {s \in Runs : verdict[s] = "PASS"} \cup {r}
    BY <1>1, <1>5
  <2>2. Shipped' = Shipped \cup {<<r, verifier[r]>>}
    BY <1>2, <2>1 DEF Shipped
  <2>3. Acceptance!Ship(<<r, verifier[r]>>)
    BY <1>2, <1>3, <1>4, <2>2 DEF Acceptance!Ship, Subject, Shipped, AcceptedPairs
  <2>4. \E s \in Runs \X Contents : Acceptance!Ship(s)
    BY <1>4, <2>3 DEF Acceptance!Ship
  <2> QED  BY <2>4 DEF Acceptance!Next
<1>6. CASE v # "PASS"
  <2>1. \A s \in Runs : verdict'[s] = "PASS" <=> verdict[s] = "PASS"
    BY <1>1, <1>6 DEF Verify
  <2>2. Shipped' = Shipped
    BY <1>2, <2>1 DEF Shipped
  <2> QED  BY <1>2, <1>3, <2>2 DEF Acceptance!vars, Subject, Shipped, AcceptedPairs
<1> QED  BY <1>5, <1>6

LEMMA AcceptAccepts ==
    ASSUME IInv, NEW r \in Runs, Accept(r)
    PROVE  Acceptance!Next
<1> USE DEF IInv, TypeOK, VerdictInv
<1>1. Subject' = Subject /\ Shipped' = Shipped /\ UNCHANGED candidate
  BY DEF Accept, Subject, Shipped
<1>2. Subject[r] = <<r, candidate[r]>> /\ Subject[r] \in Shipped
  BY DEF Accept, Subject, Shipped
<1>3. {s \in Runs : pc'[s] = "accepted"} = {s \in Runs : pc[s] = "accepted"} \cup {r}
  BY DEF Accept
<1>4. AcceptedPairs' = AcceptedPairs \cup {<<r, Subject[r]>>}
  BY <1>1, <1>2, <1>3 DEF AcceptedPairs
<1>5. Acceptance!Accept(r)
  BY <1>1, <1>2, <1>4 DEF Acceptance!Accept, Subject, Shipped, AcceptedPairs
<1> QED  BY <1>5 DEF Acceptance!Next

\* VerticalSlice implements ExactSubjectAcceptance.
THEOREM Refinement == Spec => ImplementsExactSubjectAcceptance
<1>1. ASSUME Init
      PROVE  Acceptance!Init
  <2>1. \A r \in Runs : pc[r] # "accepted" /\ candidate[r] = None /\ verdict[r] # "PASS"
    BY <1>1 DEF Init
  <2> QED  BY <2>1 DEF Acceptance!Init
<1>2. IInv /\ [Next]_vars => [Acceptance!Next]_Acceptance!vars
  <2> SUFFICES ASSUME IInv, [Next]_vars
               PROVE  [Acceptance!Next]_Acceptance!vars
    OBVIOUS
  <2>1. ASSUME UNCHANGED <<candidate, verdict>>,
               \A r \in Runs : verdict[r] = "PASS" => UNCHANGED verifier[r],
               \A r \in Runs : pc'[r] = "accepted" <=> pc[r] = "accepted"
        PROVE  UNCHANGED Acceptance!vars
    BY <2>1 DEF Acceptance!vars
  <2> USE DEF IInv, TypeOK, VerdictInv
  <2>2. ASSUME NEW r \in Runs,
               Start(r) \/ Seed(r) \/ Provision(r) \/ TestBefore(r) \/ Mutate(r)
               \/ TestAfter(r) \/ Checkout(r) \/ Reject(r) \/ Raise(r)
        PROVE  UNCHANGED Acceptance!vars
    BY <2>1, <2>2 DEF Start, Seed, Provision, TestBefore, Mutate, TestAfter,
       Checkout, Reject, Raise
  <2>3. CASE UNCHANGED vars
    BY <2>1, <2>3 DEF vars
  <2> QED  BY <2>2, <2>3, CommitBinds, VerifyShips, AcceptAccepts DEF Next, Step
<1> QED  BY <1>1, <1>2, Invariant, PTL
    DEF Spec, ImplementsExactSubjectAcceptance, Acceptance!Spec
=============================================================================
