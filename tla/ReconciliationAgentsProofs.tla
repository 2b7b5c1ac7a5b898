-------------------- MODULE ReconciliationAgentsProofs --------------------
(***************************************************************************)
(* The board never tells of a run the store does not hold, for every set   *)
(* of entities and keys, and any number of overlapping and dying jobs.     *)
(***************************************************************************)
EXTENDS ReconciliationAgents, FiniteSetTheorems, TLAPS

(***************************************************************************)
(* What the board's operators preserve.                                    *)
(***************************************************************************)
LEMMA PostType ==
  ASSUME NEW b \in SUBSET Signals, NEW s \in Signals
  PROVE  Post(b, s) \in SUBSET Signals
BY DEF Post

LEMMA SweptType ==
  ASSUME NEW b \in SUBSET Signals
  PROVE  Swept(b) \in SUBSET Signals
BY DEF Swept

LEMMA NewSignals ==
  /\ \A e \in Entities : Signal("missing", e, "no key scan") \in Signals
  /\ \A e \in Entities, c \in Counts : Signal("run", e, c) \in Signals
  /\ \A e \in Entities, v \in Verdict : Signal("disposition", e, v) \in Signals
BY DEF Signal, Signals

LEMMA SignalCases ==
  ASSUME NEW s \in Signals
  PROVE  /\ s.entity \in Entities /\ s.age \in Nat
         /\ s.kind = "run" => s.body \in Counts
BY DEF Signals

LEMMA RunVerdictType ==
  ASSUME NEW c \in Counts
  PROVE  /\ RunVerdict(c) \in Verdict
         /\ RunVerdict(c).counts = c
BY DEF RunVerdict, Verdict

LEMMA DispositionsType ==
  ASSUME NEW b \in SUBSET Signals
  PROVE  Dispositions(b) \in SUBSET Signals
<1>1. SkipLoud \in Verdict BY DEF SkipLoud, Verdict
<1>2. ASSUME NEW d \in Dispositions(b) PROVE d \in Signals
  <2>1. CASE \E s \in b : d = Signal("disposition", s.entity, SkipLoud)
    BY <1>1, <2>1, SignalCases, NewSignals
  <2>2. CASE \E s \in b : s.kind = "run" /\ d = Signal("disposition", s.entity, RunVerdict(s.body))
    BY <2>2, SignalCases, RunVerdictType, NewSignals
  <2> QED BY <1>2, <2>1, <2>2 DEF Dispositions
<1> QED BY <1>2

LEMMA PostAllType ==
  ASSUME NEW b \in SUBSET Signals, NEW S \in SUBSET Signals
  PROVE  PostAll(b, S) \in SUBSET Signals
BY DEF PostAll

LEMMA AgedType ==
  ASSUME NEW s \in Signals
  PROVE  [s EXCEPT !.age = IF @ > Horizon[s.kind] THEN @ ELSE @ + 1] \in Signals
<1> DEFINE n == IF s.age > Horizon[s.kind] THEN s.age ELSE s.age + 1
<1>1. n \in Nat BY SignalCases
<1> HIDE DEF n
<1>2. [s EXCEPT !.age = n] \in Signals
  <2>1. CASE s \in [kind: {"run"}, entity: Entities, body: Counts, age: Nat]
    BY <1>1, <2>1 DEF Signals
  <2>2. CASE s \in [kind: {"missing"}, entity: Entities, body: {"no key scan"}, age: Nat]
    BY <1>1, <2>2 DEF Signals
  <2>3. CASE s \in [kind: {"disposition"}, entity: Entities, body: Verdict, age: Nat]
    BY <1>1, <2>3 DEF Signals
  <2> QED BY <2>1, <2>2, <2>3 DEF Signals
<1> QED BY <1>2 DEF n

\* The numbers of keys gone and staged are within the number of keys.
LEMMA CountedType ==
  ASSUME TypeOK, NEW j \in Jobs, job[j].pc = "compare"
  PROVE  Counted(j) \in Counts
<1> DEFINE e == job[j].entity
<1>1. e \in Entities BY AgentsAssumption DEF TypeOK
<1>2. staged[e] \subseteq Keys /\ Gone(j) \subseteq Keys
  BY <1>1 DEF TypeOK, Gone
<1>3. IsFiniteSet(Keys) BY AgentsAssumption
<1>4. /\ Cardinality(staged[e]) \in Nat /\ Cardinality(staged[e]) <= Cardinality(Keys)
      /\ Cardinality(Gone(j)) \in Nat /\ Cardinality(Gone(j)) <= Cardinality(Keys)
      /\ Cardinality(Keys) \in Nat
  BY <1>2, <1>3, FS_Subset, FS_CardinalityType
<1> QED BY <1>4 DEF Counted, Counts

(***************************************************************************)
(* Type correctness.                                                       *)
(***************************************************************************)
LEMMA IdleType == Idle \in Agent
BY DEF Idle, Agent

LEMMA AgentStepsKeepType ==
  ASSUME TypeOK, NEW j \in Jobs, StartReconcile(j) \/ Work(j) \/ Crash(j)
  PROVE  TypeOK'
<1>1. CASE StartReconcile(j)
  <2>1. [Idle EXCEPT !.pc = "entities", !.board = board, !.todo = Entities] \in Agent
    BY DEF TypeOK, Idle, Agent
  <2>2. job' = [job EXCEPT ![j] = [Idle EXCEPT !.pc = "entities", !.board = board, !.todo = Entities]]
    BY <1>1 DEF StartReconcile
  <2>3. [Idle EXCEPT !.pc = "entities", !.board = board, !.todo = Entities].pc = "entities"
        /\ [Idle EXCEPT !.pc = "entities", !.board = board, !.todo = Entities].entity = None
    BY DEF Idle
  <2> QED BY <1>1, <2>1, <2>2, <2>3 DEF TypeOK, StartReconcile, counters
<1>2. ASSUME NEW e \in Entities, SkipLoudly(j, e) PROVE TypeOK'
  <2> DEFINE b == Post(job[j].board, Signal("missing", e, "no key scan"))
  <2>1. job[j] \in Agent BY DEF TypeOK
  <2>2. b \in SUBSET Signals BY <2>1, PostType, NewSignals DEF Agent
  <2> DEFINE a == [job[j] EXCEPT !.todo = @ \ {e}, !.board = b]
  <2>3. a \in Agent /\ a.pc = job[j].pc /\ a.entity = job[j].entity
    BY <2>1, <2>2 DEF Agent
  <2>4. job' = [job EXCEPT ![j] = a]
    BY <1>2 DEF SkipLoudly, TypeOK
  <2> QED BY <1>2, <2>3, <2>4 DEF TypeOK, SkipLoudly, counters
<1>3. ASSUME NEW e \in Entities, ScanSource(j, e) PROVE TypeOK'
  <2>1. job[j] \in Agent /\ source[e] \in SUBSET Keys BY DEF TypeOK
  <2> DEFINE a == [job[j] EXCEPT !.pc = "compare", !.entity = e, !.keys = source[e]]
  <2>2. a \in Agent /\ a.pc = "compare" /\ a.entity = e
    BY <2>1 DEF Agent
  <2>3. job' = [job EXCEPT ![j] = a] /\ e \in Scannable
    BY <1>3 DEF ScanSource, TypeOK
  <2> QED BY <1>3, <2>2, <2>3 DEF TypeOK, ScanSource, counters
<1>4. CASE Compare(j)
  <2> DEFINE b == Post(job[j].board, Signal("run", job[j].entity, Counted(j)))
  <2>1. job[j] \in Agent /\ job[j].entity \in Entities
    BY <1>4, AgentsAssumption DEF TypeOK, Compare
  <2>2. Counted(j) \in Counts BY <1>4, CountedType DEF Compare
  <2>3. b \in SUBSET Signals BY <2>1, <2>2, PostType, NewSignals DEF Agent
  <2> DEFINE a == [job[j] EXCEPT !.pc = "entities", !.entity = None, !.keys = {},
                                 !.todo = @ \ {job[j].entity}, !.board = b]
  <2>4. a \in Agent /\ a.pc = "entities" /\ a.entity = None
    BY <2>1, <2>3 DEF Agent
  <2>5. job' = [job EXCEPT ![j] = a]
    BY <1>4 DEF Compare, TypeOK
  <2>6. runs' \subseteq [entity: Entities, counts: Counts]
    BY <1>4, <2>1, <2>2 DEF Compare, TypeOK
  <2> QED BY <1>4, <2>4, <2>5, <2>6 DEF TypeOK, Compare, counters
<1>5. CASE SaveReconciled(j)
  <2>1. job[j].board \in SUBSET Signals BY DEF TypeOK, Agent
  <2>2. board' \subseteq Signals BY <1>5, <2>1, SweptType DEF SaveReconciled
  <2> DEFINE a == [Idle EXCEPT !.pc = "reconciled"]
  <2>3. a \in Agent /\ a.pc = "reconciled" /\ a.entity = None BY DEF Idle, Agent
  <2>4. job' = [job EXCEPT ![j] = a] BY <1>5 DEF SaveReconciled
  <2> QED BY <1>5, <2>2, <2>3, <2>4 DEF TypeOK, SaveReconciled, counters
<1>6. CASE StartTriage(j)
  <2>1. job[j] \in Agent /\ board \in SUBSET Signals BY DEF TypeOK
  <2> DEFINE a == [job[j] EXCEPT !.pc = "triage", !.board = board]
  <2>2. a \in Agent /\ a.pc = "triage" /\ a.entity = job[j].entity BY <2>1 DEF Agent
  <2>3. job' = [job EXCEPT ![j] = a] BY <1>6 DEF StartTriage, TypeOK
  <2> QED BY <1>6, <2>2, <2>3 DEF TypeOK, StartTriage, counters
<1>7. CASE Triage(j)
  <2>1. job[j].board \in SUBSET Signals BY DEF TypeOK, Agent
  <2>2. board' \subseteq Signals
    BY <1>7, <2>1, DispositionsType, PostAllType, SweptType DEF Triage
  <2>3. Idle.pc = "idle" /\ Idle.entity = None BY DEF Idle
  <2> QED BY <1>7, <2>2, <2>3, IdleType DEF TypeOK, Triage, counters
<1>8. CASE Crash(j)
  <2>1. Idle.pc = "idle" /\ Idle.entity = None BY DEF Idle
  <2> QED BY <1>8, <2>1, IdleType DEF TypeOK, Crash
<1>9. ASSUME NEW e \in Entities, ScanFails(j, e) PROVE TypeOK'
  <2>1. Idle.pc = "idle" /\ Idle.entity = None BY DEF Idle
  <2> QED BY <1>9, <2>1, IdleType DEF TypeOK, ScanFails, counters
<1> QED BY <1>1, <1>2, <1>3, <1>4, <1>5, <1>6, <1>7, <1>8, <1>9 DEF Work

\* Type correctness: the store, the board and every agent have their shape.
THEOREM AgentsTypeCorrect == Spec => []TypeOK
<1>1. Init => TypeOK
  <2>1. Idle.pc = "idle" /\ Idle.entity = None BY DEF Idle
  <2> QED BY <2>1, IdleType DEF Init, TypeOK
<1>2. TypeOK /\ [Next]_vars => TypeOK'
  <2> SUFFICES ASSUME TypeOK, [Next]_vars PROVE TypeOK' OBVIOUS
  <2>1. ASSUME NEW e \in Scannable, NEW K \in SUBSET Keys, SourceChanges(e, K) PROVE TypeOK'
    BY <2>1, AgentsAssumption DEF TypeOK, SourceChanges
  <2>2. ASSUME NEW e \in Scannable, Extract(e) PROVE TypeOK'
    BY <2>2, AgentsAssumption DEF TypeOK, Extract, counters
  <2>3. CASE Tick
    <3>1. board' \subseteq Signals BY <2>3, AgedType DEF TypeOK, Tick
    <3> QED BY <2>3, <3>1 DEF TypeOK, Tick, counters
  <2>4. CASE UNCHANGED vars BY <2>4 DEF TypeOK, vars, counters
  <2> QED BY <2>1, <2>2, <2>3, <2>4, AgentStepsKeepType DEF Next
<1> QED BY <1>1, <1>2, PTL DEF Spec

-----------------------------------------------------------------------------
(***************************************************************************)
(* Backing.  It is inductive once the agents' copies are backed too.       *)
(***************************************************************************)
AllBacked == BackedBy(board, runs) /\ \A j \in Jobs : BackedBy(job[j].board, runs)

LEMMA BackedGrows ==
  ASSUME NEW b, NEW R, NEW Q, R \subseteq Q, BackedBy(b, R)
  PROVE  BackedBy(b, Q)
BY DEF BackedBy

LEMMA BackedPost ==
  ASSUME NEW b, NEW R, NEW s, BackedBy(b, R), BackedBy({s}, R)
  PROVE  BackedBy(Post(b, s), R)
BY DEF BackedBy, Post

LEMMA BackedSwept ==
  ASSUME NEW b, NEW R, BackedBy(b, R)
  PROVE  BackedBy(Swept(b), R)
BY DEF BackedBy, Swept

\* Every verdict is about a run that is on the board it was read from.
LEMMA BackedTriage ==
  ASSUME NEW b \in SUBSET Signals, NEW R, BackedBy(b, R)
  PROVE  BackedBy(PostAll(b, Dispositions(b)), R)
<1>1. ASSUME NEW d \in Dispositions(b) PROVE BackedBy({d}, R)
  <2>1. CASE \E s \in b : d = Signal("disposition", s.entity, SkipLoud)
    BY <2>1 DEF BackedBy, Signal
  <2>2. CASE \E s \in b : s.kind = "run" /\ d = Signal("disposition", s.entity, RunVerdict(s.body))
    <3>1. PICK s \in b : s.kind = "run" /\ d = Signal("disposition", s.entity, RunVerdict(s.body))
      BY <2>2
    <3>2. d.kind = "disposition" /\ d.entity = s.entity /\ d.body.counts = s.body
      BY <3>1 DEF Signal, RunVerdict
    <3> QED BY <3>1, <3>2 DEF BackedBy
  <2> QED BY <1>1, <2>1, <2>2 DEF Dispositions
<1> QED BY <1>1 DEF BackedBy, PostAll

LEMMA BackingKept ==
  ASSUME TypeOK, AllBacked, [Next]_vars
  PROVE  AllBacked'
<1>1. ASSUME NEW j \in Jobs, StartReconcile(j) PROVE AllBacked'
  BY <1>1 DEF AllBacked, StartReconcile, Idle, TypeOK
<1>2. ASSUME NEW j \in Jobs, NEW e \in Entities, SkipLoudly(j, e) PROVE AllBacked'
  <2>0. Signal("missing", e, "no key scan").kind = "missing" BY DEF Signal
  <2>1. BackedBy({Signal("missing", e, "no key scan")}, runs) BY <2>0 DEF BackedBy
  <2>2. BackedBy(Post(job[j].board, Signal("missing", e, "no key scan")), runs)
    BY <2>1, BackedPost DEF AllBacked
  <2>3. \A i \in Jobs : job'[i].board =
          IF i = j THEN Post(job[j].board, Signal("missing", e, "no key scan")) ELSE job[i].board
    BY <1>2 DEF SkipLoudly, TypeOK, Agent
  <2> QED BY <1>2, <2>2, <2>3 DEF AllBacked, SkipLoudly
<1>3. ASSUME NEW j \in Jobs, NEW e \in Entities, ScanSource(j, e) PROVE AllBacked'
  <2>1. \A i \in Jobs : job'[i].board = job[i].board
    BY <1>3 DEF ScanSource, TypeOK, Agent
  <2> QED BY <1>3, <2>1 DEF AllBacked, ScanSource
<1>4. ASSUME NEW j \in Jobs, Compare(j) PROVE AllBacked'
  <2> DEFINE s == Signal("run", job[j].entity, Counted(j))
  <2>1. runs \subseteq runs' /\ [entity |-> job[j].entity, counts |-> Counted(j)] \in runs'
    BY <1>4 DEF Compare
  <2>2. BackedBy({s}, runs') BY <2>1 DEF BackedBy, Signal
  <2>3. /\ BackedBy(board, runs')
        /\ \A i \in Jobs : BackedBy(job[i].board, runs')
    BY <2>1, BackedGrows DEF AllBacked
  <2>4. BackedBy(Post(job[j].board, s), runs') BY <2>2, <2>3, BackedPost
  <2>5. \A i \in Jobs : job'[i].board = IF i = j THEN Post(job[j].board, s) ELSE job[i].board
    BY <1>4 DEF Compare, TypeOK, Agent
  <2> QED BY <1>4, <2>3, <2>4, <2>5 DEF AllBacked, Compare
<1>5. ASSUME NEW j \in Jobs, SaveReconciled(j) PROVE AllBacked'
  <2>1. BackedBy(board', runs) BY <1>5, BackedSwept DEF SaveReconciled, AllBacked
  <2>2. \A i \in Jobs : job'[i].board = IF i = j THEN {} ELSE job[i].board
    BY <1>5 DEF SaveReconciled, TypeOK, Agent, Idle
  <2>3. BackedBy({}, runs) BY DEF BackedBy
  <2> QED BY <1>5, <2>1, <2>2, <2>3 DEF AllBacked, SaveReconciled
<1>6. ASSUME NEW j \in Jobs, StartTriage(j) PROVE AllBacked'
  <2>1. \A i \in Jobs : job'[i].board = IF i = j THEN board ELSE job[i].board
    BY <1>6 DEF StartTriage, TypeOK, Agent
  <2> QED BY <1>6, <2>1 DEF AllBacked, StartTriage
<1>7. ASSUME NEW j \in Jobs, Triage(j) PROVE AllBacked'
  <2>1. job[j].board \in SUBSET Signals BY DEF TypeOK, Agent
  <2>2. BackedBy(board', runs)
    BY <1>7, <2>1, BackedTriage, BackedSwept DEF Triage, AllBacked
  <2>3. \A i \in Jobs : job'[i].board = IF i = j THEN {} ELSE job[i].board
    BY <1>7 DEF Triage, TypeOK, Idle
  <2>4. BackedBy({}, runs) BY DEF BackedBy
  <2> QED BY <1>7, <2>2, <2>3, <2>4 DEF AllBacked, Triage
<1>8. ASSUME NEW j \in Jobs, Crash(j) \/ \E e \in Entities : ScanFails(j, e)
      PROVE  AllBacked'
  <2>0. job' = [job EXCEPT ![j] = Idle] BY <1>8 DEF Crash, ScanFails
  <2>1. \A i \in Jobs : job'[i].board = IF i = j THEN {} ELSE job[i].board
    BY <2>0 DEF TypeOK, Idle
  <2>2. BackedBy({}, runs) BY DEF BackedBy
  <2>3. UNCHANGED <<board, runs>> BY <1>8 DEF Crash, ScanFails, counters
  <2> QED BY <2>1, <2>2, <2>3 DEF AllBacked
<1>9. CASE Tick
  <2>1. \A x \in board' : \E s \in board :
          x.kind = s.kind /\ x.entity = s.entity /\ x.body = s.body
    BY <1>9 DEF Tick, TypeOK, Signals
  <2>2. BackedBy(board', runs) BY <2>1 DEF AllBacked, BackedBy
  <2> QED BY <1>9, <2>2 DEF AllBacked, Tick
<1>10. CASE UNCHANGED <<runs, board, job>> BY <1>10 DEF AllBacked
<1> QED
  BY <1>1, <1>2, <1>3, <1>4, <1>5, <1>6, <1>7, <1>8, <1>9, <1>10
  DEF Next, Work, SourceChanges, Extract, vars, counters

\* Every run and every verdict on the board is about a run the store recorded,
\* for any number of overlapping and dying jobs (reconcile_deletes, triage).
THEOREM BoardBacked == Spec => []BoardIsBacked
<1>1. Init => AllBacked BY DEF Init, AllBacked, BackedBy, Idle
<1>2. TypeOK /\ AllBacked /\ [Next]_vars => AllBacked' BY BackingKept
<1>3. AllBacked => BoardIsBacked BY DEF AllBacked, BoardIsBacked
<1> QED BY <1>1, <1>2, <1>3, AgentsTypeCorrect, PTL DEF Spec
-----------------------------------------------------------------------------
(***************************************************************************)
(* Verdicts.  A job that gets as far as writing the board writes it for    *)
(* the last time in its triage, unless it dies; a failed scan ends a job   *)
(* before it writes.  What a triage writes answers every tombstoning run   *)
(* it holds, with a verdict no older than the run.  Both age alike, so the *)
(* verdict is swept after the run as long as its horizon is no shorter.    *)
(***************************************************************************)
Answers(d, s) ==
  /\ d.kind = "disposition" /\ d.entity = s.entity
  /\ d.body # SkipLoud /\ d.body.counts = s.body
  /\ d.age <= s.age

Answered(b) == \A s \in Exceptions(b) : \E d \in b : Answers(d, s)

\* A job between its two saves of the board.
Untriaged(j) == job[j].pc \in {"reconciled", "triage"}
TriagedIsAnswered == crashes = 0 /\ (\A j \in Jobs : ~Untriaged(j)) => Answered(board)

LEMMA TriageAnswers ==
  ASSUME NEW b \in SUBSET Signals
  PROVE  Answered(Swept(PostAll(b, Dispositions(b))))
<1> DEFINE after == Swept(PostAll(b, Dispositions(b)))
<1> SUFFICES ASSUME NEW s \in after, s.kind = "run", s.body.tombstoned > 0
             PROVE  \E d \in after : Answers(d, s)
  BY DEF Answered, Exceptions
<1>1. s \in b
  <2>1. \A d \in Dispositions(b) : d.kind = "disposition" BY DEF Dispositions, Signal
  <2> QED BY <2>1 DEF Swept, PostAll
<1>2. s.body \in Counts /\ s.age \in Nat BY <1>1, SignalCases
<1> DEFINE d == Signal("disposition", s.entity, RunVerdict(s.body))
<1>3. d \in Dispositions(b) BY <1>1 DEF Dispositions
<1>4. d.kind = "disposition" /\ d.entity = s.entity /\ d.age = 0 /\ d.body = RunVerdict(s.body)
  BY DEF Signal
<1>5. d \in after
  <2>1. 0 <= Horizon["disposition"] BY AgentsAssumption DEF Kinds
  <2> QED BY <1>3, <1>4, <2>1 DEF Swept, PostAll
<1>6. RunVerdict(s.body) # SkipLoud /\ RunVerdict(s.body).counts = s.body
  <2>1. RunVerdict(s.body).verdict # SkipLoud.verdict BY DEF RunVerdict, SkipLoud
  <2> QED BY <2>1 DEF RunVerdict
<1>7. Answers(d, s) BY <1>2, <1>4, <1>6 DEF Answers
<1> QED BY <1>5, <1>7

Aged(s) == [s EXCEPT !.age = IF @ > Horizon[s.kind] THEN @ ELSE @ + 1]

LEMMA AgedFields ==
  ASSUME NEW s \in Signals
  PROVE  /\ Aged(s).kind = s.kind /\ Aged(s).entity = s.entity /\ Aged(s).body = s.body
         /\ Aged(s).age = IF s.age > Horizon[s.kind] THEN s.age ELSE s.age + 1
BY DEF Aged, Signals

LEMMA TickAnswers ==
  ASSUME TypeOK, Horizon["disposition"] >= Horizon["run"], Answered(board), Tick
  PROVE  Answered(board')
<1>1. board' = {Aged(s) : s \in board} /\ board \subseteq Signals BY DEF Tick, Aged, TypeOK
<1> SUFFICES ASSUME NEW x \in board', x.kind = "run", x.age <= Horizon["run"], x.body.tombstoned > 0
             PROVE  \E y \in board' : Answers(y, x)
  BY DEF Answered, Exceptions
<1>2. PICK s \in board : x = Aged(s) BY <1>1
<1>3. Horizon["run"] \in Nat /\ Horizon["disposition"] \in Nat BY AgentsAssumption DEF Kinds
<1>4. s.kind = "run" /\ s.age <= Horizon["run"] /\ x.age = s.age + 1 /\ s.body = x.body
      /\ s.entity = x.entity /\ s.age \in Nat
  BY <1>1, <1>2, <1>3, AgedFields, SignalCases
<1>5. PICK d \in board : Answers(d, s) BY <1>4 DEF Answered, Exceptions
<1>6. Aged(d) \in board' BY <1>1
<1>7. d.age \in Nat /\ d.age <= s.age /\ d.kind = "disposition" BY <1>1, <1>5, SignalCases DEF Answers
<1>8. Aged(d).age = d.age + 1
  BY <1>1, <1>3, <1>4, <1>7, AgedFields
<1>9. Aged(d).age <= x.age BY <1>4, <1>7, <1>8
<1>10. Answers(Aged(d), x) BY <1>1, <1>4, <1>5, <1>9, AgedFields DEF Answers
<1> QED BY <1>6, <1>10

LEMMA QuietIsTriaged == Quiet => \A j \in Jobs : ~Untriaged(j)
BY DEF Quiet, Untriaged, Idle

LEMMA AnsweredKept ==
  ASSUME TypeOK, Horizon["disposition"] >= Horizon["run"], TriagedIsAnswered, [Next]_vars
  PROVE  TriagedIsAnswered'
<1>0. job \in [Jobs -> Agent] BY DEF TypeOK
<1>1. ASSUME NEW j \in Jobs, SaveReconciled(j) \/ StartTriage(j)
      PROVE  TriagedIsAnswered'
  <2>1. SaveReconciled(j) => job'[j].pc = "reconciled" BY <1>0 DEF SaveReconciled, Idle
  <2>2. StartTriage(j) => job'[j].pc = "triage" BY <1>0 DEF StartTriage, Agent
  <2> QED BY <1>1, <2>1, <2>2 DEF TriagedIsAnswered, Untriaged
<1>2. ASSUME NEW j \in Jobs,
             \/ StartReconcile(j) \/ Compare(j)
             \/ \E e \in Entities : SkipLoudly(j, e) \/ ScanSource(j, e) \/ ScanFails(j, e)
      PROVE  TriagedIsAnswered'
  <2>1. StartReconcile(j) => ~Untriaged(j) BY DEF StartReconcile, Untriaged, Idle
  <2>2. ~Untriaged(j)
    BY <1>2, <2>1 DEF Untriaged, Compare, SkipLoudly, ScanSource, ScanFails
  <2>3. \A i \in Jobs : Untriaged(i) => Untriaged(i)'
    BY <1>0, <1>2, <2>2
    DEF Untriaged, StartReconcile, Compare, SkipLoudly, ScanSource, ScanFails
  <2>4. UNCHANGED <<board, crashes>>
    BY <1>2 DEF StartReconcile, Compare, SkipLoudly, ScanSource, ScanFails, counters
  <2> QED BY <2>3, <2>4 DEF TriagedIsAnswered, Answered, Exceptions
<1>3. ASSUME NEW j \in Jobs, Triage(j) PROVE TriagedIsAnswered'
  <2>1. job[j].board \in SUBSET Signals BY DEF TypeOK, Agent
  <2> QED BY <1>3, <2>1, TriageAnswers DEF Triage, TriagedIsAnswered
<1>4. ASSUME NEW j \in Jobs, Crash(j) PROVE TriagedIsAnswered'
  <2>1. crashes' # 0 BY <1>4 DEF Crash, TypeOK
  <2> QED BY <2>1 DEF TriagedIsAnswered
<1>5. CASE Tick
  <2>1. crashes = 0 => Answered(board) BY <1>5, QuietIsTriaged DEF Tick, TriagedIsAnswered
  <2> QED BY <1>5, <2>1, TickAnswers DEF Tick, counters, TriagedIsAnswered
<1>6. CASE UNCHANGED <<board, job, crashes>>
  BY <1>6 DEF TriagedIsAnswered, Answered, Untriaged, Exceptions
<1> QED
  BY <1>1, <1>2, <1>3, <1>4, <1>5, <1>6 DEF Next, Work, SourceChanges, Extract, vars, counters

\* Between jobs every tombstoning run still within its horizon has its verdict on
\* the board, for any number of overlapping jobs, as long as none has died and
\* dispositions fade no sooner than runs (triage, StigmergyBoard.snapshot).
THEOREM VerdictsOutlive ==
  ASSUME Horizon["disposition"] >= Horizon["run"]
  PROVE  Spec => []VerdictOutlivesRun
<1>1. Init => TriagedIsAnswered
  BY DEF Init, TriagedIsAnswered, Answered, Exceptions
<1>2. TypeOK /\ TriagedIsAnswered /\ [Next]_vars => TriagedIsAnswered' BY AnsweredKept
<1>3. TriagedIsAnswered => VerdictOutlivesRun
  BY QuietIsTriaged DEF TriagedIsAnswered, VerdictOutlivesRun, Answered, Answers
<1> QED BY <1>1, <1>2, <1>3, AgentsTypeCorrect, PTL DEF Spec
=============================================================================
