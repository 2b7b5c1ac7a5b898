-------------------------- MODULE ClaimLedgerProofs --------------------------
(***************************************************************************)
(* Theorems about ClaimLedger, for every number of claims, people and      *)
(* workers.  The invariant that is inductive says of each copy of a claim  *)
(* a request may decide on (the ledger's own and every engine's) that its  *)
(* status is backed by the transitions of its history.                     *)
(***************************************************************************)
EXTENDS ClaimLedger, SequenceTheorems, TLAPS

USE ClaimAssumption

(***************************************************************************)
(* Type correctness.                                                       *)
(***************************************************************************)
LEMMA EntryTypes ==
  /\ Unknown \in Entry
  /\ \A v \in Contents : Draft(v) \in Entry
  /\ \A entry \in Entry, e \in Event : Advanced(entry, e) \in Entry
  /\ EmptyEngine \in [claims: [Claims -> Entry], history: [Claims -> Seq(Event)]]
<1>1. Unknown \in Entry
  BY DEF Unknown, Entry
<1>2. \A v \in Contents : Draft(v) \in Entry
  BY DEF Draft, Entry, Statuses
<1>3. ASSUME NEW entry \in Entry, NEW e \in Event
      PROVE  Advanced(entry, e) \in Entry
  BY DEF Advanced, Entry, Event
<1>4. EmptyEngine \in [claims: [Claims -> Entry], history: [Claims -> Seq(Event)]]
  BY <1>1, EmptySeq DEF EmptyEngine
<1>5. QED
  BY <1>1, <1>2, <1>3, <1>4

\* One step of the state machine in one worker's engine leaves engines.
LEMMA EngineAdvances ==
  ASSUME engine \in [Workers -> [claims: [Claims -> Entry], history: [Claims -> Seq(Event)]]],
         NEW w \in Workers, NEW c \in Claims, NEW next \in Entry, NEW event \in Event
  PROVE  [engine EXCEPT ![w].claims[c] = next, ![w].history[c] = Append(@, event)]
           \in [Workers -> [claims: [Claims -> Entry], history: [Claims -> Seq(Event)]]]
<1> DEFINE more == Append(engine[w].history[c], event)
<1>1. engine[w].history[c] \in Seq(Event)
  OBVIOUS
<1>2. more \in Seq(Event)
  BY <1>1, AppendProperties
<1>3. [engine EXCEPT ![w].claims[c] = next, ![w].history[c] = Append(@, event)]
        = [engine EXCEPT ![w].claims[c] = next, ![w].history[c] = more]
  OBVIOUS
<1> HIDE DEF more
<1>4. [engine EXCEPT ![w].claims[c] = next, ![w].history[c] = more]
        \in [Workers -> [claims: [Claims -> Entry], history: [Claims -> Seq(Event)]]]
  BY <1>2
<1>5. QED
  BY <1>3, <1>4

LEMMA TypeInvariant == TypeOK /\ [Next]_vars => TypeOK'
<1> SUFFICES ASSUME TypeOK, [Next]_vars PROVE TypeOK'
  OBVIOUS
<1> USE DEF TypeOK
<1>1. ASSUME NEW w \in Workers, Load(w) PROVE TypeOK'
  BY <1>1 DEF Load
<1>2. ASSUME NEW w \in Workers, NEW c \in Claims, NEW v \in Contents \cup {Blank}, Open(w, c, v)
      PROVE  TypeOK'
  <2>1. Draft(v) \in Entry /\ <<>> \in Seq(Event)
    BY <1>2, EntryTypes, EmptySeq DEF Open
  <2>2. book' \in [Claims -> Entry] /\ trail' = trail /\ exported' = exported
    BY <1>2, <2>1 DEF Open, ReplayOpen
  <2>3. /\ engine'  \in [Workers -> [claims: [Claims -> Entry], history: [Claims -> Seq(Event)]]]
        /\ phase' \in [Workers -> {"idle", "loaded", "answered"}]
    BY <1>2, <2>1 DEF Open
  <2>4. QED
    BY <2>2, <2>3
<1>3. ASSUME NEW w \in Workers, NEW c \in Claims, NEW a \in Actions, NEW actor \in Names,
             NEW by \in Names \cup {NoOne}, Apply(w, c, a, actor, by)
      PROVE  TypeOK'
  <2> DEFINE entry == engine[w].claims[c]
             Ev(to) == [action |-> a, from |-> entry.status, to |-> to, actor |-> actor,
                        confirmer |-> IF a = "lock" THEN by ELSE NoOne]
  <2>1. PICK to \in Statuses :
          /\ <<entry.status, a, to>> \in Transitions
          /\ ReplayTransition(c, Ev(to))
          /\ engine' = [engine EXCEPT ![w].claims[c] = Advanced(entry, Ev(to)),
                                      ![w].history[c] = Append(@, Ev(to))]
    BY <1>3 DEF Apply
  <2>2. entry \in Entry /\ entry.status \in Statuses
    BY <2>1 DEF Transitions, Statuses, Terminal
  <2>3. Ev(to) \in Event
    BY <2>2 DEF Event
  <2> HIDE DEF Ev
  <2>4. Advanced(entry, Ev(to)) \in Entry
    BY <2>2, <2>3, EntryTypes
  <2>5. \A t \in Seq(Event) : Append(t, Ev(to)) \in Seq(Event)
    BY <2>3, AppendProperties
  <2>6. book' \in [Claims -> Entry]
    <3>1. \A x \in Entry : Advanced(x, Ev(to)) \in Entry
      BY <2>3, EntryTypes
    <3>2. QED
      BY <2>1, <3>1 DEF ReplayTransition
  <2>7. trail' \in [Claims -> Seq(Event)]
    BY <2>1, <2>5 DEF ReplayTransition
  <2>8. engine' \in [Workers -> [claims: [Claims -> Entry], history: [Claims -> Seq(Event)]]]
    <3> DEFINE event == Ev(to)
               next == Advanced(entry, event)
    <3>1. next \in Entry /\ event \in Event
      BY <2>3, <2>4
    <3>2. engine' = [engine EXCEPT ![w].claims[c] = next, ![w].history[c] = Append(@, event)]
      BY <2>1
    <3> HIDE DEF event, next
    <3>3. QED
      BY <3>1, <3>2, EngineAdvances
  <2>9. QED
    BY <1>3, <2>6, <2>7, <2>8 DEF Apply
<1>4. ASSUME NEW w \in Workers, NEW C \in SUBSET Claims, Export(w, C) PROVE TypeOK'
  BY <1>4 DEF Export
<1>5. ASSUME NEW w \in Workers, Respond(w) PROVE TypeOK'
  BY <1>5, EntryTypes DEF Respond
<1>6. CASE UNCHANGED vars
  BY <1>6 DEF vars
<1>7. QED
  BY <1>1, <1>2, <1>3, <1>4, <1>5, <1>6 DEF Next

\* Every reachable state of the ledger, of the engines and of the exports is
\* well typed, whatever the workers do.
THEOREM TypeCorrect == Spec => []TypeOK
<1>1. Init => TypeOK
  BY EntryTypes, EmptySeq DEF Init, TypeOK
<1>2. QED
  BY <1>1, TypeInvariant, PTL DEF Spec
(***************************************************************************)
(* Every exported claim was approved by a second person.                   *)
(*                                                                         *)
(* Decided says of one copy of a claim that its status is backed by the    *)
(* transitions t.  A request appends to the ledger's trail what it decided *)
(* on its engine's copy, so the copy has to be backed by both histories:   *)
(* the engine's (which is what is exported) and the ledger's.              *)
(***************************************************************************)
ApprovedIn(c, t) ==
  \E i \in 1 .. Len(t) : t[i].action = "approve" /\ t[i].actor \notin {OpenedBy[c], Blank}

Decided(c, entry, t) ==
  /\ entry.status = "approved" => ApprovedIn(c, t)
  /\ entry.status = "locked" => TwoPersonTrail(c, t)

BookDecided == \A c \in Claims : Decided(c, book[c], trail[c])

EnginesDecided ==
  \A w \in Workers, c \in Claims : phase[w] = "loaded" =>
    /\ Decided(c, engine[w].claims[c], engine[w].history[c])
    /\ Decided(c, engine[w].claims[c], trail[c])

IInv == TypeOK /\ BookDecided /\ EnginesDecided /\ ExportedWasApproved

\* A longer history backs whatever a shorter one did.
LEMMA DecidedGrows ==
  ASSUME NEW c \in Claims, NEW entry, NEW t \in Seq(Event), NEW e \in Event,
         Decided(c, entry, t)
  PROVE  Decided(c, entry, Append(t, e))
<1> DEFINE u == Append(t, e)
<1>1. Len(u) = Len(t) + 1 /\ Len(t) \in Nat /\ \A i \in 1 .. Len(t) : u[i] = t[i]
  BY AppendProperties, LenProperties
<1> HIDE DEF u
<1>2. ApprovedIn(c, t) => ApprovedIn(c, u)
  <2> SUFFICES ASSUME ApprovedIn(c, t) PROVE ApprovedIn(c, u)
    OBVIOUS
  <2>1. PICK i \in 1 .. Len(t) :
          t[i].action = "approve" /\ t[i].actor \notin {OpenedBy[c], Blank}
    BY DEF ApprovedIn
  <2>2. i \in 1 .. Len(u) /\ u[i] = t[i]
    BY <1>1
  <2>3. QED
    BY <2>1, <2>2 DEF ApprovedIn
<1>3. TwoPersonTrail(c, t) => TwoPersonTrail(c, u)
  <2> SUFFICES ASSUME TwoPersonTrail(c, t) PROVE TwoPersonTrail(c, u)
    OBVIOUS
  <2>1. PICK i \in 1 .. Len(t), j \in 1 .. Len(t) :
          /\ i < j
          /\ t[i].action = "approve" /\ t[i].actor \notin {OpenedBy[c], Blank}
          /\ t[j].action = "lock" /\ t[j].actor \notin {OpenedBy[c], Blank}
          /\ t[j].confirmer \notin {NoOne, Blank, t[j].actor}
    BY DEF TwoPersonTrail
  <2>2. i \in 1 .. Len(u) /\ u[i] = t[i] /\ j \in 1 .. Len(u) /\ u[j] = t[j]
    BY <1>1
  <2>3. QED
    BY <2>1, <2>2 DEF TwoPersonTrail
<1>4. QED
  BY <1>2, <1>3 DEF Decided, u

\* What Apply appends backs the status it leads to, on any history that
\* backed the status it started from.
LEMMA StepDecides ==
  ASSUME NEW c \in Claims, NEW entry \in Entry, NEW t \in Seq(Event), NEW e \in Event,
         Decided(c, entry, t), entry.status = e.from,
         <<e.from, e.action, e.to>> \in Transitions,
         Permitted(c, e.action, e.actor, e.confirmer), NEW other \in Entry
  PROVE  Decided(c, Advanced(other, e), Append(t, e))
<1> DEFINE u == Append(t, e)
<1>1. /\ Len(u) = Len(t) + 1 /\ Len(t) \in Nat /\ u[Len(u)] = e
      /\ \A i \in 1 .. Len(t) : u[i] = t[i]
  BY AppendProperties, LenProperties
<1> HIDE DEF u
<1>2. Advanced(other, e).status = e.to
  BY DEF Advanced, Entry
<1>3. CASE e.to = "approved"
  <2>1. e.action = "approve" /\ e.actor \notin {OpenedBy[c], Blank}
    BY <1>3 DEF Transitions, Permitted
  <2>2. ApprovedIn(c, u)
    BY <2>1, <1>1 DEF ApprovedIn
  <2>3. QED
    BY <2>2, <1>2, <1>3 DEF Decided, u
<1>4. CASE e.to = "locked"
  <2>1. /\ e.action = "lock" /\ e.from = "approved" /\ e.actor \notin {OpenedBy[c], Blank}
        /\ e.confirmer \notin {NoOne, Blank, e.actor}
    BY <1>4 DEF Transitions, Permitted
  <2>2. PICK i \in 1 .. Len(t) :
          t[i].action = "approve" /\ t[i].actor \notin {OpenedBy[c], Blank}
    BY <2>1 DEF Decided, ApprovedIn
  <2>3. i \in 1 .. Len(u) /\ Len(u) \in 1 .. Len(u) /\ i < Len(u) /\ u[i] = t[i]
    BY <1>1
  <2>4. TwoPersonTrail(c, u)
    BY <2>1, <2>2, <2>3, <1>1 DEF TwoPersonTrail
  <2>5. QED
    BY <2>4, <1>2, <1>4 DEF Decided, u
<1>5. CASE e.to \notin {"approved", "locked"}
  BY <1>2, <1>5 DEF Decided
<1>6. QED
  BY <1>3, <1>4, <1>5

\* An entry that is neither approved nor locked needs no backing.
LEMMA UndecidedEntry ==
  \A c \in Claims : \A t, v : Decided(c, Unknown, t) /\ Decided(c, Draft(v), t)
  BY DEF Decided, Unknown, Draft

LEMMA ApplyPreserves ==
  ASSUME IInv, TypeOK', NEW w \in Workers, NEW c \in Claims, NEW a \in Actions,
         NEW actor \in Names, NEW by \in Names \cup {NoOne}, Apply(w, c, a, actor, by)
  PROVE  BookDecided' /\ EnginesDecided' /\ ExportedWasApproved'
<1> USE DEF IInv
<1> DEFINE entry == engine[w].claims[c]
           Ev(to) == [action |-> a, from |-> entry.status, to |-> to, actor |-> actor,
                      confirmer |-> IF a = "lock" THEN by ELSE NoOne]
<1>1. PICK to \in Statuses :
        /\ <<entry.status, a, to>> \in Transitions
        /\ ReplayTransition(c, Ev(to))
        /\ engine' = [engine EXCEPT ![w].claims[c] = Advanced(entry, Ev(to)),
                                    ![w].history[c] = Append(@, Ev(to))]
  BY DEF Apply
<1>2. entry \in Entry /\ entry.status \in Statuses
  BY <1>1 DEF TypeOK, Transitions, Statuses, Terminal
<1> DEFINE e == Ev(to)
<1>3. /\ e \in Event /\ entry.status = e.from /\ <<e.from, e.action, e.to>> \in Transitions
      /\ Permitted(c, e.action, e.actor, e.confirmer)
  BY <1>1, <1>2 DEF Event, Apply, Permitted
<1>4. /\ trail' = [trail EXCEPT ![c] = Append(@, e)]
      /\ book' = [book EXCEPT ![c] = IF @ = Unknown THEN @ ELSE Advanced(@, e)]
  BY <1>1 DEF ReplayTransition
<1>5. /\ phase[w] = "loaded" /\ phase' = [phase EXCEPT ![w] = "answered"]
      /\ \A x \in Workers : x # w => engine'[x] = engine[x]
      /\ exported' = exported
  BY <1>1 DEF Apply, TypeOK
<1> HIDE DEF e, Ev
<1>6. Decided(c, entry, trail[c]) /\ trail[c] \in Seq(Event) /\ book[c] \in Entry
  BY <1>5 DEF EnginesDecided, TypeOK
<1>7. Decided(c, Advanced(book[c], e), Append(trail[c], e))
  BY <1>2, <1>3, <1>6, StepDecides
<1>8. BookDecided'
  <2> SUFFICES ASSUME NEW d \in Claims PROVE Decided(d, book'[d], trail'[d])
    BY DEF BookDecided
  <2>1. CASE d = c
    <3>1. /\ trail'[c] = Append(trail[c], e)
          /\ book'[c] = IF book[c] = Unknown THEN Unknown ELSE Advanced(book[c], e)
      BY <1>4 DEF TypeOK
    <3>2. CASE book[c] = Unknown
      BY <2>1, <3>1, <3>2, UndecidedEntry
    <3>3. CASE book[c] # Unknown
      BY <2>1, <3>1, <3>3, <1>7
    <3>4. QED
      BY <3>2, <3>3
  <2>2. CASE d # c
    BY <2>2, <1>4 DEF TypeOK, BookDecided
  <2>3. QED
    BY <2>1, <2>2
<1>9. EnginesDecided'
  <2> SUFFICES ASSUME NEW x \in Workers, NEW d \in Claims, phase'[x] = "loaded"
               PROVE  /\ Decided(d, engine'[x].claims[d], engine'[x].history[d])
                      /\ Decided(d, engine'[x].claims[d], trail'[d])
    BY DEF EnginesDecided
  <2>1. x # w /\ phase[x] = "loaded" /\ engine'[x] = engine[x]
    BY <1>5 DEF TypeOK
  <2>2. /\ Decided(d, engine[x].claims[d], engine[x].history[d])
        /\ Decided(d, engine[x].claims[d], trail[d])
    BY <2>1 DEF EnginesDecided
  <2>3. Decided(d, engine[x].claims[d], trail'[d])
    <3>1. CASE d = c
      <4>1. Decided(c, engine[x].claims[c], Append(trail[c], e))
        BY <2>2, <3>1, <1>3, <1>6, DecidedGrows
      <4>2. QED
        BY <4>1, <3>1, <1>4 DEF TypeOK
    <3>2. CASE d # c
      BY <3>2, <2>2, <1>4 DEF TypeOK
    <3>3. QED
      BY <3>1, <3>2
  <2>4. QED
    BY <2>1, <2>2, <2>3
<1>10. QED
  BY <1>5, <1>8, <1>9 DEF ExportedWasApproved

LEMMA DecidedInvariant == IInv /\ [Next]_vars => IInv'
<1> SUFFICES ASSUME IInv, [Next]_vars
             PROVE  BookDecided' /\ EnginesDecided' /\ ExportedWasApproved'
  BY TypeInvariant DEF IInv
<1>0. TypeOK'
  BY TypeInvariant DEF IInv
<1> USE DEF IInv
<1>1. ASSUME NEW w \in Workers, Load(w)
      PROVE  BookDecided' /\ EnginesDecided' /\ ExportedWasApproved'
  BY <1>1 DEF Load, TypeOK, BookDecided, EnginesDecided, ExportedWasApproved
<1>2. ASSUME NEW w \in Workers, NEW c \in Claims, NEW v \in Contents \cup {Blank}, Open(w, c, v)
      PROVE  BookDecided' /\ EnginesDecided' /\ ExportedWasApproved'
  <2>1. /\ book' = [book EXCEPT ![c] = Draft(v)] /\ trail' = trail /\ exported' = exported
        /\ phase' = [phase EXCEPT ![w] = "answered"]
        /\ \A x \in Workers : x # w => engine'[x] = engine[x]
    BY <1>2 DEF Open, ReplayOpen, TypeOK
  <2>2. BookDecided'
    BY <2>1, UndecidedEntry DEF BookDecided, TypeOK
  <2>3. EnginesDecided'
    BY <2>1 DEF EnginesDecided, TypeOK
  <2>4. QED
    BY <2>1, <2>2, <2>3 DEF ExportedWasApproved
<1>3. ASSUME NEW w \in Workers, NEW c \in Claims, NEW a \in Actions, NEW actor \in Names,
             NEW by \in Names \cup {NoOne}, Apply(w, c, a, actor, by)
      PROVE  BookDecided' /\ EnginesDecided' /\ ExportedWasApproved'
  BY <1>0, <1>3, ApplyPreserves
<1>4. ASSUME NEW w \in Workers, NEW C \in SUBSET Claims, Export(w, C)
      PROVE  BookDecided' /\ EnginesDecided' /\ ExportedWasApproved'
  <2>1. \A c \in C : engine[w].claims[c].status = "locked" /\ TwoPersonTrail(c, engine[w].history[c])
    BY <1>4 DEF Export, EnginesDecided, Decided
  <2>2. ExportedWasApproved'
    BY <1>4, <2>1 DEF Export, ExportedWasApproved
  <2>3. BookDecided' /\ EnginesDecided'
    BY <1>4 DEF Export, TypeOK, BookDecided, EnginesDecided
  <2>4. QED
    BY <2>2, <2>3
<1>5. ASSUME NEW w \in Workers, Respond(w)
      PROVE  BookDecided' /\ EnginesDecided' /\ ExportedWasApproved'
  BY <1>5 DEF Respond, TypeOK, BookDecided, EnginesDecided, ExportedWasApproved
<1>6. CASE UNCHANGED vars
  BY <1>6 DEF vars, BookDecided, EnginesDecided, ExportedWasApproved
<1>7. QED
  BY <1>1, <1>2, <1>3, <1>4, <1>5, <1>6 DEF Next

\* However many workers serve requests on stale replays, a claim is exported
\* only with a second person's approval and a confirmed lock in its history.
THEOREM ExportsApproved == Spec => []ExportedWasApproved
<1>1. Init => IInv
  <2>1. Init => TypeOK
    BY EntryTypes, EmptySeq DEF Init, TypeOK
  <2>2. Init => BookDecided /\ EnginesDecided /\ ExportedWasApproved
    BY UndecidedEntry DEF Init, BookDecided, EnginesDecided, ExportedWasApproved
  <2>3. QED
    BY <2>1, <2>2 DEF IInv
<1>2. IInv => ExportedWasApproved
  BY DEF IInv
<1>3. QED
  BY <1>1, <1>2, DecidedInvariant, PTL DEF Spec

(***************************************************************************)
(* One worker: requests are served one at a time.  Then the engine a       *)
(* request decides on is the ledger's present content, and what was        *)
(* exported stays what the ledger says, since nothing leaves "locked".     *)
(***************************************************************************)
EngineIsLedger(w) ==
  phase[w] # "idle" => engine[w] = [claims |-> book, history |-> trail]

UnopenedHasNoTrail == \A c \in Claims : book[c] = Unknown => trail[c] = <<>>

ExportsAreCurrent ==
  \A p \in exported : /\ book[p.claim].status = "locked"
                       /\ p.entry = book[p.claim] /\ p.trail = trail[p.claim]

SInv(w) == TypeOK /\ EngineIsLedger(w) /\ UnopenedHasNoTrail /\ ExportsAreCurrent

\* Entries that come from an open or a transition are not Unknown.
LEMMA KnownEntries ==
  /\ \A v : Draft(v) # Unknown
  /\ \A entry \in Entry, e \in Event : Advanced(entry, e) # Unknown
<1>1. \A v : Draft(v) # Unknown
  <2>1. \A v : Draft(v).status # Unknown.status
    BY DEF Draft, Unknown
  <2>2. QED
    BY <2>1
<1>2. ASSUME NEW entry \in Entry, NEW e \in Event PROVE Advanced(entry, e) # Unknown
  <2>1. Advanced(entry, e).status = e.to /\ e.to \in Statuses
    BY DEF Advanced, Entry, Event
  <2>2. Unknown.status \notin Statuses
    BY DEF Unknown, Statuses, Terminal
  <2>3. QED
    BY <2>1, <2>2
<1>3. QED
  BY <1>1, <1>2

\* With one worker, Apply is one transition of the ledger's own entry.
LEMMA SerialApply ==
  ASSUME NEW w, Workers = {w}, SInv(w), TypeOK', NEW c \in Claims, NEW a \in Actions,
         NEW actor \in Names, NEW by \in Names \cup {NoOne}, Apply(w, c, a, actor, by)
  PROVE  \E e \in Event :
           /\ <<e.from, e.action, e.to>> \in Transitions
           /\ book[c].status = e.from
           /\ (e.action = "lock") = (e.confirmer # NoOne)
           /\ book' = [book EXCEPT ![c] = Advanced(book[c], e)]
           /\ trail' = [trail EXCEPT ![c] = Append(trail[c], e)]
           /\ engine'[w] = [claims |-> book', history |-> trail']
           /\ exported' = exported
<1> USE DEF SInv
<1> DEFINE entry == engine[w].claims[c]
           Ev(to) == [action |-> a, from |-> entry.status, to |-> to, actor |-> actor,
                      confirmer |-> IF a = "lock" THEN by ELSE NoOne]
<1>1. PICK to \in Statuses :
        /\ <<entry.status, a, to>> \in Transitions
        /\ ReplayTransition(c, Ev(to))
        /\ engine' = [engine EXCEPT ![w].claims[c] = Advanced(entry, Ev(to)),
                                    ![w].history[c] = Append(@, Ev(to))]
  BY DEF Apply
<1>2. /\ phase[w] = "loaded" /\ engine[w] = [claims |-> book, history |-> trail]
      /\ entry = book[c] /\ entry \in Entry /\ entry.status \in Statuses
  <2>1. phase[w] = "loaded" /\ engine[w] = [claims |-> book, history |-> trail]
    BY DEF Apply, EngineIsLedger
  <2>2. entry = book[c] /\ entry \in Entry
    BY <2>1 DEF TypeOK
  <2>3. entry.status \in Statuses
    BY <1>1 DEF Transitions, Statuses, Terminal
  <2>4. QED
    BY <2>1, <2>2, <2>3
<1> DEFINE e == Ev(to)
<1>3. /\ e \in Event /\ e.from = book[c].status /\ <<e.from, e.action, e.to>> \in Transitions
      /\ (e.action = "lock") = (e.confirmer # NoOne)
  BY <1>1, <1>2 DEF Event, Apply, Permitted
<1>4. book[c] # Unknown
  BY <1>2 DEF Unknown, Statuses, Terminal
<1> HIDE DEF Ev
<1>5. /\ book' = [book EXCEPT ![c] = Advanced(book[c], e)]
      /\ trail' = [trail EXCEPT ![c] = Append(trail[c], e)]
  BY <1>1, <1>4 DEF ReplayTransition, TypeOK
<1>6. engine'[w] = [claims |-> book', history |-> trail']
  <2>1. /\ engine'[w].claims = [engine[w].claims EXCEPT ![c] = Advanced(entry, e)]
        /\ engine'[w].history = [engine[w].history EXCEPT ![c] = Append(@, e)]
    BY <1>1 DEF TypeOK
  <2>2. engine'[w].claims = book' /\ engine'[w].history = trail'
    BY <2>1, <1>2, <1>5 DEF TypeOK
  <2>3. engine'[w] \in [claims: [Claims -> Entry], history: [Claims -> Seq(Event)]]
    BY DEF TypeOK
  <2>4. QED
    BY <2>2, <2>3
<1>7. exported' = exported
  BY DEF Apply
<1>8. QED
  BY <1>3, <1>5, <1>6, <1>7

\* With one worker, Open fills an unopened entry of the ledger.
LEMMA SerialOpen ==
  ASSUME NEW w, Workers = {w}, SInv(w), TypeOK', NEW c \in Claims,
         NEW v \in Contents \cup {Blank}, Open(w, c, v)
  PROVE  /\ v \in Contents /\ book[c] = Unknown
         /\ book' = [book EXCEPT ![c] = Draft(v)] /\ trail' = trail /\ exported' = exported
         /\ engine'[w] = [claims |-> book', history |-> trail']
<1> USE DEF SInv
<1>1. /\ phase[w] = "loaded" /\ engine[w] = [claims |-> book, history |-> trail]
      /\ book[c] = Unknown /\ trail[c] = <<>> /\ v \in Contents
  BY DEF Open, EngineIsLedger, UnopenedHasNoTrail
<1>2. book' = [book EXCEPT ![c] = Draft(v)] /\ trail' = trail /\ exported' = exported
  BY DEF Open, ReplayOpen
<1>3. /\ engine'[w].claims = [engine[w].claims EXCEPT ![c] = Draft(v)]
      /\ engine'[w].history = [engine[w].history EXCEPT ![c] = <<>>]
  BY DEF Open, TypeOK
<1>4. engine'[w].claims = book' /\ engine'[w].history = trail'
  BY <1>1, <1>2, <1>3 DEF TypeOK
<1>5. engine'[w] \in [claims: [Claims -> Entry], history: [Claims -> Seq(Event)]]
  BY DEF TypeOK
<1>6. QED
  BY <1>1, <1>2, <1>4, <1>5

LEMMA SerialInvariant ==
  ASSUME NEW w, Workers = {w}
  PROVE  SInv(w) /\ [Next]_vars => SInv(w)'
<1> SUFFICES ASSUME SInv(w), [Next]_vars PROVE SInv(w)'
  OBVIOUS
<1>0. TypeOK'
  BY TypeInvariant DEF SInv
<1> USE DEF SInv
<1>1. CASE Load(w)
  BY <1>0, <1>1 DEF Load, TypeOK, EngineIsLedger, UnopenedHasNoTrail, ExportsAreCurrent
<1>2. ASSUME NEW c \in Claims, NEW v \in Contents \cup {Blank}, Open(w, c, v) PROVE SInv(w)'
  <2>1. /\ book[c] = Unknown
        /\ book' = [book EXCEPT ![c] = Draft(v)] /\ trail' = trail /\ exported' = exported
        /\ engine'[w] = [claims |-> book', history |-> trail']
    BY <1>0, <1>2, SerialOpen
  <2>2. UnopenedHasNoTrail'
    BY <2>1, KnownEntries DEF UnopenedHasNoTrail, TypeOK
  <2>3. ExportsAreCurrent'
    <3>1. Unknown.status # "locked"
      BY DEF Unknown
    <3>2. \A p \in exported : p.claim # c /\ p.claim \in Claims
      BY <2>1, <3>1 DEF ExportsAreCurrent, TypeOK
    <3>3. QED
      BY <2>1, <3>2 DEF ExportsAreCurrent, TypeOK
  <2>4. QED
    BY <1>0, <2>1, <2>2, <2>3 DEF EngineIsLedger
<1>3. ASSUME NEW c \in Claims, NEW a \in Actions, NEW actor \in Names,
             NEW by \in Names \cup {NoOne}, Apply(w, c, a, actor, by)
      PROVE  SInv(w)'
  <2>1. PICK e \in Event :
           /\ <<e.from, e.action, e.to>> \in Transitions
           /\ book[c].status = e.from
           /\ book' = [book EXCEPT ![c] = Advanced(book[c], e)]
           /\ trail' = [trail EXCEPT ![c] = Append(trail[c], e)]
           /\ engine'[w] = [claims |-> book', history |-> trail']
           /\ exported' = exported
    BY <1>0, <1>3, SerialApply
  <2>2. UnopenedHasNoTrail'
    BY <2>1, KnownEntries DEF UnopenedHasNoTrail, TypeOK
  <2>3. ExportsAreCurrent'
    <3>1. e.from # "locked"
      BY <2>1 DEF Transitions
    <3>2. \A p \in exported : p.claim # c /\ p.claim \in Claims
      BY <2>1, <3>1 DEF ExportsAreCurrent, TypeOK
    <3>3. QED
      BY <2>1, <3>2 DEF ExportsAreCurrent, TypeOK
  <2>4. QED
    BY <1>0, <2>1, <2>2, <2>3 DEF EngineIsLedger
<1>4. ASSUME NEW C \in SUBSET Claims, Export(w, C) PROVE SInv(w)'
  <2>1. engine[w] = [claims |-> book, history |-> trail]
    BY <1>4 DEF Export, EngineIsLedger
  <2>2. book' = book /\ trail' = trail /\ engine' = engine /\ phase[w] # "idle"
    BY <1>4 DEF Export
  <2>3. ExportsAreCurrent'
    BY <1>4, <2>1, <2>2 DEF Export, ExportsAreCurrent
  <2>4. QED
    BY <1>0, <2>1, <2>2, <2>3 DEF EngineIsLedger, UnopenedHasNoTrail
<1>5. CASE Respond(w)
  BY <1>0, <1>5 DEF Respond, TypeOK, EngineIsLedger, UnopenedHasNoTrail, ExportsAreCurrent
<1>6. CASE UNCHANGED vars
  BY <1>0, <1>6 DEF vars, EngineIsLedger, UnopenedHasNoTrail, ExportsAreCurrent
<1>7. QED
  BY <1>1, <1>2, <1>3, <1>4, <1>5, <1>6 DEF Next

LEMMA SerialInit == ASSUME NEW w, Workers = {w} PROVE Init => SInv(w)
<1> SUFFICES ASSUME Init PROVE SInv(w)
  OBVIOUS
<1>1. TypeOK
  BY EntryTypes, EmptySeq DEF Init, TypeOK
<1>2. EngineIsLedger(w) /\ UnopenedHasNoTrail /\ ExportsAreCurrent
  BY DEF Init, EngineIsLedger, UnopenedHasNoTrail, ExportsAreCurrent
<1>3. QED
  BY <1>1, <1>2 DEF SInv

\* With one worker, the engine that answered a request agrees with a reload
\* of the ledger.
THEOREM SerialReload ==
  ASSUME NEW w, Workers = {w}
  PROVE  Spec => []ReloadAgrees
<1>1. SInv(w) => ReloadAgrees
  BY DEF SInv, EngineIsLedger, ReloadAgrees
<1>2. QED
  BY <1>1, SerialInit, SerialInvariant, PTL DEF Spec

(***************************************************************************)
(* The refinement, step by step.                                           *)
(***************************************************************************)
PublishedAs(c) == {<<p.entry, p.trail>> : p \in {q \in exported : q.claim = c}}

LEMMA SerialStep ==
  ASSUME NEW w, Workers = {w}, SInv(w), SInv(w)', [Next]_vars
  PROVE  [Promise!Next]_(Promise!vars)
<1> USE DEF SInv
<1>1. CASE Load(w)
  BY <1>1 DEF Load, Promise!vars
<1>2. ASSUME NEW c \in Claims, NEW v \in Contents \cup {Blank}, Open(w, c, v)
      PROVE  Promise!Next
  <2>1. /\ v \in Contents /\ book[c] = Unknown
        /\ book' = [book EXCEPT ![c] = Draft(v)] /\ trail' = trail /\ exported' = exported
    BY <1>2, SerialOpen
  <2>2. Promise!Open(c)
    BY <2>1 DEF Promise!Open, Promise!Unopened, Unknown, Draft
  <2>3. QED
    BY <2>2 DEF Promise!Next
<1>3. ASSUME NEW c \in Claims, NEW a \in Actions, NEW actor \in Names,
             NEW by \in Names \cup {NoOne}, Apply(w, c, a, actor, by)
      PROVE  Promise!Next
  <2>1. PICK e \in Event :
           /\ <<e.from, e.action, e.to>> \in Transitions
           /\ book[c].status = e.from
           /\ (e.action = "lock") = (e.confirmer # NoOne)
           /\ book' = [book EXCEPT ![c] = Advanced(book[c], e)]
           /\ trail' = [trail EXCEPT ![c] = Append(trail[c], e)]
           /\ exported' = exported
    BY <1>3, SerialApply
  <2>2. book' = [book EXCEPT ![c].status = e.to,
                             ![c].lockedBy = IF e.action = "lock" THEN e.confirmer ELSE @]
    BY <2>1 DEF Advanced, TypeOK, Entry
  <2>3. Promise!Move(c)
    BY <2>1, <2>2 DEF Promise!Move
  <2>4. QED
    BY <2>3 DEF Promise!Next
<1>4. ASSUME NEW C \in SUBSET Claims, Export(w, C) PROVE Promise!Next
  <2>1. engine[w] = [claims |-> book, history |-> trail] /\ book' = book /\ trail' = trail
    BY <1>4 DEF Export, EngineIsLedger
  <2>2. \A c \in C : book[c].status = "locked"
    BY <1>4, <2>1 DEF Export
  <2>3. exported' = exported \cup {[claim |-> c, entry |-> book[c], trail |-> trail[c]] : c \in C}
    BY <1>4, <2>1 DEF Export
  <2>4. ASSUME NEW c \in C PROVE PublishedAs(c)' = {<<book[c], trail[c]>>}
    <3>1. [claim |-> c, entry |-> book[c], trail |-> trail[c]] \in exported'
      BY <2>3
    <3>2. \A p \in exported' : p.claim = c => p.entry = book[c] /\ p.trail = trail[c]
      BY <2>1 DEF ExportsAreCurrent
    <3>3. QED
      BY <3>1, <3>2 DEF PublishedAs
  <2>5. ASSUME NEW c \in Claims \ C PROVE PublishedAs(c)' = PublishedAs(c)
    <3>1. {q \in exported' : q.claim = c} = {q \in exported : q.claim = c}
      BY <2>3
    <3>2. QED
      BY <3>1 DEF PublishedAs
  <2>6. [c \in Claims |-> PublishedAs(c)'] =
          [c \in Claims |-> IF c \in C THEN {<<book[c], trail[c]>>} ELSE PublishedAs(c)]
    BY <2>4, <2>5
  <2>7. Promise!Publish(C)
    BY <2>1, <2>2, <2>6 DEF Promise!Publish, PublishedAs
  <2>8. QED
    BY <2>7 DEF Promise!Next
<1>5. CASE Respond(w)
  BY <1>5 DEF Respond, Promise!vars
<1>6. CASE UNCHANGED vars
  BY <1>6 DEF vars, Promise!vars
<1>7. QED
  BY <1>1, <1>2, <1>3, <1>4, <1>5, <1>6 DEF Next

\* Served one at a time, the requests keep the promises of ClaimPromise: the
\* ledger with its replays implements the abstract lifecycle.
THEOREM SerialKeepsPromise ==
  ASSUME NEW w, Workers = {w}
  PROVE  Spec => KeepsPromise
<1>1. Init => Promise!Init
  BY DEF Init, Promise!Init, Promise!Unopened, Unknown
<1>2. SInv(w) /\ SInv(w)' /\ [Next]_vars => [Promise!Next]_(Promise!vars)
  BY SerialStep
<1>3. QED
  BY <1>1, <1>2, SerialInit, SerialInvariant, PTL DEF Spec, KeepsPromise, Promise!Spec
=============================================================================
