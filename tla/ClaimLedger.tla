----------------------------- MODULE ClaimLedger -----------------------------
(***************************************************************************)
(* The claim lifecycle (control_plane/claims.py) behind its HTTP surface   *)
(* (api/claims/routes.py).  Every request builds an engine by replaying    *)
(* the append-only ledger, answers from that private copy, and appends at  *)
(* most one record.  Nothing is locked between the replay and the append,  *)
(* so with two Workers the copy a request decides on may be stale.         *)
(*                                                                         *)
(* load() is a left fold over the ledger's lines, so the file is kept as   *)
(* the state its replay yields now: book (engine.claims) and trail         *)
(* (engine.history).  Appending a line applies that line's case of load()  *)
(* to them.  Times, notes and evidence are left out; a name is its         *)
(* strip().lower() form, and Blank is the name or statement that strips    *)
(* to nothing.                                                             *)
(***************************************************************************)
EXTENDS Naturals, Sequences

CONSTANTS Claims,     \* claim ids (content hashes of kind, subject, window, opener)
          OpenedBy,   \* [Claims -> opener]: the opener is part of the id
          People,     \* named actors
          Blank,      \* a whitespace-only name or statement
          NoOne,      \* confirmed_by or locked_by that is None
          Contents,   \* statements and asserted values a claim may carry
          Workers,    \* request handlers (threads or processes)
          MaxTrail    \* bound: transitions recorded for one claim

ASSUME ClaimAssumption ==
  /\ Blank \notin People \cup Contents
  /\ NoOne \notin People \cup {Blank}
  /\ OpenedBy \in [Claims -> People \cup {Blank}]
  /\ MaxTrail \in Nat

VARIABLES book,      \* [Claims -> the entry a replay of the ledger ends with]
          trail,     \* [Claims -> the transitions a replay collects, in order]
          phase,     \* [Workers -> where the worker is in its request]
          engine,    \* [Workers -> the claims and history its engine holds]
          exported   \* export packages handed out, one record per claim in them

vars == <<book, trail, phase, engine, exported>>

(***************************************************************************)
(* The lifecycle as data.                                                  *)
(***************************************************************************)
Transitions ==
  { <<"draft",        "submit",       "submitted">>,
    <<"draft",        "withdraw",     "withdrawn">>,
    <<"submitted",    "start_review", "under_review">>,
    <<"submitted",    "withdraw",     "withdrawn">>,
    <<"under_review", "approve",      "approved">>,
    <<"under_review", "reject",       "rejected">>,
    <<"under_review", "withdraw",     "withdrawn">>,
    <<"approved",     "lock",         "locked">> }

Terminal == {"locked", "rejected", "withdrawn"}
Statuses == {"draft", "submitted", "under_review", "approved"} \cup Terminal
Actions == {"submit", "start_review", "approve", "reject", "lock", "withdraw"}
Names == People \cup {Blank}

Entry == [status: Statuses \cup {"absent"}, content: Contents \cup {Blank},
          lockedBy: Names \cup {NoOne}]
Event == [action: Actions, from: Statuses, to: Statuses, actor: Names,
          confirmer: Names \cup {NoOne}]

\* What self.claims.get(id) says of an id that is not there.
Unknown == [status |-> "absent", content |-> Blank, lockedBy |-> NoOne]
Draft(v) == [status |-> "draft", content |-> v, lockedBy |-> NoOne]

\* _advance: the status moves, and LOCK alone sets locked_by.
Advanced(entry, e) ==
  [entry EXCEPT !.status = e.to,
                !.lockedBy = IF e.action = "lock" THEN e.confirmer ELSE @]

(***************************************************************************)
(* The ledger: what load() makes of one more line.  An OPEN overwrites the *)
(* claim and keeps the history; a TRANSITION is applied unchecked.         *)
(***************************************************************************)
ReplayOpen(c, entry) ==
  /\ book' = [book EXCEPT ![c] = entry]
  /\ UNCHANGED trail

\* Mutation: replay collects the history without advancing the claim.
ReplayHistoryOnly(c, e) ==
  /\ trail' = [trail EXCEPT ![c] = Append(@, e)]
  /\ UNCHANGED book

ReplayTransition(c, e) ==
  /\ trail' = [trail EXCEPT ![c] = Append(@, e)]
  /\ book' = [book EXCEPT ![c] = IF @ = Unknown THEN @ ELSE Advanced(@, e)]

(***************************************************************************)
(* Requests.  Load(w) starts any of them; the request is then answered by  *)
(* Open, Apply, Export or Refuse.  Refuse also stands for a worker that    *)
(* dies before its append.                                                 *)
(***************************************************************************)
EmptyEngine == [claims |-> [c \in Claims |-> Unknown],
                history |-> [c \in Claims |-> <<>>]]

Load(w) ==
  /\ phase[w] = "idle"
  /\ phase' = [phase EXCEPT ![w] = "loaded"]
  /\ engine' = [engine EXCEPT ![w] = [claims |-> book, history |-> trail]]
  /\ UNCHANGED <<book, trail, exported>>

Open(w, c, statement) ==
  /\ phase[w] = "loaded"
  /\ engine[w].claims[c] = Unknown
  /\ statement # Blank
  /\ ReplayOpen(c, Draft(statement))
  /\ engine' = [engine EXCEPT ![w].claims[c] = Draft(statement),
                              ![w].history[c] = <<>>]
  /\ phase' = [phase EXCEPT ![w] = "answered"]
  /\ UNCHANGED exported

\* Mutation: four-eyes guards the lock only.
PermittedSelfApproval(c, action, actor, confirmer) ==
  /\ actor # Blank
  /\ action = "lock" => /\ actor # OpenedBy[c]
                        /\ confirmer \notin {NoOne, Blank, actor}

\* Four-eyes compares the actor with the claim's opener; a lock also needs a
\* named confirmer who is not the actor.
Permitted(c, action, actor, confirmer) ==
  /\ actor # Blank
  /\ action \in {"approve", "lock"} => actor # OpenedBy[c]
  /\ action = "lock" => confirmer \notin {NoOne, Blank, actor}

Apply(w, c, action, actor, confirmer) ==
  LET entry == engine[w].claims[c] IN
  /\ phase[w] = "loaded"
  /\ Len(trail[c]) < MaxTrail
  /\ Permitted(c, action, actor, confirmer)
  /\ \E to \in Statuses :
       LET e == [action |-> action, from |-> entry.status, to |-> to, actor |-> actor,
                 confirmer |-> IF action = "lock" THEN confirmer ELSE NoOne] IN
       /\ <<entry.status, action, to>> \in Transitions
       /\ ReplayTransition(c, e)
       /\ engine' = [engine EXCEPT ![w].claims[c] = Advanced(entry, e),
                                   ![w].history[c] = Append(@, e)]
  /\ phase' = [phase EXCEPT ![w] = "answered"]
  /\ UNCHANGED exported

\* Mutation: one locked claim carries the whole package out.
ExportAnyLocked(w, C) ==
  /\ phase[w] = "loaded"
  /\ \E c \in C : engine[w].claims[c].status = "locked"
  /\ exported' = exported \cup
       {[claim |-> c, entry |-> engine[w].claims[c], trail |-> engine[w].history[c]] : c \in C}
  /\ phase' = [phase EXCEPT ![w] = "answered"]
  /\ UNCHANGED <<book, trail, engine>>

\* All-locked or nothing; the package holds each claim and its history.
Export(w, C) ==
  /\ phase[w] = "loaded"
  /\ C # {}
  /\ \A c \in C : engine[w].claims[c].status = "locked"
  /\ exported' = exported \cup
       {[claim |-> c, entry |-> engine[w].claims[c], trail |-> engine[w].history[c]] : c \in C}
  /\ phase' = [phase EXCEPT ![w] = "answered"]
  /\ UNCHANGED <<book, trail, engine>>

\* The response is sent (or the request refused) and the engine discarded.
Respond(w) ==
  /\ phase[w] \in {"loaded", "answered"}
  /\ phase' = [phase EXCEPT ![w] = "idle"]
  /\ engine' = [engine EXCEPT ![w] = EmptyEngine]
  /\ UNCHANGED <<book, trail, exported>>

Init ==
  /\ book = [c \in Claims |-> Unknown]
  /\ trail = [c \in Claims |-> <<>>]
  /\ phase = [w \in Workers |-> "idle"]
  /\ engine = [w \in Workers |-> EmptyEngine]
  /\ exported = {}

Next ==
  \E w \in Workers :
    \/ Load(w)
    \/ \E c \in Claims, v \in Contents \cup {Blank} : Open(w, c, v)
    \/ \E c \in Claims, a \in Actions, actor \in Names, by \in Names \cup {NoOne} :
         Apply(w, c, a, actor, by)
    \/ \E C \in SUBSET Claims : Export(w, C)
    \/ Respond(w)

Spec == Init /\ [][Next]_vars

(***************************************************************************)
(* Properties.                                                             *)
(***************************************************************************)

\* Every variable has its type.
TypeOK ==
  /\ book \in [Claims -> Entry]
  /\ trail \in [Claims -> Seq(Event)]
  /\ phase \in [Workers -> {"idle", "loaded", "answered"}]
  /\ engine \in [Workers -> [claims: [Claims -> Entry], history: [Claims -> Seq(Event)]]]
  /\ exported \subseteq [claim: Claims, entry: Entry, trail: Seq(Event)]

\* An approval and, later, a lock; neither by the opener, and the lock
\* confirmed by somebody who did not make it.
TwoPersonTrail(c, t) ==
  \E i, j \in 1 .. Len(t) :
    /\ i < j
    /\ t[i].action = "approve" /\ t[i].actor \notin {OpenedBy[c], Blank}
    /\ t[j].action = "lock" /\ t[j].actor \notin {OpenedBy[c], Blank}
    /\ t[j].confirmer \notin {NoOne, Blank, t[j].actor}

\* However requests interleave, a claim leaves the governed boundary only
\* with a second person's approval and a confirmed lock in the history that
\* is exported with it: export() trusts the status of a possibly stale
\* engine, and that status was itself written by a stale engine.
ExportedWasApproved ==
  \A p \in exported : p.entry.status = "locked" /\ TwoPersonTrail(p.claim, p.trail)

\* When nobody else wrote meanwhile, the engine that answered a request and
\* a reload of the ledger agree, claims and history alike: "a reloaded
\* engine lands on exactly the live state" (_advance).
ReloadAgrees ==
  \A w \in Workers : phase[w] = "answered" => engine[w] = [claims |-> book, history |-> trail]

\* Terminal statuses have no outgoing transitions.
TerminalIsFinal ==
  [][\A c \in Claims : book[c].status \in Terminal => book'[c].status = book[c].status]_vars

(***************************************************************************)
(* Refinement: what the ledger and the exports show of the lifecycle.      *)
(***************************************************************************)
Promise == INSTANCE ClaimPromise WITH
  claim <- book,
  trail <- trail,
  published <- [c \in Claims |-> {<<p.entry, p.trail>> : p \in {q \in exported : q.claim = c}}],
  Events <- {e \in Event : <<e.from, e.action, e.to>> \in Transitions}

\* Served one at a time, requests keep every promise of ClaimPromise.
KeepsPromise == Promise!Spec
=============================================================================
