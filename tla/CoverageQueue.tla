---------------------------- MODULE CoverageQueue ----------------------------
(***************************************************************************)
(* The queue of questions that the NL layer could not answer: a JSONL file *)
(* that record() reads, changes and writes back whole, and list() reads.   *)
(*                                                                         *)
(* A queue object holds its lock over each of the two.  The HTTP routes    *)
(* build a queue, so a lock, for every request; a program that keeps one   *)
(* queue has one lock.  The process may die between two steps.             *)
(***************************************************************************)
EXTENDS Naturals, Sequences, FiniteSets, TLC

CONSTANTS Requests,    \* calls of record() and list()
          Asked,       \* questions that are asked, each with a reason; a question
                       \* is normalised and its hash is itself
          Blank,       \* the empty reason
          Nobody,      \* no request holds the lock
          MaxDeaths    \* bound: process deaths

ASSUME CoverageAssumption ==
  /\ Nobody \notin Requests
  /\ IsFiniteSet(Requests) /\ MaxDeaths \in Nat

VARIABLES queue,    \* the file: its lines, and whether one of them is cut
          objects,  \* "one" queue for all requests or one for "each"
          holder,   \* who holds the lock of the one queue
          requests, \* [Requests -> request]
          stamp,    \* the clock of last_requested_at
          deaths

coverageVars == <<queue, objects, holder, requests, stamp, deaths>>

Waiting == [pc |-> "idle", op |-> "list", question |-> Blank, reason |-> Blank,
            records |-> <<>>]

Move(r, pc) == requests' = [requests EXCEPT ![r].pc = pc]
LetGo(r) == holder' = IF holder = r THEN Nobody ELSE holder

\* POST and GET /coverage-requests.
Arrive(r, op, q, why) ==
  /\ requests[r].pc = "idle"
  /\ requests' = [requests EXCEPT ![r] =
       [Waiting EXCEPT !.pc = "enter", !.op = op, !.question = q, !.reason = why]]
  /\ UNCHANGED <<queue, objects, holder, stamp, deaths>>

\* Mutation: no lock is taken.
EnterUnlocked(r) ==
  /\ requests[r].pc = "enter"
  /\ Move(r, "read")
  /\ UNCHANGED <<queue, objects, holder, stamp, deaths>>

\* with self._lock: the lock of this object.
EnterLock(r) ==
  /\ requests[r].pc = "enter"
  /\ objects = "one" => holder = Nobody
  /\ holder' = IF objects = "one" THEN r ELSE holder
  /\ Move(r, "read")
  /\ UNCHANGED <<queue, objects, stamp, deaths>>

(***************************************************************************)
(* record()                                                                *)
(***************************************************************************)
Given(why) == {why} \ {Blank}
Fresh(q, why) == [question |-> q, count |-> 1, reasons |-> Given(why), last |-> stamp]
AgainTwice(old, why) == [old EXCEPT !.count = @ + 2, !.reasons = @ \cup Given(why), !.last = stamp]
Again(old, why) == [old EXCEPT !.count = @ + 1, !.reasons = @ \cup Given(why), !.last = stamp]

\* The first record of the question is changed, or one is appended.
Changed(records, q, why) ==
  LET at == {i \in 1..Len(records) : records[i].question = q} IN
  IF at = {} THEN Append(records, Fresh(q, why))
  ELSE LET first == CHOOSE i \in at : \A j \in at : i <= j
       IN [records EXCEPT ![first] = Again(@, why)]

\* _read_records; a cut line fails the call, an empty file is an empty queue.
ReadForRecord(r) ==
  /\ requests[r].pc = "read" /\ requests[r].op = "record" /\ ~queue.cut
  /\ requests' = [requests EXCEPT ![r].pc = "truncate",
       ![r].records = Changed(queue.lines, requests[r].question, requests[r].reason)]
  /\ stamp' = stamp + 1
  /\ UNCHANGED <<queue, objects, holder, deaths>>

ReadFails(r) ==
  /\ requests[r].pc = "read" /\ queue.cut
  /\ Move(r, "failed")
  /\ LetGo(r)
  /\ UNCHANGED <<queue, objects, stamp, deaths>>

\* write_text opens the file, which empties it, and then writes the lines.
Truncate(r) ==
  /\ requests[r].pc = "truncate"
  /\ queue' = [lines |-> <<>>, cut |-> FALSE]
  /\ Move(r, "write")
  /\ UNCHANGED <<objects, holder, stamp, deaths>>

\* Over what another request wrote since: its longer tail stays, and the line
\* where the two meet is whole only if they happen to align.
Overwritten(lines) ==
  {[lines |-> lines \o SubSeq(queue.lines, Len(lines) + 1, Len(queue.lines)), cut |-> c] :
     c \in IF queue.lines = <<>> /\ ~queue.cut THEN {FALSE} ELSE BOOLEAN}

WriteRecords(r) ==
  /\ requests[r].pc = "write"
  /\ queue' \in Overwritten(requests[r].records)
  /\ Move(r, "done")
  /\ LetGo(r)
  /\ UNCHANGED <<objects, stamp, deaths>>

(***************************************************************************)
(* list()                                                                  *)
(***************************************************************************)
\* Most requested first, the later request first among equals.
Above(a, b) == a.count > b.count \/ (a.count = b.count /\ a.last >= b.last)
Ranked(records) == SortSeq(records, Above)

ReadForList(r) ==
  /\ requests[r].pc = "read" /\ requests[r].op = "list" /\ ~queue.cut
  /\ requests' = [requests EXCEPT ![r].pc = "done", ![r].records = Ranked(queue.lines)]
  /\ LetGo(r)
  /\ UNCHANGED <<queue, objects, stamp, deaths>>

\* The process dies and the locks with it; a write may have got part of its
\* lines into the file.
Torn == {[lines |-> SubSeq(requests[r].records, 1, Len(requests[r].records) - 1), cut |-> TRUE] :
         r \in {w \in Requests : requests[w].pc = "write"}}
Die ==
  /\ deaths < MaxDeaths
  /\ deaths' = deaths + 1
  /\ queue' \in {queue} \cup Torn
  /\ requests' = [r \in Requests |->
       IF requests[r].pc \in {"idle", "done", "failed"} THEN requests[r]
       ELSE [requests[r] EXCEPT !.pc = "died"]]
  /\ holder' = Nobody
  /\ UNCHANGED <<objects, stamp>>

CoverageInit ==
  /\ queue = [lines |-> <<>>, cut |-> FALSE]
  /\ objects \in {"one", "each"}
  /\ holder = Nobody
  /\ requests = [r \in Requests |-> Waiting]
  /\ stamp = 0 /\ deaths = 0

CoverageNext ==
  \/ \E r \in Requests :
       \/ \E ask \in Asked : Arrive(r, "record", ask[1], ask[2])
       \/ Arrive(r, "list", Blank, Blank)
       \/ EnterLock(r) \/ ReadForRecord(r) \/ ReadFails(r) \/ Truncate(r)
       \/ WriteRecords(r) \/ ReadForList(r)
  \/ Die

CoverageSpec == CoverageInit /\ [][CoverageNext]_coverageVars

(***************************************************************************)
(* Properties.                                                             *)
(***************************************************************************)
Asking(q) == {r \in Requests : requests[r].op = "record" /\ requests[r].question = q}
Recorded == {r \in Requests : requests[r].op = "record" /\ requests[r].pc = "done"}
Lines == {queue.lines[i] : i \in 1..Len(queue.lines)}

\* However requests interleave, share a lock or not, and die, no line claims
\* more requests for its question than were made (request_count ranks what is
\* built next).
NeverOvercounts ==
  \A line \in Lines :
    line.count <= Cardinality({r \in Asking(line.question) :
                                requests[r].pc \in {"truncate", "write", "done", "died"}})

\* While requests share one queue and the process lives, the file, once written,
\* has one record for each question asked, which counts every request for it
\* and keeps every reason: 'Thread-safe JSONL store, one deduplicated record
\* per distinct question' (coverage.py:24).
OneLockCountsAll ==
  objects = "one" /\ deaths = 0 /\ (\A r \in Requests : requests[r].pc # "write") =>
    /\ ~queue.cut
    /\ Len(queue.lines) = Cardinality({requests[r].question : r \in Recorded})
    /\ \A r \in Recorded : \E line \in Lines :
         LET asked == Asking(requests[r].question) \cap Recorded IN
         /\ line.question = requests[r].question
         /\ line.count = Cardinality(asked)
         /\ line.reasons = {requests[a].reason : a \in asked} \ {Blank}

\* The docstring's claim of the queue objects that the routes build: violated,
\* for two requests read the same file and the later write loses the earlier.
ThreadSafe ==
  deaths = 0 /\ (\A r \in Requests : requests[r].pc \in {"idle", "done"}) =>
    Len(queue.lines) = Cardinality({requests[r].question : r \in Recorded})

=============================================================================
