------------------------------- MODULE DataRoom -------------------------------
(***************************************************************************)
(* Search over an acquisition data room: the grants of the principal scope *)
(* the query to the vector store, and every hit is asked of the policy     *)
(* again before it is returned.                                            *)
(*                                                                         *)
(* The policy is a file that its owner replaces at any time; no step of a  *)
(* search remembers more of it than the grants it began with.  The store   *)
(* may apply the filter or not, and its points may lack their identity.    *)
(* Several searches run at once; they share policy, store and audit file.  *)
(***************************************************************************)
EXTENDS Naturals, FiniteSets

CONSTANTS Searches,   \* search requests
          Principals, Rooms, Documents,
          Policies,   \* contents of the policy file
          Unreadable, \* no file, not JSON, or another schema
          Malformed,  \* a grant list or a list of roles that is none
          NoEntry,    \* no such room, document, payload or request field
          MaxTopK,    \* max_top_k
          MaxEdits    \* bound: changes of the policy file and of the store

\* rooms[r] is NoEntry or the grants of its documents: NoEntry, Malformed or who
\* is on the list, principals by name and roles by theirs.
ASSUME DataRoomAssumption ==
  /\ MaxTopK \in Nat \ {0} /\ MaxEdits \in Nat
  /\ IsFiniteSet(Documents) /\ NoEntry \notin Rooms \cup Documents \cup Principals
  /\ Unreadable \notin Policies

VARIABLES policy,   \* the policy file
          points,   \* the store: [Documents -> room of the payload, NoEntry or "stripped"]
          honest,   \* the store applies the filter it is given
          searches, \* [Searches -> search]
          trail,    \* rows of the audit file
          allowedSince, \* history: [Searches -> what the policy allowed at some moment
                        \* since the store answered]
          edits

dataRoomVars == <<policy, points, honest, searches, trail, allowedSince, edits>>

(***************************************************************************)
(* FileAclPolicySource                                                     *)
(***************************************************************************)
\* _grants_match: a malformed list of grants allows nobody.
Names(p, roles) == {<<"principal", p>>} \cup {<<"role", r>> : r \in roles}
GrantsMatch(grants, p, roles) ==
  grants \notin {NoEntry, Malformed} /\ grants \cap Names(p, roles) # {}

\* _principal_roles: malformed roles are an error, an unknown principal has none.
RolesFail(pol, p) == pol.roles[p] = Malformed
RolesOf(pol, p) == IF pol.roles[p] = NoEntry THEN {} ELSE pol.roles[p]

\* allowed_documents, and whether it raises.
AllowedFails(pol, p, room) ==
  pol # Unreadable => pol.rooms[room] # NoEntry /\ RolesFail(pol, p)
AllowedDocuments(pol, p, room) ==
  IF pol.rooms[room] = NoEntry THEN {}
  ELSE {d \in Documents : GrantsMatch(pol.rooms[room][d], p, RolesOf(pol, p))}

\* is_allowed, and whether it raises: an unknown document is denied before the
\* roles are looked at.
VerifyFails(pol, p, room, d) ==
  pol # Unreadable =>
    pol.rooms[room] # NoEntry /\ pol.rooms[room][d] # NoEntry /\ RolesFail(pol, p)
IsAllowed(pol, p, room, d) == d \in AllowedDocuments(pol, p, room)

\* What the policy says now, of a search that runs.
AllowsNow(pol, s) ==
  IF AllowedFails(pol, s.principal, s.room) THEN {}
  ELSE AllowedDocuments(pol, s.principal, s.room)

(***************************************************************************)
(* DataRoomRetrievalService.search                                         *)
(***************************************************************************)
NoSearch == [pc |-> "idle", principal |-> NoEntry, room |-> NoEntry, limit |-> 0,
             granted |-> {}, hits |-> {}, kept |-> {}, removed |-> {},
             outcome |-> NoEntry]

Clamp(k) == IF k < 1 THEN 1 ELSE IF k > MaxTopK THEN MaxTopK ELSE k

Search(q, p, room, k) ==
  /\ searches[q].pc = "idle"
  /\ searches' = [searches EXCEPT ![q] =
       [NoSearch EXCEPT !.pc = "grants", !.principal = p, !.room = room, !.limit = Clamp(k)]]
  /\ UNCHANGED <<policy, points, honest, trail, allowedSince, edits>>

\* To the audit row with this outcome; what follows it is in Answer and Raise.
Conclude(q, s, outcome) ==
  searches' = [searches EXCEPT ![q] = [s EXCEPT !.pc = "audit", !.outcome = outcome]]

ReadGrants(q) ==
  LET s == searches[q] IN
  /\ s.pc = "grants"
  /\ IF AllowedFails(policy, s.principal, s.room)
     THEN Conclude(q, s, "policy_unavailable")
     ELSE LET allowed == AllowedDocuments(policy, s.principal, s.room) IN
          IF allowed = {} THEN Conclude(q, s, "no_grants")
          ELSE searches' = [searches EXCEPT ![q].pc = "query", ![q].granted = allowed]
  /\ UNCHANGED <<policy, points, honest, trail, allowedSince, edits>>

StoreOutage(q) ==
  /\ searches[q].pc = "query"
  /\ Conclude(q, searches[q], "store_unavailable")
  /\ UNCHANGED <<policy, points, honest, trail, allowedSince, edits>>

\* The hits carry the room that their payload has now.  A store that applies the
\* filter returns as many points as match it and the limit allows.
Hit(d) == [doc |-> d, room |-> points[d]]
Present == {d \in Documents : points[d] # NoEntry}
Matching(granted) == {d \in Present \cap granted : points[d] # "stripped"}
Least(a, b) == IF a < b THEN a ELSE b

StoreAnswers(q) ==
  LET s == searches[q] IN
  /\ s.pc = "query"
  /\ \E found \in SUBSET Present :
       /\ Cardinality(found) <= s.limit
       /\ honest => /\ found \subseteq Matching(s.granted)
                    /\ Cardinality(found) = Least(s.limit, Cardinality(Matching(s.granted)))
       /\ searches' = [searches EXCEPT ![q].pc = "verify", ![q].hits = {Hit(d) : d \in found}]
  /\ allowedSince' = [allowedSince EXCEPT ![q] = AllowsNow(policy, s)]
  /\ UNCHANGED <<policy, points, honest, trail, edits>>

\* One hit against a fresh read; a payload of another room or none is dropped
\* before the policy is asked.
VerifyByGrants(q, h) ==
  LET s == searches[q] IN
  /\ s.pc = "verify" /\ h \in s.hits /\ h.room = s.room
  /\ searches' = [searches EXCEPT ![q].hits = @ \ {h},
       ![q].kept = IF h.doc \in s.granted THEN @ \cup {h.doc} ELSE @,
       ![q].removed = IF h.doc \in s.granted THEN @ ELSE @ \cup {h.doc}]
  /\ UNCHANGED <<policy, points, honest, trail, allowedSince, edits>>
Verify(q, h) ==
  LET s == searches[q] IN
  /\ s.pc = "verify" /\ h \in s.hits /\ h.room = s.room
  /\ ~VerifyFails(policy, s.principal, s.room, h.doc)
  /\ LET ok == IsAllowed(policy, s.principal, s.room, h.doc) IN
     searches' = [searches EXCEPT ![q].hits = @ \ {h},
       ![q].kept = IF ok THEN @ \cup {h.doc} ELSE @,
       ![q].removed = IF ok THEN @ ELSE @ \cup {h.doc}]
  /\ UNCHANGED <<policy, points, honest, trail, allowedSince, edits>>

DropUnidentified(q, h) ==
  /\ searches[q].pc = "verify" /\ h \in searches[q].hits /\ h.room # searches[q].room
  /\ searches' = [searches EXCEPT ![q].hits = @ \ {h}, ![q].removed = @ \cup {h.doc}]
  /\ UNCHANGED <<policy, points, honest, trail, allowedSince, edits>>

\* The policy cannot be read: the search raises at once, past the audit.
VerifyRaises(q, h) ==
  LET s == searches[q] IN
  /\ s.pc = "verify" /\ h \in s.hits /\ h.room = s.room
  /\ VerifyFails(policy, s.principal, s.room, h.doc)
  /\ searches' = [searches EXCEPT ![q].pc = "raised", ![q].kept = {}, ![q].hits = {}]
  /\ UNCHANGED <<policy, points, honest, trail, allowedSince, edits>>

Verified(q) ==
  /\ searches[q].pc = "verify" /\ searches[q].hits = {}
  /\ Conclude(q, searches[q],
              IF searches[q].removed = {} THEN "executed" ELSE "post_verify_removed")
  /\ UNCHANGED <<policy, points, honest, trail, allowedSince, edits>>

\* DataRoomAudit.append, under the lock of the file's path.
AuditRow(q) == [search |-> q, outcome |-> searches[q].outcome, removed |-> searches[q].removed]
Refusals == {"policy_unavailable", "store_unavailable"}

AuditQuietly(q) ==
  /\ searches[q].pc = "audit"
  /\ trail' = IF searches[q].outcome = "executed" THEN trail ELSE trail \cup {AuditRow(q)}
  /\ searches' = [searches EXCEPT ![q].pc =
       IF searches[q].outcome \in Refusals THEN "raised" ELSE "answered"]
  /\ UNCHANGED <<policy, points, honest, allowedSince, edits>>
Audit(q) ==
  /\ searches[q].pc = "audit"
  /\ trail' = trail \cup {AuditRow(q)}
  /\ searches' = [searches EXCEPT ![q].pc =
       IF searches[q].outcome \in Refusals THEN "raised" ELSE "answered"]
  /\ UNCHANGED <<policy, points, honest, allowedSince, edits>>

\* The row cannot be written: the caller gets an error and no document.
AuditFails(q) ==
  /\ searches[q].pc = "audit"
  /\ searches' = [searches EXCEPT ![q].pc = "raised", ![q].kept = {}]
  /\ UNCHANGED <<policy, points, honest, trail, allowedSince, edits>>

(***************************************************************************)
(* What changes around a search.                                           *)
(***************************************************************************)
EditPolicy(pol) ==
  /\ edits < MaxEdits /\ pol # policy
  /\ policy' = pol
  /\ allowedSince' = [q \in Searches |->
       IF searches[q].pc = "verify" THEN allowedSince[q] \cup AllowsNow(pol, searches[q])
       ELSE allowedSince[q]]
  /\ edits' = edits + 1
  /\ UNCHANGED <<points, honest, searches, trail>>

\* index_document: the point's id is the document's, whatever its room.
IndexDocument(room, d) ==
  /\ edits < MaxEdits /\ points[d] # room
  /\ points' = [points EXCEPT ![d] = room]
  /\ edits' = edits + 1
  /\ UNCHANGED <<policy, honest, searches, trail, allowedSince>>

DataRoomInit ==
  /\ policy \in Policies
  /\ points \in [Documents -> Rooms \cup {"stripped", NoEntry}]
  /\ honest \in BOOLEAN
  /\ searches = [q \in Searches |-> NoSearch]
  /\ trail = {}
  /\ allowedSince = [q \in Searches |-> {}]
  /\ edits = 0

DataRoomNext ==
  \/ \E q \in Searches :
       \/ \E p \in Principals, room \in Rooms, k \in {0, MaxTopK, MaxTopK + 1} : Search(q, p, room, k)
       \/ ReadGrants(q) \/ StoreOutage(q) \/ StoreAnswers(q)
       \/ \E h \in searches[q].hits : Verify(q, h) \/ DropUnidentified(q, h) \/ VerifyRaises(q, h)
       \/ Verified(q) \/ Audit(q) \/ AuditFails(q)
  \/ \E pol \in Policies \cup {Unreadable} : EditPolicy(pol)
  \/ \E room \in Rooms, d \in Documents : IndexDocument(room, d)

DataRoomSpec == DataRoomInit /\ [][DataRoomNext]_dataRoomVars

(***************************************************************************)
(* Properties.                                                             *)
(***************************************************************************)
\* Whatever the store returns and whenever grants change, a search returns only
\* documents that the policy allowed at some moment after the store had answered:
\* a grant withdrawn while the store searched is not honoured any more.
ReturnedWasAllowed ==
  \A q \in Searches : searches[q].pc = "answered" => searches[q].kept \subseteq allowedSince[q]

\* An answer has its audit row, with what was removed from it, before the caller
\* sees it; an error has one unless the audit file or the policy, asked again
\* about a hit, cannot be used.
AnswerIsAudited ==
  \A q \in Searches :
    /\ searches[q].pc = "answered" => AuditRow(q) \in trail
    /\ searches[q].pc = "audit" => ~\E row \in trail : row.search = q

\* 'Every search - executed, refused, or filtered - is appended to the JSONL audit
\* trail before the caller sees the result' (data_room.py:43).  Violated: a policy
\* that turns unreadable between the two stages raises past the audit.
EverySearchIsAudited ==
  \A q \in Searches : searches[q].pc \in {"answered", "raised"} =>
    \E row \in trail : row.search = q

=============================================================================
