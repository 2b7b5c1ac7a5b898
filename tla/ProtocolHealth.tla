---------------------------- MODULE ProtocolHealth ----------------------------
(***************************************************************************)
(* The protocol health endpoint: a handshake with the MCP server, the      *)
(* comparison of its tools with the pinned baseline, a call to Qdrant, and *)
(* the alarms that are made of them; and the operator who pins baselines.  *)
(*                                                                         *)
(* Server and baseline file change at any time between two calls.  What a  *)
(* server answers is a condition it is in, as far as the prober tells      *)
(* conditions apart; the hash of a tool list is the list.                  *)
(***************************************************************************)
EXTENDS Naturals

CONSTANTS ToolLists,   \* tool lists a server may have
          Unpinned,    \* no baseline for this target, and no tool list
          Garbled,     \* a baseline file that is not JSON or cannot be read
          MaxUpgrades, \* bound: changes of the server
          MaxPins      \* bound: pins by the operator, and damages to the file

ASSUME HealthAssumption ==
  /\ Unpinned \notin ToolLists /\ Garbled \notin ToolLists /\ Unpinned # Garbled
  /\ MaxUpgrades \in Nat /\ MaxPins \in Nat

VARIABLES server,   \* condition of the MCP server, and its tools
          qdrant,   \* condition of the store
          baseline, \* the baseline file
          probe,    \* the probe of the endpoint
          pin,      \* the operator's pin
          seen,     \* history: baselines the file held from the listing of the tools on
          upgrades, pins

healthVars == <<server, qdrant, baseline, probe, pin, seen, upgrades, pins>>

\* A connection refused, a timeout, another transport fault, a 401 or 403, another
\* status, a body that is no JSON-RPC answer (or an error, or lacks serverInfo or
\* well-formed tools), a result that is no object.
Conditions == {"well", "refused", "slow", "cut", "denied", "http", "garbage", "odd"}

(***************************************************************************)
(* Classification.                                                         *)
AlarmCodesUntimed == {"unreachable", "auth", "protocol_error", "schema_drift"}
AlarmCodes == {"unreachable", "timeout", "auth", "protocol_error", "schema_drift"}

\* A code, "next" where the handshake goes on, or "raises" where the code asks a
\* value that is no object for a key.
ClassifyInitialize(c) ==
  CASE c \in {"refused", "cut"}     -> "unreachable"
    [] c = "slow"                   -> "timeout"
    [] c = "denied"                 -> "auth"
    [] c \in {"http", "garbage"}    -> "protocol_error"
    [] c = "odd"                    -> "raises"
    [] OTHER                        -> "next"

\* Of tools/list a refused connection is a protocol error.
ClassifyToolsList(c) ==
  CASE c = "slow"    -> "timeout"
    [] c = "denied"  -> "auth"
    [] c = "well"    -> "next"
    [] OTHER         -> "protocol_error"

ClassifyQdrant(c) == IF c = "well" THEN "ok" ELSE ClassifyInitialize(c)

DriftCode(pinned, tools) ==
  IF pinned \in {Unpinned, Garbled} THEN "baseline_missing"
  ELSE IF pinned # tools THEN "schema_drift" ELSE "ok"

(***************************************************************************)
(* probe_all: the handshake, then Qdrant, then the report.                 *)
(***************************************************************************)
NoProbe == [pc |-> "idle", code |-> "none", tools |-> Unpinned, qdrant |-> "none", alarms |-> {}]
Others == <<server, qdrant, baseline, pin, upgrades, pins>>

StartProbe ==
  /\ probe.pc \in {"idle", "reported", "raised"}
  /\ probe' = [NoProbe EXCEPT !.pc = "initialize"]
  /\ seen' = {}
  /\ UNCHANGED Others

Classified(code, next) ==
  probe' = CASE code = "next"   -> [probe EXCEPT !.pc = next]
             [] code = "raises" -> [probe EXCEPT !.pc = "raised"]
             [] OTHER           -> [probe EXCEPT !.pc = "qdrant", !.code = code]

Initialize ==
  /\ probe.pc = "initialize"
  /\ Classified(ClassifyInitialize(server.condition), "initialized")
  /\ UNCHANGED <<Others, seen>>

\* The notification's failure is suppressed.
Initialized ==
  /\ probe.pc = "initialized"
  /\ probe' = [probe EXCEPT !.pc = "tools"]
  /\ UNCHANGED <<Others, seen>>

ListTools ==
  /\ probe.pc = "tools"
  /\ LET code == ClassifyToolsList(server.condition) IN
     IF code = "next" THEN /\ probe' = [probe EXCEPT !.pc = "drift", !.tools = server.tools]
                           /\ seen' = {baseline}
     ELSE Classified(code, "drift") /\ UNCHANGED seen
  /\ UNCHANGED Others

DriftCheck ==
  /\ probe.pc = "drift"
  /\ probe' = [probe EXCEPT !.pc = "qdrant", !.code = DriftCode(baseline, probe.tools)]
  /\ UNCHANGED <<Others, seen>>

ProbeQdrant ==
  /\ probe.pc = "qdrant"
  /\ LET code == ClassifyQdrant(qdrant) IN
     probe' = IF code = "raises" THEN [probe EXCEPT !.pc = "raised"]
              ELSE [probe EXCEPT !.pc = "report", !.qdrant = code]
  /\ UNCHANGED <<Others, seen>>

Report ==
  /\ probe.pc = "report"
  /\ probe' = [probe EXCEPT !.pc = "reported",
       !.alarms = ({<<"wren-mcp", probe.code>>} \cup {<<"qdrant", probe.qdrant>>})
                    \cap ({"wren-mcp", "qdrant"} \X AlarmCodes)]
  /\ UNCHANGED <<Others, seen>>

(***************************************************************************)
(* pin_baselines: a probe of its own, then the file is read, changed and   *)
(* written back, emptied in between.                                       *)
(***************************************************************************)
FileBecomes(b) ==
  /\ baseline' = b
  /\ seen' = IF probe.pc = "drift" THEN seen \cup {b} ELSE seen

\* The probe of a pin, as one step: of a failed handshake it has no hash.
ProbeForPin ==
  /\ pin.pc = "idle" /\ pins < MaxPins /\ server.condition # "odd"
  /\ pin' = [pc |-> "read", tools |-> IF server.condition = "well" THEN server.tools ELSE Unpinned]
  /\ pins' = pins + 1
  /\ UNCHANGED <<server, qdrant, baseline, probe, seen, upgrades>>

\* An unreadable file is not overwritten; without a hash the old entry stays.
ReadForPinBlind ==
  /\ pin.pc = "read"
  /\ pin' = [pin EXCEPT !.pc = "empty", !.tools = IF @ = Unpinned THEN baseline ELSE @]
  /\ UNCHANGED <<server, qdrant, baseline, probe, seen, upgrades, pins>>
ReadForPin ==
  /\ pin.pc = "read"
  /\ pin' = IF baseline = Garbled THEN [pc |-> "idle", tools |-> Unpinned]
            ELSE [pc |-> "empty", tools |-> IF pin.tools = Unpinned THEN baseline ELSE pin.tools]
  /\ UNCHANGED <<server, qdrant, baseline, probe, seen, upgrades, pins>>

EmptyBaseline ==
  /\ pin.pc = "empty"
  /\ FileBecomes(Garbled)
  /\ pin' = [pin EXCEPT !.pc = "write"]
  /\ UNCHANGED <<server, qdrant, probe, upgrades, pins>>

WriteBaseline ==
  /\ pin.pc = "write"
  /\ FileBecomes(pin.tools)
  /\ pin' = [pc |-> "idle", tools |-> Unpinned]
  /\ UNCHANGED <<server, qdrant, probe, upgrades, pins>>

\* The state directory is runtime state: the file may be removed or damaged.
LoseBaseline(b) ==
  /\ pins < MaxPins /\ pin.pc = "idle" /\ baseline # b
  /\ FileBecomes(b)
  /\ pins' = pins + 1
  /\ UNCHANGED <<server, qdrant, probe, pin, upgrades>>

\* An upgrade, an outage or a repair of either service.
ChangeServer(c, tools) ==
  /\ upgrades < MaxUpgrades
  /\ server' = [condition |-> c, tools |-> tools] /\ server' # server
  /\ upgrades' = upgrades + 1
  /\ UNCHANGED <<qdrant, baseline, probe, pin, seen, pins>>

ChangeQdrant(c) ==
  /\ upgrades < MaxUpgrades
  /\ qdrant' = c /\ qdrant' # qdrant
  /\ upgrades' = upgrades + 1
  /\ UNCHANGED <<server, baseline, probe, pin, seen, pins>>

HealthInit ==
  /\ server \in [condition : {"well"}, tools : ToolLists]
  /\ qdrant = "well"
  /\ baseline \in {Unpinned} \cup ToolLists
  /\ probe = NoProbe
  /\ pin = [pc |-> "idle", tools |-> Unpinned]
  /\ seen = {}
  /\ upgrades = 0 /\ pins = 0

HealthNext ==
  \/ StartProbe \/ Initialize \/ Initialized \/ ListTools \/ DriftCheck \/ ProbeQdrant \/ Report
  \/ ProbeForPin \/ ReadForPin \/ EmptyBaseline \/ WriteBaseline
  \/ \E b \in {Unpinned, Garbled} : LoseBaseline(b)
  \/ \E c \in Conditions : ChangeQdrant(c) \/ \E tools \in ToolLists : ChangeServer(c, tools)

HealthSpec == HealthInit /\ [][HealthNext]_healthVars

(***************************************************************************)
(* Properties.                                                             *)
(***************************************************************************)
HealthTypeOK ==
  /\ server \in [condition : Conditions, tools : ToolLists]
  /\ qdrant \in Conditions
  /\ baseline \in ToolLists \cup {Unpinned, Garbled}
  /\ probe.pc \in {"idle", "initialize", "initialized", "tools", "drift", "qdrant", "report",
                   "reported", "raised"}
  /\ probe.tools \in ToolLists \cup {Unpinned}
  /\ pin \in [pc : {"idle", "read", "empty", "write"}, tools : ToolLists \cup {Unpinned}]
  /\ upgrades \in 0..MaxUpgrades /\ pins \in 0..MaxPins

Reported == probe.pc = "reported"
AlarmOf(target) == {a \in probe.alarms : a[1] = target}

\* A report without an alarm for the MCP server is of a server that listed tools
\* which the baseline pinned, or whose baseline was missing or unreadable, at some
\* moment after the listing: no failed handshake passes for a quiet one.
QuietMeansMatched ==
  Reported /\ AlarmOf("wren-mcp") = {} =>
    /\ probe.tools # Unpinned
    /\ seen \cap {probe.tools, Unpinned, Garbled} # {}

\* 'Always HTTP 200' (mcp_health.py:35): a probe always ends in a report.  Violated:
\* a result that is not an object is asked for a key.
ProbeNeverRaises == probe.pc # "raised"

\* Drift stays an alarm while an operator pins.  Violated: the file is empty between
\* opening and writing, which the prober takes for no baseline and does not alarm.
PinningHidesNoDrift ==
  Reported /\ probe.tools # Unpinned /\ probe.tools \notin seen
    /\ seen \cap ToolLists # {} /\ Unpinned \notin seen
    => AlarmOf("wren-mcp") # {}

=============================================================================
