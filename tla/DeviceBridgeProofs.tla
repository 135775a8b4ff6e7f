------------------------- MODULE DeviceBridgeProofs -------------------------
(***************************************************************************)
(* The device bridge of DeviceBridge is correct for any numbers of devices,*)
(* commands and tokens, any limits, and any number of crashes and losses.  *)
(***************************************************************************)
EXTENDS DeviceBridge, FiniteSetTheorems, TLAPS

(***************************************************************************)
(* The records: a command row and the agent, field by field.               *)
(***************************************************************************)
Command == [state: {"none", "queued", "leased", "done", "expired"},
            device: Devices \cup {None}, result: Bodies \cup {None}]
Upload == [sent: SUBSET Commands, todo: SUBSET Commands]
Thens == {"poll", "top"}
Counts == 0 .. Limit
Agent == [config: Devices \cup {None}, identity: Devices \cup {None}, key: BOOLEAN, pc: AgentPCs, then: Thens,
          batch: SUBSET Commands, running: Commands \cup {None}, rows: Upload, accepted: Counts]

LEMMA LimitFacts == Limit \in Nat /\ Limit >= 1 /\ 0 \in Counts
BY BridgeAssumption DEF Counts

LEMMA CommandState ==
  ASSUME NEW x \in Command, NEW s \in {"none", "queued", "leased", "done", "expired"}
  PROVE  LET new == [x EXCEPT !.state = s] IN
         new \in Command /\ new.state = s /\ new.device = x.device /\ new.result = x.result
BY Zenon DEF Command

LEMMA CommandDone ==
  ASSUME NEW x \in Command, NEW b \in Bodies
  PROVE  LET new == [x EXCEPT !.state = "done", !.result = b] IN
         new \in Command /\ new.state = "done" /\ new.device = x.device /\ new.result = b
<1>1. [x EXCEPT !.state = "done"] \in Command
  BY Zenon DEF Command
<1>2. [[x EXCEPT !.state = "done"] EXCEPT !.result = b] \in Command
  BY <1>1, Zenon DEF Command
<1> QED BY <1>2, Zenon DEF Command

LEMMA AgentPC ==
  ASSUME NEW a \in Agent, NEW pc \in AgentPCs
  PROVE  LET new == [a EXCEPT !.pc = pc] IN
         /\ new \in Agent /\ new.pc = pc /\ new.config = a.config /\ new.identity = a.identity /\ new.then = a.then
         /\ new.batch = a.batch /\ new.running = a.running /\ new.rows = a.rows /\ new.accepted = a.accepted
BY Zenon DEF Agent

Turned(a, pc, t) == [a EXCEPT !.pc = pc, !.then = t]

LEMMA AgentThen ==
  ASSUME NEW a \in Agent, NEW pc \in AgentPCs, NEW t \in Thens
  PROVE  LET new == Turned(a, pc, t) IN
         /\ new \in Agent /\ new.pc = pc /\ new.config = a.config /\ new.identity = a.identity /\ new.then = t
         /\ new.batch = a.batch /\ new.running = a.running /\ new.rows = a.rows /\ new.accepted = a.accepted
<1>1. [[a EXCEPT !.pc = pc] EXCEPT !.then = t] \in Agent
  BY AgentPC, Zenon DEF Agent
<1> QED BY <1>1, Zenon DEF Agent, Turned

LEMMA AgentConfig ==
  ASSUME NEW a \in Agent, NEW d \in Devices \cup {None}
  PROVE  LET new == [a EXCEPT !.config = d] IN
         /\ new \in Agent /\ new.pc = a.pc /\ new.config = d /\ new.identity = a.identity /\ new.then = a.then
         /\ new.batch = a.batch /\ new.running = a.running /\ new.rows = a.rows /\ new.accepted = a.accepted
BY Zenon DEF Agent

Keyed(a, d, k) == [a EXCEPT !.config = d, !.key = k]

LEMMA AgentKeyed ==
  ASSUME NEW a \in Agent, NEW d \in Devices \cup {None}, NEW k \in BOOLEAN
  PROVE  LET new == Keyed(a, d, k) IN
         /\ new \in Agent /\ new.pc = a.pc /\ new.config = d /\ new.identity = a.identity
         /\ new.batch = a.batch /\ new.running = a.running /\ new.rows = a.rows /\ new.accepted = a.accepted
<1> DEFINE z == [a EXCEPT !.config = d]
<1>1. /\ z \in Agent /\ z.pc = a.pc /\ z.config = d /\ z.identity = a.identity
      /\ z.batch = a.batch /\ z.running = a.running /\ z.rows = a.rows /\ z.accepted = a.accepted
  BY AgentConfig, Zenon
<1>2. Keyed(a, d, k) = [z EXCEPT !.key = k]
  BY Zenon DEF Keyed
<1> HIDE DEF z
<1>3. [z EXCEPT !.key = k] \in Agent
  BY <1>1, Zenon DEF Agent
<1> QED BY <1>1, <1>2, <1>3, Zenon DEF Agent

Adopted(a, pc, d) == [a EXCEPT !.pc = pc, !.identity = d]

LEMMA AgentIdentity ==
  ASSUME NEW a \in Agent, NEW pc \in AgentPCs, NEW d \in Devices \cup {None}
  PROVE  LET new == Adopted(a, pc, d) IN
         /\ new \in Agent /\ new.pc = pc /\ new.config = a.config /\ new.identity = d /\ new.then = a.then
         /\ new.batch = a.batch /\ new.running = a.running /\ new.rows = a.rows /\ new.accepted = a.accepted
<1>1. [[a EXCEPT !.pc = pc] EXCEPT !.identity = d] \in Agent
  BY AgentPC, Zenon DEF Agent
<1> QED BY <1>1, Zenon DEF Agent, Adopted

Handed(a, pc, b) == [a EXCEPT !.pc = pc, !.batch = b]

LEMMA AgentBatch ==
  ASSUME NEW a \in Agent, NEW pc \in AgentPCs, NEW b \in SUBSET Commands
  PROVE  LET new == Handed(a, pc, b) IN
         /\ new \in Agent /\ new.pc = pc /\ new.config = a.config /\ new.identity = a.identity /\ new.then = a.then
         /\ new.batch = b /\ new.running = a.running /\ new.rows = a.rows /\ new.accepted = a.accepted
<1>1. [[a EXCEPT !.pc = pc] EXCEPT !.batch = b] \in Agent
  BY AgentPC, Zenon DEF Agent
<1> QED BY <1>1, Zenon DEF Agent, Handed

LEMMA AgentNext ==
  ASSUME NEW a \in Agent, NEW b \in SUBSET Commands
  PROVE  LET new == [a EXCEPT !.batch = b] IN
         /\ new \in Agent /\ new.pc = a.pc /\ new.config = a.config /\ new.identity = a.identity /\ new.then = a.then
         /\ new.batch = b /\ new.running = a.running /\ new.rows = a.rows /\ new.accepted = a.accepted
BY Zenon DEF Agent

Ended(a, pc, x) == [a EXCEPT !.pc = pc, !.running = x]

LEMMA AgentRan ==
  ASSUME NEW a \in Agent, NEW pc \in AgentPCs, NEW x \in Commands \cup {None}
  PROVE  LET new == Ended(a, pc, x) IN
         /\ new \in Agent /\ new.pc = pc /\ new.config = a.config /\ new.identity = a.identity /\ new.then = a.then
         /\ new.batch = a.batch /\ new.running = x /\ new.rows = a.rows /\ new.accepted = a.accepted
<1>1. [[a EXCEPT !.pc = pc] EXCEPT !.running = x] \in Agent
  BY AgentPC, Zenon DEF Agent
<1> QED BY <1>1, Zenon DEF Agent, Ended

Posted(a, pc, u) == [a EXCEPT !.pc = pc, !.rows = u]

LEMMA AgentUploads ==
  ASSUME NEW a \in Agent, NEW pc \in AgentPCs, NEW u \in Upload
  PROVE  LET new == Posted(a, pc, u) IN
         /\ new \in Agent /\ new.pc = pc /\ new.config = a.config /\ new.identity = a.identity /\ new.then = a.then
         /\ new.batch = a.batch /\ new.running = a.running /\ new.rows = u /\ new.accepted = a.accepted
<1>1. [[a EXCEPT !.pc = pc] EXCEPT !.rows = u] \in Agent
  BY AgentPC, Zenon DEF Agent
<1> QED BY <1>1, Zenon DEF Agent, Posted

LEMMA AgentCounts ==
  ASSUME NEW a \in Agent, NEW n \in Counts
  PROVE  LET new == [a EXCEPT !.accepted = n] IN
         /\ new \in Agent /\ new.pc = a.pc /\ new.config = a.config /\ new.identity = a.identity /\ new.then = a.then
         /\ new.batch = a.batch /\ new.running = a.running /\ new.rows = a.rows /\ new.accepted = n
BY Zenon DEF Agent

Taken(a, t, n) == [a EXCEPT !.rows.todo = t, !.accepted = n]

Takes(a, t, n) == a \in Agent /\ t \in SUBSET Commands /\ n \in Counts

TookOne(new, a, t, n) ==
  /\ new \in Agent /\ new.pc = a.pc /\ new.config = a.config /\ new.identity = a.identity
  /\ new.batch = a.batch /\ new.running = a.running /\ new.accepted = n
  /\ new.rows.sent = a.rows.sent /\ new.rows.todo = t

LEMMA AgentTakes ==
  ASSUME NEW a, NEW t, NEW n, Takes(a, t, n)
  PROVE  TookOne(Taken(a, t, n), a, t, n)
<1>0. a \in Agent /\ t \in SUBSET Commands /\ n \in Counts
  BY Zenon DEF Takes
<1> DEFINE u == [a.rows EXCEPT !.todo = t]
<1>1. u \in Upload /\ u.sent = a.rows.sent /\ u.todo = t
  BY <1>0, Zenon DEF Agent, Upload
<1>2. Taken(a, t, n) = [[a EXCEPT !.rows = u] EXCEPT !.accepted = n]
  BY <1>0, Zenon DEF Taken, Agent
<1> HIDE DEF u
<1>3. [a EXCEPT !.rows = u] \in Agent
  BY <1>0, <1>1, Zenon DEF Agent
<1>4. [[a EXCEPT !.rows = u] EXCEPT !.accepted = n] \in Agent
  BY <1>0, <1>3, Zenon DEF Agent
<1> QED BY <1>0, <1>1, <1>2, <1>4, Zenon DEF Agent, TookOne

LEMMA AgentTop ==
  ASSUME NEW a \in Agent
  PROVE  /\ Top(a) \in Agent /\ Top(a).pc = "top" /\ Top(a).config = a.config /\ Top(a).identity = a.identity
         /\ Top(a).batch = {} /\ Top(a).running = None /\ Top(a).rows = NoRows /\ Top(a).accepted = 0
<1>0. NoRows \in Upload /\ 0 \in Counts /\ "top" \in AgentPCs
  BY LimitFacts DEF NoRows, Upload, AgentPCs
<1> DEFINE z == [a EXCEPT !.pc = "top"]
           b == [z EXCEPT !.batch = {}]
           c == [b EXCEPT !.running = None]
           e == [c EXCEPT !.rows = NoRows]
<1>1. Top(a) = [e EXCEPT !.accepted = 0]
  BY Zenon DEF Top
<1>b. {} \in SUBSET Commands
  OBVIOUS
<1>z. z \in Agent /\ z.pc = "top" /\ z.config = a.config /\ z.identity = a.identity
  BY <1>0, Zenon DEF Agent
<1> HIDE DEF z
<1>2. b \in Agent /\ b.pc = "top" /\ b.config = a.config /\ b.identity = a.identity /\ b.batch = {}
  BY <1>z, <1>b, Zenon DEF Agent
<1> HIDE DEF b
<1>3. c \in Agent /\ c.pc = "top" /\ c.config = a.config /\ c.identity = a.identity /\ c.batch = {} /\ c.running = None
  BY <1>2, Zenon DEF Agent
<1> HIDE DEF c
<1>4. e \in Agent /\ e.pc = "top" /\ e.config = a.config /\ e.identity = a.identity /\ e.batch = {} /\ e.running = None /\ e.rows = NoRows
  BY <1>0, <1>3, Zenon DEF Agent
<1> HIDE DEF e
<1> QED BY <1>0, <1>1, <1>4, Zenon DEF Agent

LEMMA AgentStopped ==
  ASSUME NEW a \in Agent
  PROVE  /\ Stopped(a) \in Agent /\ Stopped(a).pc = "down" /\ Stopped(a).config = a.config
         /\ Stopped(a).identity = a.identity /\ Stopped(a).batch = {} /\ Stopped(a).running = None
         /\ Stopped(a).rows = NoRows /\ Stopped(a).accepted = 0
<1>1. "down" \in AgentPCs /\ "poll" \in Thens
  BY DEF AgentPCs, Thens
<1> DEFINE t == Top(a)
           z == [t EXCEPT !.pc = "down"]
           new == [z EXCEPT !.then = "poll"]
<1>2. /\ t \in Agent /\ t.config = a.config /\ t.identity = a.identity
      /\ t.batch = {} /\ t.running = None /\ t.rows = NoRows /\ t.accepted = 0
  BY AgentTop, Zenon
<1>3. Stopped(a) = new
  BY Zenon DEF Stopped
<1> HIDE DEF t
<1>z. /\ z \in Agent /\ z.pc = "down" /\ z.config = t.config /\ z.identity = t.identity
      /\ z.batch = t.batch /\ z.running = t.running /\ z.rows = t.rows /\ z.accepted = t.accepted
  BY <1>1, <1>2, AgentPC, Zenon
<1> HIDE DEF z
<1>4. /\ new \in Agent /\ new.pc = "down" /\ new.config = t.config /\ new.identity = t.identity
      /\ new.batch = t.batch /\ new.running = t.running /\ new.rows = t.rows /\ new.accepted = t.accepted
  BY <1>1, <1>z, Zenon DEF Agent
<1> HIDE DEF new
<1> QED BY <1>2, <1>3, <1>4, Zenon

LEMMA AgentUnkeyed ==
  ASSUME NEW a \in Agent
  PROVE  LET new == [Top(a) EXCEPT !.pc = "unkeyed", !.key = FALSE] IN
         /\ new \in Agent /\ new.pc = "unkeyed" /\ new.config = a.config /\ new.identity = a.identity
         /\ new.batch = {} /\ new.running = None /\ new.rows = NoRows /\ new.accepted = 0
<1>1. "unkeyed" \in AgentPCs
  BY DEF AgentPCs
<1> DEFINE t == Top(a)
           b == [t EXCEPT !.pc = "unkeyed"]
           new == [b EXCEPT !.key = FALSE]
<1>2. /\ t \in Agent /\ t.config = a.config /\ t.identity = a.identity
      /\ t.batch = {} /\ t.running = None /\ t.rows = NoRows /\ t.accepted = 0
  BY AgentTop, Zenon
<1>3. [Top(a) EXCEPT !.pc = "unkeyed", !.key = FALSE] = new
  BY Zenon
<1> HIDE DEF t
<1>4. /\ b \in Agent /\ b.pc = "unkeyed" /\ b.config = t.config /\ b.identity = t.identity
      /\ b.batch = t.batch /\ b.running = t.running /\ b.rows = t.rows /\ b.accepted = t.accepted
  BY <1>1, <1>2, AgentPC, Zenon
<1> HIDE DEF b
<1>5. /\ new \in Agent /\ new.pc = b.pc /\ new.config = b.config /\ new.identity = b.identity
      /\ new.batch = b.batch /\ new.running = b.running /\ new.rows = b.rows /\ new.accepted = b.accepted
  BY <1>4, Zenon DEF Agent
<1> HIDE DEF new
<1> QED BY <1>2, <1>3, <1>4, <1>5, Zenon

LEMMA AgentWipes ==
  ASSUME NEW a \in Agent
  PROVE  LET new == [a EXCEPT !.pc = "wiping", !.config = None] IN
         /\ new \in Agent /\ new.pc = "wiping" /\ new.config = None /\ new.identity = a.identity
         /\ new.batch = a.batch /\ new.running = a.running /\ new.rows = a.rows /\ new.accepted = a.accepted
<1>1. "wiping" \in AgentPCs
  BY DEF AgentPCs
<1> DEFINE b == [a EXCEPT !.pc = "wiping"]
           new == [b EXCEPT !.config = None]
<1>2. /\ b \in Agent /\ b.pc = "wiping" /\ b.identity = a.identity
      /\ b.batch = a.batch /\ b.running = a.running /\ b.rows = a.rows /\ b.accepted = a.accepted
  BY <1>1, AgentPC, Zenon
<1>3. [a EXCEPT !.pc = "wiping", !.config = None] = new
  BY Zenon
<1> HIDE DEF b
<1>4. /\ new \in Agent /\ new.pc = b.pc /\ new.config = None /\ new.identity = b.identity
      /\ new.batch = b.batch /\ new.running = b.running /\ new.rows = b.rows /\ new.accepted = b.accepted
  BY <1>2, AgentConfig
<1> HIDE DEF new
<1> QED BY <1>2, <1>3, <1>4, Zenon

LEMMA AgentRemoved ==
  ASSUME NEW a \in Agent
  PROVE  LET new == [Stopped(a) EXCEPT !.config = None, !.key = FALSE] IN
         /\ new \in Agent /\ new.pc = "down" /\ new.config = None /\ new.identity = a.identity
         /\ new.batch = {} /\ new.running = None /\ new.rows = NoRows /\ new.accepted = 0
<1> DEFINE t == Stopped(a)
           new == Keyed(t, None, FALSE)
<1>1. /\ t \in Agent /\ t.pc = "down" /\ t.identity = a.identity
      /\ t.batch = {} /\ t.running = None /\ t.rows = NoRows /\ t.accepted = 0
  BY AgentStopped, Zenon
<1>2. [Stopped(a) EXCEPT !.config = None, !.key = FALSE] = new
  BY Zenon DEF Keyed
<1> HIDE DEF t
<1>3. /\ new \in Agent /\ new.pc = t.pc /\ new.config = None /\ new.identity = t.identity
      /\ new.batch = t.batch /\ new.running = t.running /\ new.rows = t.rows /\ new.accepted = t.accepted
  BY <1>1, AgentKeyed, Zenon
<1> HIDE DEF new
<1> QED BY <1>1, <1>2, <1>3, Zenon

(***************************************************************************)
(* The store: what one transaction may do to a command.                    *)
(***************************************************************************)
StoreType ==
  /\ enrollment \in [Devices -> {"none", "open", "consumed"}]
  /\ device \in [Devices -> {"absent", "active", "revoked"}]
  /\ command \in [Commands -> Command]
  /\ due \in [Commands -> {"fresh", "lapsed", "over"}]
  /\ token \in [Tokens -> [state: {"none", "live", "revoked"}, device: Devices \cup {None}]]
  /\ relay \subseteq Tokens

\* A command has a device as soon as it is issued, and a device was registered once.
Issued ==
  /\ \A c \in Commands : command[c].state = "none" <=> command[c].device = None
  /\ \A c \in Commands : command[c].device # None => device[command[c].device] # "absent"
  /\ \A d \in Devices : enrollment[d] # "consumed" => device[d] = "absent"

StoreInv == StoreType /\ Issued /\ RevokedIsQuiet

\* A command stays as it is, is issued to an active device, expires, or is leased or
\* done by its own active device.
CommandMove(c) ==
  \/ command'[c] = command[c]
  \/ command[c].state = "none" /\ command'[c].state = "queued" /\ Active(command'[c].device)
  \/ /\ command[c].state \in Live /\ command'[c].device = command[c].device
     /\ \/ command'[c].state = "expired"
        \/ command'[c].state = "leased" /\ Active(command[c].device)
        \/ command'[c].state = "done" /\ Active(command[c].device) /\ command[c].state = "leased"

\* What the moves of a command keep, whoever makes them.
CommandOnward(c) ==
  /\ command[c].state # "none" => command'[c].state # "none" /\ command'[c].device = command[c].device
  /\ command[c].state \in {"done", "expired"} => command'[c] = command[c]
  /\ command'[c].state = "done" /\ command[c].state # "done" => command[c].state = "leased"

CommandsMove == command' \in [Commands -> Command] /\ \A c \in Commands : CommandMove(c)
CommandsOnward == \A c \in Commands : CommandOnward(c)

LEMMA MovesOnward ==
  ASSUME CommandsMove
  PROVE  CommandsOnward
<1> SUFFICES ASSUME NEW c \in Commands PROVE CommandOnward(c)
  BY Zenon DEF CommandsOnward
<1>1. CommandMove(c)
  BY Zenon DEF CommandsMove
<1> QED BY <1>1, Zenon DEF CommandMove, CommandOnward, Live

LEMMA StoreMoves ==
  ASSUME StoreInv, CommandsMove, UNCHANGED <<enrollment, device, token>>,
         due' \in [Commands -> {"fresh", "lapsed", "over"}], relay' \subseteq Tokens
  PROVE  StoreInv'
<1>1. StoreType'
  BY Zenon DEF StoreInv, StoreType, CommandsMove
<1>n. None \notin Devices
  BY BridgeAssumption, Zenon
<1>2. ASSUME NEW c \in Commands
      PROVE  /\ command'[c].state = "none" <=> command'[c].device = None
             /\ command'[c].device # None => device[command'[c].device] # "absent"
  <2>1. CommandMove(c)
    BY Zenon DEF CommandsMove
  <2>2. command[c].state = "none" <=> command[c].device = None
    BY Zenon DEF StoreInv, Issued
  <2>3. command[c].device # None => device[command[c].device] # "absent"
    BY Zenon DEF StoreInv, Issued
  <2>4. ASSUME NEW d, Active(d) PROVE d # None /\ device[d] # "absent"
    BY <2>4, <1>n, Zenon DEF Active
  <2> QED BY <2>1, <2>2, <2>3, <2>4, Zenon DEF CommandMove, Live
<1>3. Issued'
  BY <1>2, Zenon DEF Issued, StoreInv
<1>4. ASSUME NEW d \in Devices, device[d] = "revoked", NEW c \in Commands, command'[c].device = d
      PROVE  command'[c].state \notin Live
  <2>1. CommandMove(c)
    BY Zenon DEF CommandsMove
  <2>2. command[c].device = d => command[c].state \notin Live
    BY <1>4, Zenon DEF StoreInv, RevokedIsQuiet
  <2>3. ~Active(d)
    BY <1>4, Zenon DEF Active
  <2> QED BY <1>4, <2>1, <2>2, <2>3, Zenon DEF CommandMove, Live
<1>5. ASSUME NEW d \in Devices, device[d] = "revoked", NEW t \in Tokens, token[t].device = d
      PROVE  token[t].state = "revoked"
  BY <1>5, Zenon DEF StoreInv, RevokedIsQuiet
<1>6. RevokedIsQuiet'
  BY <1>4, <1>5, Zenon DEF RevokedIsQuiet
<1> QED BY <1>1, <1>3, <1>6, Zenon DEF StoreInv

(***************************************************************************)
(* The transactions on commands.                                           *)
(***************************************************************************)
LEMMA ExpiredRow ==
  ASSUME StoreType, NEW d, NEW c \in Commands
  PROVE  /\ Expired(d)[c] \in Command
         /\ \/ Expired(d)[c] = command[c]
            \/ /\ command[c].state \in Live /\ command[c].device = d
               /\ Expired(d)[c].state = "expired" /\ Expired(d)[c].device = command[c].device
         /\ command[c].state \notin Live \/ due[c] # "over" => Expired(d)[c] = command[c]
<1>1. command[c] \in Command
  BY Zenon DEF StoreType
<1> DEFINE new == [command[c] EXCEPT !.state = "expired"]
<1>2. new \in Command /\ new.state = "expired" /\ new.device = command[c].device
  BY <1>1, CommandState, Zenon
<1>3. Expired(d)[c] = IF command[c].device = d /\ command[c].state \in Live /\ due[c] = "over" THEN new ELSE command[c]
  BY Zenon DEF Expired
<1> HIDE DEF new
<1> QED BY <1>1, <1>2, <1>3, Zenon

LEMMA ExpiredMove ==
  ASSUME StoreType, NEW d, NEW c \in Commands, command'[c] = Expired(d)[c]
  PROVE  /\ CommandMove(c) /\ command'[c] \in Command
         /\ command'[c].state = "expired" \/ command'[c] = command[c]
<1> DEFINE e == Expired(d)[c]
<1>1. /\ e \in Command
      /\ e = command[c] \/ (command[c].state \in Live /\ e.state = "expired" /\ e.device = command[c].device)
  BY ExpiredRow, Zenon
<1>2. command'[c] = e
  BY Zenon
<1> HIDE DEF e
<1> QED BY <1>1, <1>2, Zenon DEF CommandMove

LEMMA ExpiredMoves ==
  ASSUME StoreType, NEW d, command' = Expired(d)
  PROVE  CommandsMove
<1>1. command' \in [Commands -> Command]
  <2>1. DOMAIN Expired(d) = Commands /\ Expired(d) = [c \in Commands |-> Expired(d)[c]]
    BY Zenon DEF Expired
  <2> QED BY <2>1, ExpiredRow, Zenon
<1>2. ASSUME NEW c \in Commands PROVE CommandMove(c)
  BY ExpiredRow, Zenon DEF CommandMove
<1> QED BY <1>1, <1>2, Zenon DEF CommandsMove

LEMMA EnqueueMoves ==
  ASSUME StoreType, NEW d, NEW c \in Commands, Enqueue(d, c)
  PROVE  /\ CommandsMove
         /\ \A b \in Commands : command'[b].state \in {"leased", "done"} => command'[b] = command[b]
<1> DEFINE fresh == [state |-> "queued", device |-> d, result |-> None]
<1>1. Active(d) /\ command[c].state = "none" /\ command' = [Expired(d) EXCEPT ![c] = fresh]
  BY Zenon DEF Enqueue
<1>2. fresh \in Command /\ fresh.state = "queued" /\ fresh.device = d
  BY <1>1 DEF Command, Active
<1> HIDE DEF fresh
<1>3. command' = [b \in Commands |-> IF b = c THEN fresh ELSE Expired(d)[b]]
  BY <1>1, Zenon DEF Expired
<1>4. command' \in [Commands -> Command]
  BY <1>2, <1>3, ExpiredRow, Zenon
<1>5. command'[c] = fresh /\ \A b \in Commands : b # c => command'[b] = Expired(d)[b]
  BY <1>3, Zenon
<1>6. ASSUME NEW b \in Commands
      PROVE  CommandMove(b) /\ (command'[b].state \in {"leased", "done"} => command'[b] = command[b])
  <2>1. CASE b = c
    BY <2>1, <1>1, <1>2, <1>5, Zenon DEF CommandMove
  <2>2. CASE b # c
    <3>1. CommandMove(b) /\ (command'[b].state = "expired" \/ command'[b] = command[b])
      BY <2>2, <1>5, ExpiredMove, Zenon
    <3> QED BY <3>1, Zenon
  <2> QED BY <2>1, <2>2, Zenon
<1> QED BY <1>4, <1>6, Zenon DEF CommandsMove

\* A lease only ever touches live commands of its own device.
LEMMA LeaseMoves ==
  ASSUME StoreType, NEW d, Active(d), Lease(d)
  PROVE  /\ CommandsMove
         /\ due' \in [Commands -> {"fresh", "lapsed", "over"}]
         /\ \A c \in Leasable(d) : c \in Commands /\ command[c].device = d /\ command[c].state \in Live
         /\ \A c \in Commands : c \in Leasable(d) \/ command'[c].state = "expired" \/ command'[c] = command[c]
         /\ \A c \in Leasable(d) : command'[c].device = d /\ command'[c].state = "leased"
<1>1. \A c \in Leasable(d) : c \in Commands /\ command[c].device = d /\ command[c].state \in Live
  BY Zenon DEF Leasable, Live
<1>2. ASSUME NEW c \in Commands, c \in Leasable(d)
      PROVE  command'[c] \in Command /\ command'[c].device = d /\ command'[c].state = "leased"
  <2> DEFINE new == [command[c] EXCEPT !.state = "leased"]
  <2>1. command'[c] = new
    BY <1>2, Zenon DEF Lease
  <2>2. command[c] \in Command
    BY Zenon DEF StoreType
  <2>3. new \in Command /\ new.state = "leased" /\ new.device = command[c].device
    BY <2>2, CommandState, Zenon
  <2> HIDE DEF new
  <2> QED BY <1>1, <1>2, <2>1, <2>3, Zenon
<1>3. ASSUME NEW c \in Commands, c \notin Leasable(d)
      PROVE  command'[c] = Expired(d)[c]
  BY <1>3, Zenon DEF Lease
<1>4. command' \in [Commands -> Command]
  <2>1. command' = [c \in Commands |-> command'[c]]
    BY Zenon DEF Lease
  <2>2. \A c \in Commands : command'[c] \in Command
    BY <1>2, <1>3, ExpiredMove, Zenon
  <2> QED BY <2>1, <2>2, Zenon
<1>5. ASSUME NEW c \in Commands PROVE CommandMove(c)
  <2>1. CASE c \in Leasable(d)
    BY <2>1, <1>1, <1>2, Zenon DEF CommandMove
  <2>2. CASE c \notin Leasable(d)
    BY <2>2, <1>3, ExpiredMove, Zenon
  <2> QED BY <2>1, <2>2, Zenon
<1>6. due' \in [Commands -> {"fresh", "lapsed", "over"}]
  BY Zenon DEF Lease, StoreType
<1>7. \A c \in Commands : c \in Leasable(d) \/ command'[c].state = "expired" \/ command'[c] = command[c]
  BY <1>3, ExpiredMove, Zenon
<1> QED BY <1>1, <1>2, <1>4, <1>5, <1>6, <1>7, Zenon DEF CommandsMove

LEMMA LeaseEndsTyped ==
  ASSUME StoreType, NEW after
  PROVE  LeaseEnds(after) \in [Commands -> {"fresh", "lapsed", "over"}]
<1>1. \A c \in Commands : due[c] \in {"fresh", "lapsed", "over"}
  BY Zenon DEF StoreType
<1> QED BY <1>1, Zenon DEF LeaseEnds

\* A completion accepts a result only for a leased command of its own device, and an
\* accepted result is the one that stays.
Completes(d, c, body) == Active(d) /\ c \in Commands /\ body \in Bodies /\ command' = Complete(d, c, body)

Recorded(d, c, body, b) ==
  \/ command'[b] = command[b] \/ command'[b].state = "expired"
  \/ /\ b = c /\ command[c].device = d /\ command[c].state = "leased"
     /\ command'[c].state = "done" /\ command'[c].result = body

LEMMA CompleteMoves ==
  ASSUME StoreType, NEW d, NEW c, NEW body, Completes(d, c, body)
  PROVE  /\ CommandsMove
         /\ \A b \in Commands : Recorded(d, c, body, b)
         /\ Accepts(d, c, body) => command'[c].state = "done"
<1>0. Active(d) /\ c \in Commands /\ body \in Bodies /\ command' = Complete(d, c, body)
  BY Zenon DEF Completes
<1>1. CASE command[c].device # d \/ command[c].state = "done"
  <2>1. command' = command
    BY <1>0, <1>1, Zenon DEF Complete
  <2>2. Accepts(d, c, body) => command'[c].state = "done"
    BY <1>1, <2>1, Zenon DEF Accepts
  <2> QED BY <2>1, <2>2, Zenon DEF CommandsMove, CommandMove, StoreType, Recorded
<1>2. CASE command[c].device = d /\ command[c].state # "done" /\ Accepts(d, c, body)
  <2>1. command[c].state = "leased" /\ due[c] # "over"
    BY <1>2, Zenon DEF Accepts
  <2>2. command' = [Expired(d) EXCEPT ![c].state = "done", ![c].result = body]
    BY <1>0, <1>2, Zenon DEF Complete
  <2>3. Expired(d)[c] = command[c]
    BY <1>0, <2>1, ExpiredRow, Zenon
  <2> DEFINE new == [command[c] EXCEPT !.state = "done", !.result = body]
  <2>4. command' = [b \in Commands |-> IF b = c THEN new ELSE Expired(d)[b]]
    <3> DEFINE one == [Expired(d) EXCEPT ![c] = [Expired(d)[c] EXCEPT !.state = "done"]]
    <3>0. c \in Commands
      BY <1>0, Zenon
    <3>1. command' = [one EXCEPT ![c] = [one[c] EXCEPT !.result = body]]
      BY <2>2, Zenon
    <3>2. one = [b \in Commands |-> IF b = c THEN [command[c] EXCEPT !.state = "done"] ELSE Expired(d)[b]]
      BY <2>3, <3>0, Zenon DEF Expired
    <3> HIDE DEF one
    <3> QED BY <3>0, <3>1, <3>2, Zenon
  <2>5. new \in Command /\ new.state = "done" /\ new.device = command[c].device /\ new.result = body
    BY <1>0, CommandDone, Zenon DEF StoreType
  <2> HIDE DEF new
  <2>6. command'[c] = new /\ \A b \in Commands : b # c => command'[b] = Expired(d)[b]
    BY <1>0, <2>4, Zenon
  <2>7. command' \in [Commands -> Command]
    <3>1. \A b \in Commands : Expired(d)[b] \in Command
      BY ExpiredRow, Zenon
    <3> QED BY <2>4, <2>5, <3>1, Zenon
  <2>8. ASSUME NEW b \in Commands
        PROVE  /\ CommandMove(b)
               /\ Recorded(d, c, body, b)
    <3>1. CASE b = c
      BY <3>1, <1>0, <1>2, <2>1, <2>5, <2>6, Zenon DEF CommandMove, Live, Recorded
    <3>2. CASE b # c
      BY <3>2, <2>6, ExpiredMove, Zenon DEF Recorded
    <3> QED BY <3>1, <3>2, Zenon
  <2> QED BY <1>0, <2>5, <2>6, <2>7, <2>8, Zenon DEF CommandsMove
<1>3. CASE command[c].device = d /\ command[c].state # "done" /\ ~Accepts(d, c, body)
  <2>1. command' = Expired(d)
    BY <1>0, <1>3, Zenon DEF Complete
  <2>2. CommandsMove
    BY <2>1, ExpiredMoves, Zenon
  <2>3. \A b \in Commands : command'[b] = command[b] \/ command'[b].state = "expired"
    BY <2>1, ExpiredMove, Zenon
  <2> QED BY <1>0, <1>3, <2>2, <2>3, Zenon DEF Recorded
<1> QED BY <1>1, <1>2, <1>3, Zenon

(***************************************************************************)
(* Counting and least elements.                                            *)
(***************************************************************************)
LEMMA Least ==
  ASSUME NEW S, S \subseteq Nat, S # {}
  PROVE  \E m \in S : \A n \in S : m <= n
<1> DEFINE R == OpToRel(<, Nat)
<1>1. \A m, n \in Nat : m < n => <<m, n>> \in R
  BY DEF OpToRel
<1> HIDE DEF R
<1>2. PICK m \in S : \A n \in S : ~(<<n, m>> \in R)
  BY NatLessThanWellFounded, WFMin, Zenon DEF R
<1>3. ASSUME NEW n \in S PROVE m <= n
  <2>1. m \in Nat /\ n \in Nat /\ ~(n < m)
    BY <1>1, <1>2, Zenon
  <2> QED BY <2>1
<1> QED BY <1>2, <1>3, Zenon

LEMMA CommandsFinite == IsFiniteSet(Commands) /\ Commands \subseteq Nat
BY BridgeAssumption, FS_CardinalityType

LEMMA CommandSets ==
  ASSUME NEW S \in SUBSET Commands
  PROVE  IsFiniteSet(S) /\ Cardinality(S) \in Nat
BY CommandsFinite, FS_Subset, FS_CardinalityType, Zenon

LEMMA NextIsInBatch ==
  ASSUME agent.batch \subseteq Commands, agent.batch # {}
  PROVE  NextInBatch \in agent.batch
<1>1. \E m \in agent.batch : \A n \in agent.batch : m <= n
  BY CommandsFinite, Least, Zenon
<1> QED BY <1>1, Zenon DEF NextInBatch

\* The earlier elements of a set number its elements from 0 on.
LEMMA FirstFew ==
  ASSUME NEW S, S \subseteq Nat, IsFiniteSet(S), NEW N \in Nat
  PROVE  LET F == {c \in S : Cardinality({b \in S : b < c}) < N}
         IN  IsFiniteSet(F) /\ Cardinality(F) <= N
<1> DEFINE below(c) == {b \in S : b < c}
           F == {c \in S : Cardinality(below(c)) < N}
           f == [c \in F |-> Cardinality(below(c)) + 1]
<1>1. \A c \in S : below(c) \in SUBSET S
  BY Zenon
<1>2. \A c \in S : IsFiniteSet(below(c)) /\ Cardinality(below(c)) \in Nat
  BY <1>1, FS_Subset, FS_CardinalityType, Zenon
<1>3. ASSUME NEW b \in S, NEW c \in S, b < c
      PROVE  Cardinality(below(b)) < Cardinality(below(c))
  <2>0. ~(b < b) /\ \A h \in S : h < b => h < c
    BY <1>3
  <2>1. below(b) \in SUBSET below(c) /\ b \in below(c) /\ b \notin below(b)
    BY <1>3, <2>0, Zenon
  <2>2. Cardinality(below(b)) <= Cardinality(below(c)) /\ Cardinality(below(b)) # Cardinality(below(c))
    <3> HIDE DEF below
    <3> QED BY <2>1, <1>2, FS_Subset, Zenon
  <2> QED BY <1>2, <2>2
<1>4. f \in [F -> 1 .. N]
  <2>1. ASSUME NEW c \in F PROVE Cardinality(below(c)) + 1 \in 1 .. N
    <3>1. Cardinality(below(c)) \in Nat /\ Cardinality(below(c)) < N
      BY <1>2, Zenon
    <3> HIDE DEF below, F
    <3> QED BY <3>1
  <2> QED BY <2>1, Zenon
<1>5. ASSUME NEW b \in F, NEW c \in F, f[b] = f[c] PROVE b = c
  <2>1. Cardinality(below(b)) + 1 = Cardinality(below(c)) + 1 /\ b \in S /\ c \in S
    BY <1>5, Zenon
  <2>2. Cardinality(below(b)) \in Nat /\ Cardinality(below(c)) \in Nat
    BY <1>2, <2>1, Zenon
  <2>3. ~(b < c) /\ ~(c < b)
    <3> HIDE DEF below, F
    <3> QED BY <1>3, <2>1, <2>2
  <2> QED BY <2>1, <2>3
<1>6. f \in Injection(F, 1 .. N)
  <2> HIDE DEF f, F
  <2> QED BY <1>4, <1>5, Zenon DEF Injection, IsInjective
<1>7. IsFiniteSet(1 .. N) /\ Cardinality(1 .. N) = N
  BY FS_Interval
<1>8. IsFiniteSet(F) /\ Cardinality(F) <= N
  <2> HIDE DEF f, F
  <2>1. IsFiniteSet(F) /\ Cardinality(F) <= Cardinality(1 .. N)
    BY <1>6, <1>7, FS_Injection, Zenon
  <2> QED BY <1>7, <2>1, Zenon
<1> QED BY <1>8, Zenon

\* A poll leases at most Limit commands.
LEMMA LeasableFew ==
  ASSUME NEW d
  PROVE  Cardinality(Leasable(d)) <= Limit /\ Leasable(d) \subseteq Commands
<1> DEFINE open == {c \in Commands : /\ command[c].device = d /\ due[c] # "over"
                                     /\ \/ command[c].state = "queued"
                                        \/ command[c].state = "leased" /\ due[c] = "lapsed"}
<1>1. open \in SUBSET Commands
  BY Zenon
<1>2. IsFiniteSet(open) /\ open \subseteq Nat
  BY <1>1, CommandsFinite, CommandSets
<1>3. Leasable(d) = {c \in open : Cardinality({b \in open : b < c}) < Limit}
  BY Zenon DEF Leasable
<1> HIDE DEF open
<1>4. Cardinality({c \in open : Cardinality({b \in open : b < c}) < Limit}) <= Limit
  BY <1>2, LimitFacts, FirstFew, Zenon
<1> QED BY <1>1, <1>3, <1>4, Zenon

(***************************************************************************)
(* The result table.                                                       *)
(***************************************************************************)
ResultsType == results \in Seq(Rows)

\* A command has at most one row.
OneEach == \A i, j \in DOMAIN results : results[i].id = results[j].id => i = j

PendingIds == {results[i].id : i \in Pending}

LEMMA RowTyped ==
  ASSUME ResultsType, NEW i \in DOMAIN results
  PROVE  results[i] \in Rows /\ results[i].id \in Commands /\ results[i].body \in Bodies /\ results[i].pending \in BOOLEAN
<1>1. results[i] \in Rows
  BY DEF ResultsType
<1> QED BY <1>1, Zenon DEF Rows

LEMMA BodyIs ==
  ASSUME OneEach, NEW i \in DOMAIN results
  PROVE  BodyOf(results[i].id) = results[i].body
<1>1. (CHOOSE j \in DOMAIN results : results[j].id = results[i].id) = i
  BY Zenon DEF OneEach
<1> QED BY <1>1, Zenon DEF BodyOf, RowOf

LEMMA BodyTyped ==
  ASSUME ResultsType, OneEach, NEW c, Saved(c)
  PROVE  BodyOf(c) \in Bodies /\ c \in Commands
<1>1. PICK i \in DOMAIN results : results[i].id = c
  BY Zenon DEF Saved
<1> QED BY <1>1, BodyIs, RowTyped, Zenon

LEMMA PendingFinite ==
  ASSUME ResultsType
  PROVE  IsFiniteSet(Pending) /\ Cardinality(Pending) \in Nat /\ Pending \subseteq Nat /\ Pending \subseteq DOMAIN results
<1>1. DOMAIN results = 1 .. Len(results) /\ Len(results) \in Nat
  BY DEF ResultsType
<1>2. Pending \in SUBSET (1 .. Len(results))
  BY <1>1, Zenon DEF Pending
<1>3. IsFiniteSet(1 .. Len(results))
  BY <1>1, FS_Interval
<1>4. IsFiniteSet(Pending)
  BY <1>2, <1>3, FS_Subset, Zenon
<1>5. Pending \subseteq Nat
  BY <1>2
<1> QED BY <1>1, <1>2, <1>4, <1>5, FS_CardinalityType, Zenon

LEMMA PendingIdsFew ==
  ASSUME ResultsType
  PROVE  /\ PendingIds \subseteq Commands /\ Cardinality(PendingIds) <= Cardinality(Pending)
         /\ \A c \in PendingIds : Saved(c)
<1> DEFINE f == [i \in Pending |-> results[i].id]
<1>1. f \in Surjection(Pending, PendingIds)
  BY Zenon DEF Surjection, PendingIds
<1>2. Cardinality(PendingIds) <= Cardinality(Pending)
  <2> HIDE DEF f
  <2> QED BY <1>1, PendingFinite, FS_Surjection, Zenon
<1>3. \A c \in PendingIds : c \in Commands /\ Saved(c)
  BY PendingFinite, RowTyped, Zenon DEF PendingIds, Saved
<1> QED BY <1>2, <1>3, Zenon

\* With at most Limit rows pending, an upload takes all of them.
LEMMA UploadTakesAll ==
  ASSUME ResultsType, Cardinality(Pending) <= Limit
  PROVE  PendingRows = PendingIds
<1>1. ASSUME NEW j \in Pending PROVE Cardinality({h \in Pending : h <= j}) <= Limit
  <2>1. {h \in Pending : h <= j} \in SUBSET Pending
    BY Zenon
  <2>2. Cardinality({h \in Pending : h <= j}) <= Cardinality(Pending) /\ Cardinality({h \in Pending : h <= j}) \in Nat
    BY <2>1, PendingFinite, FS_Subset, FS_CardinalityType, Zenon
  <2> QED BY <2>2, PendingFinite, LimitFacts
<1>2. {j \in Pending : Cardinality({h \in Pending : h <= j}) <= Limit} = Pending
  BY <1>1, Zenon
<1> QED BY <1>2, Zenon DEF PendingRows, PendingIds

\* A saved result stays the same row with the same body.
LEMMA SavedStays ==
  ASSUME OneEach, OneEach', DOMAIN results \subseteq DOMAIN results',
         \A i \in DOMAIN results : results'[i].id = results[i].id /\ results'[i].body = results[i].body,
         NEW c, Saved(c)
  PROVE  Saved(c)' /\ BodyOf(c)' = BodyOf(c)
<1>1. PICK i \in DOMAIN results : results[i].id = c
  BY Zenon DEF Saved
<1>2. i \in DOMAIN results' /\ results'[i].id = c /\ results'[i].body = results[i].body
  BY <1>1, Zenon
<1>3. (CHOOSE j \in DOMAIN results' : results'[j].id = c) = i
  BY <1>2, Zenon DEF OneEach
<1>4. BodyOf(c)' = results'[i].body
  BY <1>3, Zenon DEF BodyOf, RowOf
<1>5. BodyOf(c) = results[i].body
  BY <1>1, BodyIs, Zenon
<1>6. Saved(c)'
  BY <1>2, Zenon DEF Saved
<1> QED BY <1>2, <1>4, <1>5, <1>6, Zenon

\* Saving the result of a command that has none.
Saves(row) == row \in Rows /\ row.pending = TRUE /\ ~Saved(row.id) /\ results' = Append(results, row)

LEMMA ResultSaved ==
  ASSUME ResultsType, OneEach, NEW row, Saves(row)
  PROVE  /\ ResultsType' /\ OneEach'
         /\ \A i \in DOMAIN results : i \in DOMAIN results' /\ results'[i] = results[i]
         /\ \A i \in DOMAIN results' : i \in DOMAIN results \/ results'[i] = row
         /\ \A c : Saved(c)' => Saved(c) \/ c = row.id
         /\ Cardinality(Pending') = Cardinality(Pending) + 1
<1> DEFINE n == Len(results) + 1
<1>1. /\ DOMAIN results = 1 .. Len(results) /\ DOMAIN results' = 1 .. n /\ Len(results) \in Nat
      /\ results'[n] = row /\ ResultsType'
      /\ \A i \in 1 .. Len(results) : results'[i] = results[i]
  <2>1. row \in Rows /\ results' = Append(results, row)
    BY Zenon DEF Saves
  <2> QED BY <2>1 DEF ResultsType
<1>2. /\ \A i \in DOMAIN results : i \in DOMAIN results' /\ results'[i] = results[i]
      /\ \A i \in DOMAIN results' : i \in DOMAIN results \/ i = n
      /\ n \in DOMAIN results' /\ n \notin DOMAIN results
  BY <1>1
<1>3. results'[n] = row
  BY <1>1
<1> HIDE DEF n
<1>4. \A i \in DOMAIN results : results[i].id # row.id
  BY Zenon DEF Saved, Saves
<1>5. OneEach'
  <2> SUFFICES ASSUME NEW i \in DOMAIN results', NEW j \in DOMAIN results', results'[i].id = results'[j].id
               PROVE  i = j
    BY Zenon DEF OneEach
  <2>1. CASE i \in DOMAIN results /\ j \in DOMAIN results
    BY <2>1, <1>2, Zenon DEF OneEach
  <2>2. CASE i \in DOMAIN results /\ j = n
    BY <2>2, <1>2, <1>3, <1>4, Zenon
  <2>3. CASE i = n /\ j \in DOMAIN results
    BY <2>3, <1>2, <1>3, <1>4, Zenon
  <2> QED BY <2>1, <2>2, <2>3, <1>2, Zenon
<1>6. \A c : Saved(c)' => Saved(c) \/ c = row.id
  BY <1>2, <1>3, Zenon DEF Saved
<1>7. Pending' = Pending \cup {n} /\ n \notin Pending
  BY <1>2, <1>3, Zenon DEF Pending, Saves
<1>8. Cardinality(Pending') = Cardinality(Pending) + 1
  BY <1>7, PendingFinite, FS_AddElement, Zenon
<1> QED BY <1>1, <1>2, <1>3, <1>5, <1>6, <1>8, Zenon

\* Acknowledging every pending row.
LEMMA ResultsAcknowledged ==
  ASSUME ResultsType, OneEach, results' = SetPending(PendingIds, FALSE)
  PROVE  /\ ResultsType' /\ OneEach' /\ DOMAIN results' = DOMAIN results
         /\ \A i \in DOMAIN results : results'[i].id = results[i].id /\ results'[i].body = results[i].body
         /\ Pending' = {} /\ Cardinality(Pending') = 0
<1> DEFINE new(i) == [results[i] EXCEPT !.pending = FALSE]
<1>1. ASSUME NEW i \in DOMAIN results
      PROVE  new(i) \in Rows /\ new(i).id = results[i].id /\ new(i).body = results[i].body /\ new(i).pending = FALSE
  <2>1. results[i] \in Rows
    BY RowTyped, Zenon
  <2> QED BY <2>1, Zenon DEF Rows
<1>2. /\ DOMAIN results' = DOMAIN results
      /\ \A i \in DOMAIN results : results'[i] = IF results[i].id \in PendingIds THEN new(i) ELSE results[i]
  BY Zenon DEF SetPending
<1> HIDE DEF new
<1>3. \A i \in DOMAIN results : /\ results'[i] \in Rows /\ results'[i].id = results[i].id
                                /\ results'[i].body = results[i].body /\ ~results'[i].pending
  <2> SUFFICES ASSUME NEW i \in DOMAIN results
               PROVE  /\ results'[i] \in Rows /\ results'[i].id = results[i].id
                      /\ results'[i].body = results[i].body /\ ~results'[i].pending
    BY Zenon
  <2>1. CASE results[i].id \in PendingIds
    BY <2>1, <1>1, <1>2, Zenon
  <2>2. CASE results[i].id \notin PendingIds
    BY <2>2, <1>2, RowTyped, Zenon DEF PendingIds, Pending
  <2> QED BY <2>1, <2>2, Zenon
<1>4. ResultsType'
  <2>1. DOMAIN results = 1 .. Len(results) /\ Len(results) \in Nat
    BY DEF ResultsType
  <2>2. results' = [i \in 1 .. Len(results) |-> results'[i]]
    BY <2>1, Zenon DEF SetPending
  <2>3. results' \in [1 .. Len(results) -> Rows]
    BY <2>1, <2>2, <1>3, Zenon
  <2>4. \A n \in Nat : \A g \in [1 .. n -> Rows] : g \in Seq(Rows)
    OBVIOUS
  <2> QED BY <2>1, <2>3, <2>4, Zenon DEF ResultsType
<1>5. OneEach'
  BY ZenonT(30), <1>2, <1>3 DEF OneEach
<1>6. Pending' = {}
  BY <1>2, <1>3, Zenon DEF Pending
<1> QED BY <1>2, <1>3, <1>4, <1>5, <1>6, FS_EmptySet, Zenon

LEMMA ResultsCleared ==
  ASSUME results' = <<>>
  PROVE  /\ ResultsType' /\ OneEach' /\ DOMAIN results' = {} /\ \A c : ~Saved(c)'
         /\ Pending' = {} /\ Cardinality(Pending') = 0
<1>1. results' \in Seq(Rows) /\ DOMAIN results' = {}
  OBVIOUS
<1>2. Pending' = {}
  BY <1>1, Zenon DEF Pending
<1>3. OneEach' /\ \A c : ~Saved(c)'
  BY <1>1, Zenon DEF OneEach, Saved
<1>4. ResultsType'
  BY <1>1, Zenon DEF ResultsType
<1> QED BY <1>1, <1>2, <1>3, <1>4, FS_EmptySet, Zenon

(***************************************************************************)
(* The inductive invariant.                                                *)
(***************************************************************************)
Working == agent.pc \notin {"down", "wiping"}
Delivered == agent.batch \cup ({agent.running} \ {None})
DoneOf(S) == {c \in S : command[c].state = "done"}

\* A working agent signs as the identity its table belongs to, and holds what its place
\* in the cycle calls for.
AgentOK ==
  /\ Working => agent.config # None /\ agent.identity = agent.config
  /\ agent.pc = "wiping" => agent.config = None
  /\ agent.config # None => device[agent.config] # "absent"
  /\ agent.pc \notin {"batch", "operation"} => agent.batch = {}
  /\ agent.pc = "operation" <=> agent.running # None
  /\ agent.running \notin agent.batch
  /\ agent.pc # "posting" => agent.rows = NoRows /\ agent.accepted = 0
  /\ \A c \in Delivered : command[c].device = agent.config

\* Every row is of the table's identity; one that is not pending was recorded.
RowsOK ==
  \A i \in DOMAIN results :
    /\ agent.identity # None /\ command[results[i].id].device = agent.identity
    /\ ~results[i].pending => command[results[i].id].state = "done"

\* An upload takes every pending row, and counts only recorded ones.
PostingOK ==
  agent.pc = "posting" =>
    /\ agent.rows.todo \subseteq agent.rows.sent /\ agent.rows.sent = PendingIds
    /\ agent.accepted <= Cardinality(DoneOf(agent.rows.sent \ agent.rows.todo))

PollOK == agent.pc = "poll" => Pending = {}

\* What is pending or may become so fits into one upload.
Room ==
  Cardinality(Pending) + Cardinality(agent.batch) + (IF agent.running = None THEN 0 ELSE 1) <= Limit

\* A result still on its way to the server is the one on disk.
LateOK ==
  \A r \in late :
    /\ device[r.device] # "absent"
    /\ r.device = agent.config =>
         agent.identity = agent.config /\ Saved(r.id) /\ BodyOf(r.id) = r.body

\* An identity that never started has been handed no command.
Unstarted ==
  agent.config # None /\ agent.identity # agent.config =>
    \A c \in Commands : command[c].device = agent.config => command[c].state \notin {"leased", "done"}

LateType == late \subseteq [device: Devices, id: Commands, body: Bodies]
CountType == crashes \in 0 .. MaxCrashes /\ losses \in 0 .. MaxLosses

BridgeInv ==
  /\ StoreInv /\ agent \in Agent /\ ResultsType /\ OneEach /\ LateType /\ CountType
  /\ AgentOK /\ RowsOK /\ PostingOK /\ PollOK /\ Room /\ DeliveredIsNew
  /\ DoneIsSaved /\ LateOK /\ Unstarted

(***************************************************************************)
(* What every step keeps.                                                  *)
(***************************************************************************)
RowsGoOn ==
  /\ ResultsType' /\ OneEach' /\ DOMAIN results \subseteq DOMAIN results'
  /\ \A i \in DOMAIN results : results'[i].id = results[i].id /\ results'[i].body = results[i].body

DevicesStay == \A d \in Devices : device[d] # "absent" => device'[d] # "absent"

\* A command is handed out or done only through the identity that owns the table.
HandedOut ==
  \A c \in Commands :
    /\ command'[c].state = "leased" => command[c].state = "leased" \/ agent.identity = agent.config
                                       \/ command'[c].device # agent.config
    /\ command'[c].state = "done" /\ command[c].state # "done" /\ command'[c].device = agent.config =>
         Saved(c) /\ BodyOf(c) = command'[c].result

\* An upload that is given up leaves at most the rows it carries behind.
LateGrows == late' \subseteq late \cup (IF agent.pc = "posting" THEN Carried ELSE {})

LEMMA CarriedOK ==
  ASSUME BridgeInv, agent.pc = "posting", NEW r \in Carried
  PROVE  /\ r \in [device: Devices, id: Commands, body: Bodies]
         /\ r.device = agent.config /\ agent.identity = agent.config /\ device[r.device] # "absent"
         /\ Saved(r.id) /\ BodyOf(r.id) = r.body
<1>1. agent.config \in Devices /\ agent.identity = agent.config /\ device[agent.config] # "absent"
  BY Zenon DEF BridgeInv, AgentOK, Working, Agent
<1>2. PICK c \in agent.rows.todo : r = [device |-> agent.config, id |-> c, body |-> BodyOf(c)]
  BY Zenon DEF Carried
<1>3. c \in PendingIds
  BY Zenon DEF BridgeInv, PostingOK
<1>4. Saved(c)
  BY <1>3, PendingIdsFew, Zenon DEF BridgeInv
<1>5. c \in Commands /\ BodyOf(c) \in Bodies
  BY <1>4, BodyTyped, Zenon DEF BridgeInv
<1>6. r.device = agent.config /\ r.id = c /\ r.body = BodyOf(c)
  BY <1>2, Zenon
<1>7. r \in [device: Devices, id: Commands, body: Bodies]
  BY <1>1, <1>2, <1>5, Zenon
<1> QED BY <1>1, <1>4, <1>6, <1>7, Zenon

LEMMA OnDisk ==
  ASSUME BridgeInv, CommandsOnward, DevicesStay, HandedOut, RowsGoOn, LateGrows,
         agent'.identity = agent.identity, agent'.config \in {agent.config, None}
  PROVE  LateType' /\ DoneIsSaved' /\ LateOK' /\ Unstarted'
<1>0. ASSUME NEW c, Saved(c) PROVE Saved(c)' /\ BodyOf(c)' = BodyOf(c)
  BY <1>0, SavedStays, Zenon DEF BridgeInv, RowsGoOn
<1>n. None \notin Devices
  BY BridgeAssumption, Zenon
<1>1. ASSUME NEW c \in Commands, command'[c].state = "done", command'[c].device = agent'.config
      PROVE  Saved(c)' /\ BodyOf(c)' = command'[c].result
  <2>1. CASE command[c].state = "done"
    <3>1. command'[c] = command[c]
      BY <2>1, Zenon DEF CommandsOnward, CommandOnward
    <3>2. command[c].device # None
      BY <2>1, Zenon DEF BridgeInv, StoreInv, Issued
    <3>3. command[c].device = agent.config
      BY <1>1, <3>1, <3>2, Zenon
    <3>4. Saved(c) /\ BodyOf(c) = command[c].result
      BY <2>1, <3>3, Zenon DEF BridgeInv, DoneIsSaved
    <3> QED BY <3>1, <3>4, <1>0, Zenon
  <2>2. CASE command[c].state # "done"
    <3>1. command[c].state = "leased"
      BY <1>1, <2>2, Zenon DEF CommandsOnward, CommandOnward
    <3>2. command'[c].device = command[c].device /\ command[c].device # None
      BY <3>1, Zenon DEF CommandsOnward, CommandOnward, BridgeInv, StoreInv, Issued
    <3>3. command'[c].device = agent.config
      BY <1>1, <3>2, Zenon
    <3>4. Saved(c) /\ BodyOf(c) = command'[c].result
      BY <1>1, <2>2, <3>3, Zenon DEF HandedOut
    <3> QED BY <3>4, <1>0, Zenon
  <2> QED BY <2>1, <2>2, Zenon
<1>2. DoneIsSaved'
  BY <1>1, Zenon DEF DoneIsSaved
<1>3. ASSUME NEW r \in late'
      PROVE  /\ r \in [device: Devices, id: Commands, body: Bodies]
             /\ device'[r.device] # "absent"
             /\ r.device = agent'.config => agent'.identity = agent'.config /\ Saved(r.id)' /\ BodyOf(r.id)' = r.body
  <2>1. /\ r \in [device: Devices, id: Commands, body: Bodies] /\ device[r.device] # "absent"
        /\ r.device = agent.config => agent.identity = agent.config /\ Saved(r.id) /\ BodyOf(r.id) = r.body
    <3>1. CASE r \in late
      BY <3>1, Zenon DEF BridgeInv, LateOK, LateType
    <3>2. CASE agent.pc = "posting" /\ r \in Carried
      BY <3>2, CarriedOK, Zenon
    <3> QED BY <3>1, <3>2, Zenon DEF LateGrows
  <2>2. r.device \in Devices /\ r.device # None
    BY <2>1, <1>n, Zenon
  <2>3. device'[r.device] # "absent"
    BY <2>1, <2>2, Zenon DEF DevicesStay
  <2>4. CASE r.device = agent'.config
    <3>1. r.device = agent.config /\ agent'.config = agent.config
      BY <2>2, <2>4, Zenon
    <3> QED BY <3>1, <2>1, <2>3, <1>0, Zenon
  <2> QED BY <2>1, <2>3, <2>4, Zenon
<1>4. LateType' /\ LateOK'
  BY <1>3, Zenon DEF LateType, LateOK
<1>5. Unstarted'
  <2> SUFFICES ASSUME agent'.config # None, agent'.identity # agent'.config,
                      NEW c \in Commands, command'[c].device = agent'.config
               PROVE  command'[c].state \notin {"leased", "done"}
    BY Zenon DEF Unstarted
  <2>1. agent'.config = agent.config /\ agent.config # None /\ agent.identity # agent.config
    BY Zenon
  <2>2. command[c].device = agent.config => command[c].state \notin {"leased", "done"}
    BY <2>1, Zenon DEF BridgeInv, Unstarted
  <2>3. command[c].state # "none" => command'[c].device = command[c].device
    BY Zenon DEF CommandsOnward, CommandOnward
  <2>4. command'[c].state # "done"
    BY <2>1, <2>2, <2>3, Zenon DEF CommandsOnward, CommandOnward
  <2>5. command'[c].state # "leased"
    BY <2>1, <2>2, <2>3, Zenon DEF HandedOut
  <2> QED BY <2>4, <2>5, Zenon
<1> QED BY <1>2, <1>4, <1>5, Zenon

\* What the device of an issued command is, it stays.
LEMMA IssuedStays ==
  ASSUME BridgeInv, CommandsOnward, NEW c \in Commands, NEW d, d # None, command[c].device = d
  PROVE  command'[c].device = d /\ (command[c].state = "done" => command'[c].state = "done")
BY Zenon DEF BridgeInv, StoreInv, Issued, CommandsOnward, CommandOnward

LEMMA DeliveredTyped ==
  ASSUME BridgeInv, NEW c \in Delivered
  PROVE  c \in Commands /\ agent.config # None /\ command[c].device = agent.config
BY Zenon DEF BridgeInv, AgentOK, Delivered, Working, Agent

LEMMA DoneGrows ==
  ASSUME CommandsOnward, NEW S \in SUBSET Commands
  PROVE  /\ DoneOf(S) \in SUBSET DoneOf(S)' /\ DoneOf(S)' \in SUBSET Commands
         /\ Cardinality(DoneOf(S)) \in Nat /\ Cardinality(DoneOf(S)') \in Nat
         /\ Cardinality(DoneOf(S)) <= Cardinality(DoneOf(S)')
<1>1. DoneOf(S) \in SUBSET DoneOf(S)' /\ DoneOf(S)' \in SUBSET Commands /\ DoneOf(S) \in SUBSET Commands
  BY Zenon DEF DoneOf, CommandsOnward, CommandOnward
<1>2. IsFiniteSet(DoneOf(S)') /\ Cardinality(DoneOf(S)') \in Nat /\ Cardinality(DoneOf(S)) \in Nat
  BY <1>1, CommandSets, Zenon
<1> QED BY <1>1, <1>2, FS_Subset, Zenon

(***************************************************************************)
(* A step of the server alone.                                             *)
(***************************************************************************)
LEMMA StoreOnly ==
  ASSUME BridgeInv, StoreInv', CommandsOnward, DevicesStay, HandedOut,
         UNCHANGED <<agent, results, crashes, losses>>, late' \subseteq late
  PROVE  BridgeInv'
<1>1. RowsGoOn
  BY Zenon DEF BridgeInv, RowsGoOn, ResultsType, OneEach
<1>2. LateType' /\ DoneIsSaved' /\ LateOK' /\ Unstarted'
  BY <1>1, OnDisk, Zenon DEF LateGrows
<1>3. agent' \in Agent /\ ResultsType' /\ OneEach' /\ CountType'
  BY Zenon DEF BridgeInv, ResultsType, OneEach, CountType
<1>4. ASSUME NEW c \in Delivered PROVE command'[c].device = agent.config
  BY DeliveredTyped, IssuedStays, Zenon
<1>5. agent.config # None => device'[agent.config] # "absent"
  BY Zenon DEF BridgeInv, AgentOK, DevicesStay, Agent
<1>6. AgentOK'
  BY <1>4, <1>5, Zenon DEF BridgeInv, AgentOK, Working, Delivered
<1>7. RowsOK'
  <2> SUFFICES ASSUME NEW i \in DOMAIN results
               PROVE  /\ agent.identity # None /\ command'[results[i].id].device = agent.identity
                      /\ ~results[i].pending => command'[results[i].id].state = "done"
    BY Zenon DEF RowsOK
  <2>1. results[i].id \in Commands
    BY RowTyped, Zenon DEF BridgeInv
  <2>2. /\ agent.identity # None /\ command[results[i].id].device = agent.identity
        /\ ~results[i].pending => command[results[i].id].state = "done"
    BY Zenon DEF BridgeInv, RowsOK
  <2> QED BY <2>1, <2>2, IssuedStays, Zenon
<1>8. PostingOK'
  <2> DEFINE S == agent.rows.sent \ agent.rows.todo
  <2>1. S \in SUBSET Commands /\ agent.accepted \in Int
    BY DEF BridgeInv, Agent, Upload, Counts
  <2>2. Cardinality(DoneOf(S)) \in Nat /\ Cardinality(DoneOf(S)') \in Nat /\ Cardinality(DoneOf(S)) <= Cardinality(DoneOf(S)')
    BY <2>1, DoneGrows, Zenon
  <2>3. agent.accepted <= Cardinality(DoneOf(S)) => agent.accepted <= Cardinality(DoneOf(S)')
    <3> HIDE DEF S
    <3> QED BY <2>1, <2>2
  <2>4. PendingIds' = PendingIds
    BY Zenon DEF PendingIds, Pending
  <2> QED BY <2>3, <2>4, Zenon DEF BridgeInv, PostingOK
<1>9. PollOK' /\ Room' /\ DeliveredIsNew'
  BY Zenon DEF BridgeInv, PollOK, Room, DeliveredIsNew, Pending, Saved
<1> QED BY <1>2, <1>3, <1>6, <1>7, <1>8, <1>9, Zenon DEF BridgeInv

\* A step that touches no command.
LEMMA Unmoved ==
  ASSUME BridgeInv, UNCHANGED command
  PROVE  CommandsMove /\ CommandsOnward /\ HandedOut
<1>1. CommandsMove
  BY Zenon DEF BridgeInv, StoreInv, StoreType, CommandsMove, CommandMove
<1> QED BY <1>1, MovesOnward, Zenon DEF HandedOut

LEMMA SameDevices ==
  ASSUME UNCHANGED device
  PROVE  DevicesStay
BY Zenon DEF DevicesStay

LEMMA CreateEnrollmentStep ==
  ASSUME BridgeInv, NEW d \in Devices, CreateEnrollment(d)
  PROVE  BridgeInv'
<1>1. /\ enrollment[d] = "none" /\ enrollment' = [enrollment EXCEPT ![d] = "open"]
      /\ UNCHANGED <<device, command, due, token, relay, agent, results, late, crashes, losses>>
  BY Zenon DEF CreateEnrollment
<1>2. enrollment' \in [Devices -> {"none", "open", "consumed"}] /\ enrollment'[d] # "consumed"
      /\ \A e \in Devices : e # d => enrollment'[e] = enrollment[e]
  BY <1>1, Zenon DEF BridgeInv, StoreInv, StoreType
<1>3. StoreType'
  BY <1>1, <1>2, Zenon DEF BridgeInv, StoreInv, StoreType
<1>4. Issued'
  BY <1>1, <1>2, Zenon DEF BridgeInv, StoreInv, Issued
<1>5. RevokedIsQuiet'
  BY <1>1, Zenon DEF BridgeInv, StoreInv, RevokedIsQuiet
<1> QED BY <1>1, <1>3, <1>4, <1>5, StoreOnly, Unmoved, SameDevices, Zenon DEF StoreInv

LEMMA EnrollmentLapsesStep ==
  ASSUME BridgeInv, NEW d \in Devices, EnrollmentLapses(d)
  PROVE  BridgeInv'
<1>1. /\ enrollment[d] = "open" /\ enrollment' = [enrollment EXCEPT ![d] = "none"]
      /\ UNCHANGED <<device, command, due, token, relay, agent, results, late, crashes, losses>>
  BY Zenon DEF EnrollmentLapses
<1>2. enrollment' \in [Devices -> {"none", "open", "consumed"}] /\ enrollment'[d] # "consumed"
      /\ \A e \in Devices : e # d => enrollment'[e] = enrollment[e]
  BY <1>1, Zenon DEF BridgeInv, StoreInv, StoreType
<1>3. StoreType'
  BY <1>1, <1>2, Zenon DEF BridgeInv, StoreInv, StoreType
<1>4. Issued'
  BY <1>1, <1>2, Zenon DEF BridgeInv, StoreInv, Issued
<1>5. RevokedIsQuiet'
  BY <1>1, Zenon DEF BridgeInv, StoreInv, RevokedIsQuiet
<1> QED BY <1>1, <1>3, <1>4, <1>5, StoreOnly, Unmoved, SameDevices, Zenon DEF StoreInv

LEMMA TokenRevoked ==
  ASSUME NEW x \in [state: {"none", "live", "revoked"}, device: Devices \cup {None}]
  PROVE  LET new == [x EXCEPT !.state = "revoked"] IN
         new \in [state: {"none", "live", "revoked"}, device: Devices \cup {None}] /\ new.state = "revoked" /\ new.device = x.device
BY Zenon

\* Revocation ends the device's live commands and tokens with the device.
LEMMA RevokeMoves ==
  ASSUME BridgeInv, NEW d \in Devices, RevokeDevice(d)
  PROVE  /\ CommandsMove /\ StoreInv' /\ DevicesStay
         /\ \A c \in Commands : command'[c].state \in {"leased", "done"} => command'[c] = command[c]
<1>1. /\ device[d] # "absent" /\ device' = [device EXCEPT ![d] = "revoked"]
      /\ token' = [t \in Tokens |-> IF token[t].device = d THEN [token[t] EXCEPT !.state = "revoked"] ELSE token[t]]
      /\ command' = [c \in Commands |-> IF command[c].device = d /\ command[c].state \in Live
                                        THEN [command[c] EXCEPT !.state = "expired"] ELSE command[c]]
      /\ due' = LeaseEnds(command') /\ UNCHANGED <<enrollment, relay>>
  BY Zenon DEF RevokeDevice
<1>d. due' \in [Commands -> {"fresh", "lapsed", "over"}]
  BY <1>1, LeaseEndsTyped, Zenon DEF BridgeInv, StoreInv
<1>2. /\ device' \in [Devices -> {"absent", "active", "revoked"}] /\ device'[d] = "revoked"
      /\ \A e \in Devices : e # d => device'[e] = device[e]
  BY <1>1, Zenon DEF BridgeInv, StoreInv, StoreType
<1>3. ASSUME NEW c \in Commands
      PROVE  /\ command'[c] \in Command /\ command'[c].device = command[c].device
             /\ command'[c] = command[c] \/ (command[c].state \in Live /\ command'[c].state = "expired")
             /\ command'[c].device = d => command'[c].state \notin Live
  <2>1. command[c] \in Command
    BY Zenon DEF BridgeInv, StoreInv, StoreType
  <2> DEFINE new == [command[c] EXCEPT !.state = "expired"]
  <2>2. new \in Command /\ new.state = "expired" /\ new.device = command[c].device
    BY <2>1, CommandState, Zenon
  <2>3. command'[c] = IF command[c].device = d /\ command[c].state \in Live THEN new ELSE command[c]
    BY <1>1, Zenon
  <2> HIDE DEF new
  <2> QED BY <2>1, <2>2, <2>3, Zenon DEF Live
<1>4. command' \in [Commands -> Command]
  <2>1. command' = [c \in Commands |-> command'[c]]
    BY <1>1, Zenon
  <2> QED BY <2>1, <1>3, Zenon
<1>5. CommandsMove
  BY <1>3, <1>4, Zenon DEF CommandsMove, CommandMove
<1> DEFINE Token == [state: {"none", "live", "revoked"}, device: Devices \cup {None}]
<1>6. ASSUME NEW t \in Tokens
      PROVE  /\ token'[t] \in Token /\ token'[t].device = token[t].device
             /\ token'[t] = token[t] \/ token'[t].state = "revoked"
             /\ token'[t].device = d => token'[t].state = "revoked"
  <2>1. token[t] \in Token
    BY Zenon DEF BridgeInv, StoreInv, StoreType
  <2> DEFINE new == [token[t] EXCEPT !.state = "revoked"]
  <2>2. new \in Token /\ new.state = "revoked" /\ new.device = token[t].device
    BY <2>1, TokenRevoked, Zenon
  <2>3. token'[t] = IF token[t].device = d THEN new ELSE token[t]
    BY <1>1, Zenon
  <2> HIDE DEF new, Token
  <2> QED BY <2>1, <2>2, <2>3, Zenon
<1>7. token' \in [Tokens -> Token]
  <2>1. token' = [t \in Tokens |-> token'[t]]
    BY <1>1, Zenon
  <2> HIDE DEF Token
  <2> QED BY <2>1, <1>6, Zenon
<1>8. StoreType'
  BY <1>1, <1>d, <1>2, <1>4, <1>7, Zenon DEF BridgeInv, StoreInv, StoreType
<1>9. DevicesStay
  BY <1>2, Zenon DEF DevicesStay
<1>10. Issued'
  <2>1. ASSUME NEW c \in Commands
        PROVE  /\ command'[c].state = "none" <=> command'[c].device = None
               /\ command'[c].device # None => device'[command'[c].device] # "absent"
    <3>1. command'[c].state = "none" <=> command[c].state = "none"
      BY <1>3, Zenon DEF Live
    <3>2. command[c].device # None => command[c].device \in Devices
      BY Zenon DEF BridgeInv, StoreInv, StoreType, Command
    <3> QED BY <3>1, <3>2, <1>3, <1>9, Zenon DEF BridgeInv, StoreInv, Issued, DevicesStay
  <2>2. \A e \in Devices : enrollment[e] # "consumed" => device'[e] = "absent"
    BY <1>1, <1>2, Zenon DEF BridgeInv, StoreInv, Issued
  <2> QED BY <1>1, <2>1, <2>2, Zenon DEF Issued
<1>11. RevokedIsQuiet'
  <2> SUFFICES ASSUME NEW e \in Devices, device'[e] = "revoked"
               PROVE  /\ \A c \in Commands : command'[c].device = e => command'[c].state \notin Live
                      /\ \A t \in Tokens : token'[t].device = e => token'[t].state = "revoked"
    BY Zenon DEF RevokedIsQuiet
  <2>1. CASE e = d
    BY <2>1, <1>3, <1>6, Zenon
  <2>2. CASE e # d
    <3>1. device[e] = "revoked"
      BY <2>2, <1>2, Zenon
    <3>2. \A c \in Commands : command[c].device = e => command[c].state \notin Live
      BY <3>1, Zenon DEF BridgeInv, StoreInv, RevokedIsQuiet
    <3>3. \A t \in Tokens : token[t].device = e => token[t].state = "revoked"
      BY <3>1, Zenon DEF BridgeInv, StoreInv, RevokedIsQuiet
    <3>4. \A c \in Commands : command'[c].device = e => command'[c].state \notin Live
      BY <3>2, <1>3, Zenon DEF Live
    <3>5. \A t \in Tokens : token'[t].device = e => token'[t].state = "revoked"
      BY <3>3, <1>6, Zenon
    <3> QED BY <3>4, <3>5, Zenon
  <2> QED BY <2>1, <2>2, Zenon
<1>12. \A c \in Commands : command'[c].state \in {"leased", "done"} => command'[c] = command[c]
  BY <1>3, Zenon
<1> QED BY <1>5, <1>8, <1>9, <1>10, <1>11, <1>12, Zenon DEF StoreInv

LEMMA RevokeDeviceStep ==
  ASSUME BridgeInv, NEW d \in Devices, RevokeDevice(d)
  PROVE  BridgeInv'
<1>1. UNCHANGED <<agent, results, crashes, losses>> /\ late' \subseteq late
  BY Zenon DEF RevokeDevice
<1>2. HandedOut
  BY RevokeMoves, Zenon DEF HandedOut
<1> QED BY <1>1, <1>2, RevokeMoves, MovesOnward, StoreOnly, Zenon

LEMMA EnqueueStep ==
  ASSUME BridgeInv, NEW d, NEW c \in Commands, Enqueue(d, c), relay' \subseteq Tokens,
         UNCHANGED <<enrollment, device, due, token, agent, results, late, crashes, losses>>
  PROVE  BridgeInv'
<1>1. /\ CommandsMove
      /\ \A b \in Commands : command'[b].state \in {"leased", "done"} => command'[b] = command[b]
  BY EnqueueMoves, Zenon DEF BridgeInv, StoreInv
<1>2. HandedOut
  BY <1>1, Zenon DEF HandedOut
<1>3. StoreInv'
  BY <1>1, StoreMoves, Zenon DEF BridgeInv, StoreInv, StoreType
<1> QED BY <1>1, <1>2, <1>3, MovesOnward, SameDevices, StoreOnly, Zenon

LEMMA EnqueueCommandStep ==
  ASSUME BridgeInv, NEW d \in Devices, NEW c \in Commands, EnqueueCommand(d, c)
  PROVE  BridgeInv'
BY EnqueueStep, Zenon DEF EnqueueCommand, BridgeInv, StoreInv, StoreType

LEMMA RelayEnqueuesStep ==
  ASSUME BridgeInv, NEW t \in Tokens, NEW c \in Commands, RelayEnqueues(t, c)
  PROVE  BridgeInv'
<1>1. relay' \subseteq Tokens
  BY Zenon DEF RelayEnqueues, BridgeInv, StoreInv, StoreType
<1> QED BY <1>1, EnqueueStep, Zenon DEF RelayEnqueues

LEMMA ClockStep ==
  ASSUME BridgeInv, due' \in [Commands -> {"fresh", "lapsed", "over"}], relay' \subseteq Tokens,
         UNCHANGED <<enrollment, device, command, token, agent, results, late, crashes, losses>>
  PROVE  BridgeInv'
<1>1. CommandsMove /\ CommandsOnward /\ HandedOut
  BY Unmoved, Zenon
<1>2. StoreInv'
  BY <1>1, StoreMoves, Zenon DEF BridgeInv
<1> QED BY <1>1, <1>2, SameDevices, StoreOnly, Zenon

LEMMA LeaseLapsesStep ==
  ASSUME BridgeInv, NEW c \in Commands, LeaseLapses(c)
  PROVE  BridgeInv'
<1>1. due' \in [Commands -> {"fresh", "lapsed", "over"}]
  BY Zenon DEF LeaseLapses, BridgeInv, StoreInv, StoreType
<1> QED BY <1>1, ClockStep, Zenon DEF LeaseLapses, BridgeInv, StoreInv, StoreType

LEMMA CommandExpiresStep ==
  ASSUME BridgeInv, NEW c \in Commands, CommandExpires(c)
  PROVE  BridgeInv'
<1>1. due' \in [Commands -> {"fresh", "lapsed", "over"}]
  BY Zenon DEF CommandExpires, BridgeInv, StoreInv, StoreType
<1> QED BY <1>1, ClockStep, Zenon DEF CommandExpires, BridgeInv, StoreInv, StoreType

LEMMA RelayResolvesStep ==
  ASSUME BridgeInv, NEW t \in Tokens, RelayResolves(t)
  PROVE  BridgeInv'
<1>1. relay' \subseteq Tokens
  BY Zenon DEF RelayResolves, BridgeInv, StoreInv, StoreType
<1> QED BY <1>1, ClockStep, Zenon DEF RelayResolves, BridgeInv, StoreInv, StoreType

LEMMA RelayRefusesStep ==
  ASSUME BridgeInv, NEW t \in Tokens, RelayRefuses(t)
  PROVE  BridgeInv'
<1>1. relay' \subseteq Tokens
  BY Zenon DEF RelayRefuses, BridgeInv, StoreInv, StoreType
<1> QED BY <1>1, ClockStep, Zenon DEF RelayRefuses, BridgeInv, StoreInv, StoreType

\* A token is made for an active device only, and a revoked one stays revoked.
LEMMA TokenStep ==
  ASSUME BridgeInv, NEW t \in Tokens,
         NEW new \in [state: {"none", "live", "revoked"}, device: Devices \cup {None}],
         new.state = "revoked" \/ Active(new.device), token' = [token EXCEPT ![t] = new],
         UNCHANGED <<enrollment, device, command, due, relay, agent, results, late, crashes, losses>>
  PROVE  BridgeInv'
<1>1. /\ token' \in [Tokens -> [state: {"none", "live", "revoked"}, device: Devices \cup {None}]]
      /\ token'[t] = new /\ \A u \in Tokens : u # t => token'[u] = token[u]
  BY Zenon DEF BridgeInv, StoreInv, StoreType
<1>2. StoreType' /\ Issued'
  BY <1>1, Zenon DEF BridgeInv, StoreInv, StoreType, Issued
<1>3. ASSUME NEW d \in Devices, device[d] = "revoked", NEW u \in Tokens, token'[u].device = d
      PROVE  token'[u].state = "revoked"
  <2>1. token[u].device = d => token[u].state = "revoked"
    BY <1>3, Zenon DEF BridgeInv, StoreInv, RevokedIsQuiet
  <2>2. ~Active(d)
    BY <1>3, Zenon DEF Active
  <2> QED BY <1>1, <1>3, <2>1, <2>2, Zenon
<1>4. RevokedIsQuiet'
  BY <1>3, Zenon DEF BridgeInv, StoreInv, RevokedIsQuiet
<1> QED BY <1>2, <1>4, Unmoved, SameDevices, StoreOnly, Zenon DEF StoreInv

LEMMA CreateTokenStep ==
  ASSUME BridgeInv, NEW t \in Tokens, NEW d \in Devices, CreateToken(t, d)
  PROVE  BridgeInv'
<1> DEFINE new == [state |-> "live", device |-> d]
<1>1. new \in [state: {"none", "live", "revoked"}, device: Devices \cup {None}] /\ new.device = d
  BY Zenon
<1>2. /\ Active(d) /\ token' = [token EXCEPT ![t] = new]
      /\ UNCHANGED <<enrollment, device, command, due, relay, agent, results, late, crashes, losses>>
  BY Zenon DEF CreateToken
<1> HIDE DEF new
<1> QED BY <1>1, <1>2, TokenStep, Zenon

LEMMA RevokeTokenStep ==
  ASSUME BridgeInv, NEW t \in Tokens, RevokeToken(t)
  PROVE  BridgeInv'
<1> DEFINE new == [token[t] EXCEPT !.state = "revoked"]
<1>1. new \in [state: {"none", "live", "revoked"}, device: Devices \cup {None}] /\ new.state = "revoked"
  BY TokenRevoked, Zenon DEF BridgeInv, StoreInv, StoreType
<1>2. /\ token' = [token EXCEPT ![t] = new]
      /\ UNCHANGED <<enrollment, device, command, due, relay, agent, results, late, crashes, losses>>
  BY Zenon DEF RevokeToken
<1> HIDE DEF new
<1> QED BY <1>1, <1>2, TokenStep, Zenon

\* The server comes to a row of an abandoned upload: it is the row on disk.
LEMMA LateRowStep ==
  ASSUME BridgeInv, NEW r \in late, ServerTakesLateRow(r)
  PROVE  BridgeInv'
<1>1. /\ late' = late \ {r}
      /\ command' = IF Active(r.device) THEN Complete(r.device, r.id, r.body) ELSE command
      /\ due' = LeaseEnds(command') /\ UNCHANGED <<enrollment, device, token, relay, agent, results, crashes, losses>>
  BY Zenon DEF ServerTakesLateRow
<1>2. late' \subseteq late /\ relay' \subseteq Tokens /\ due' \in [Commands -> {"fresh", "lapsed", "over"}]
  BY <1>1, LeaseEndsTyped, Zenon DEF BridgeInv, StoreInv, StoreType
<1>3. r.id \in Commands /\ r.body \in Bodies
  BY Zenon DEF BridgeInv, LateType
<1>4. CASE Active(r.device)
  <2>1. command' = Complete(r.device, r.id, r.body)
    BY <1>1, <1>4, Zenon
  <2>2. CommandsMove /\ \A b \in Commands : Recorded(r.device, r.id, r.body, b)
    <3>1. StoreType /\ Completes(r.device, r.id, r.body)
      BY <1>3, <1>4, <2>1, Zenon DEF BridgeInv, StoreInv, Completes
    <3> QED BY <3>1, CompleteMoves, Zenon
  <2>3. CommandsOnward
    BY <2>2, MovesOnward, Zenon
  <2>4. HandedOut
    <3> SUFFICES ASSUME NEW c \in Commands
                 PROVE  /\ command'[c].state = "leased" => command[c].state = "leased"
                        /\ command'[c].state = "done" /\ command[c].state # "done" /\ command'[c].device = agent.config =>
                             Saved(c) /\ BodyOf(c) = command'[c].result
      BY Zenon DEF HandedOut
    <3>1. CASE command'[c] = command[c] \/ command'[c].state = "expired"
      BY <3>1, Zenon
    <3>2. CASE c = r.id /\ command[r.id].device = r.device /\ command[r.id].state = "leased"
               /\ command'[r.id].state = "done" /\ command'[r.id].result = r.body
      <4>1. command'[c].device = r.device
        BY <2>3, <3>2, Zenon DEF CommandsOnward, CommandOnward
      <4>2. r.device = agent.config => Saved(r.id) /\ BodyOf(r.id) = r.body
        BY Zenon DEF BridgeInv, LateOK
      <4> QED BY <3>2, <4>1, <4>2, Zenon
    <3> QED BY <2>2, <3>1, <3>2, Zenon DEF Recorded
  <2>5. StoreInv'
    BY <1>1, <1>2, <2>2, StoreMoves, Zenon DEF BridgeInv
  <2> QED BY <1>1, <1>2, <2>3, <2>4, <2>5, SameDevices, StoreOnly, Zenon
<1>5. CASE ~Active(r.device)
  <2>1. UNCHANGED command
    BY <1>1, <1>5, Zenon
  <2>2. CommandsMove /\ CommandsOnward /\ HandedOut
    BY <2>1, Unmoved, Zenon
  <2>3. StoreInv'
    BY <1>1, <1>2, <2>2, StoreMoves, Zenon DEF BridgeInv
  <2> QED BY <1>1, <1>2, <2>2, <2>3, SameDevices, StoreOnly, Zenon
<1> QED BY <1>4, <1>5, Zenon

(***************************************************************************)
(* A step of the agent alone.                                              *)
(***************************************************************************)
LEMMA AgentOnly ==
  ASSUME BridgeInv, UNCHANGED <<enrollment, device, command, due, token, relay>>, RowsGoOn, LateGrows, CountType',
         agent' \in Agent, agent'.identity = agent.identity, agent'.config \in {agent.config, None},
         AgentOK', RowsOK', PostingOK', PollOK', Room', DeliveredIsNew'
  PROVE  BridgeInv'
<1>1. CommandsOnward /\ HandedOut /\ DevicesStay
  BY Unmoved, SameDevices, Zenon
<1>2. LateType' /\ DoneIsSaved' /\ LateOK' /\ Unstarted'
  BY <1>1, OnDisk, Zenon
<1>3. StoreInv'
  BY Zenon DEF BridgeInv, StoreInv, StoreType, Issued, RevokedIsQuiet
<1> QED BY <1>2, <1>3, Zenon DEF BridgeInv, RowsGoOn

LEMMA SameRows ==
  ASSUME BridgeInv, UNCHANGED <<command, results>>, agent'.identity = agent.identity
  PROVE  RowsGoOn /\ RowsOK' /\ Pending' = Pending /\ PendingIds' = PendingIds /\ \A c : Saved(c)' <=> Saved(c)
<1>1. RowsGoOn
  BY Zenon DEF BridgeInv, RowsGoOn, ResultsType, OneEach
<1>2. RowsOK'
  BY Zenon DEF BridgeInv, RowsOK
<1> QED BY <1>1, <1>2, Zenon DEF Pending, PendingIds, Saved

LEMMA RoomFacts ==
  ASSUME BridgeInv
  PROVE  /\ Cardinality(Pending) \in Nat /\ Cardinality(Pending) <= Limit
         /\ IsFiniteSet(agent.batch) /\ Cardinality(agent.batch) \in Nat /\ Limit \in Nat
         /\ agent.running = None => Cardinality(Pending) + Cardinality(agent.batch) <= Limit
         /\ agent.running # None => Cardinality(Pending) + Cardinality(agent.batch) + 1 <= Limit
<1>1. agent.batch \in SUBSET Commands
  BY Zenon DEF BridgeInv, Agent
<1>2. IsFiniteSet(agent.batch) /\ Cardinality(agent.batch) \in Nat
  BY <1>1, CommandSets, Zenon
<1>3. Cardinality(Pending) \in Nat
  BY PendingFinite, Zenon DEF BridgeInv
<1>4. Cardinality(Pending) + Cardinality(agent.batch) + (IF agent.running = None THEN 0 ELSE 1) <= Limit
  BY Zenon DEF BridgeInv, Room
<1> QED BY SMTT(20), <1>2, <1>3, <1>4, LimitFacts

\* The agent comes to rest: it holds no command and no upload.
Resting ==
  /\ agent' \in Agent /\ agent'.identity = agent.identity /\ agent'.config \in {agent.config, None}
  /\ agent'.batch = {} /\ agent'.running = None /\ agent'.rows = NoRows /\ agent'.accepted = 0
  /\ agent'.pc \notin {"posting", "operation"}
  /\ agent'.pc \notin {"down", "wiping"} => agent'.config # None /\ agent'.identity = agent'.config
  /\ agent'.pc = "wiping" => agent'.config = None
  /\ agent'.pc = "poll" => Pending' = {}

LEMMA RestsWith ==
  ASSUME BridgeInv, UNCHANGED <<enrollment, device, command, due, token, relay>>, LateGrows, CountType', Resting,
         RowsGoOn, RowsOK', Cardinality(Pending') \in Nat, Cardinality(Pending') <= Limit
  PROVE  BridgeInv'
<1>2. Delivered' = {}
  BY Zenon DEF Delivered, Resting
<1>3. agent'.config # None => device'[agent'.config] # "absent"
  BY Zenon DEF BridgeInv, AgentOK, Resting
<1>5. AgentOK'
  BY <1>2, <1>3, Zenon DEF AgentOK, Resting, Working
<1>6. PostingOK' /\ PollOK'
  BY Zenon DEF PostingOK, PollOK, Resting
<1>7. DeliveredIsNew'
  BY <1>2, Zenon DEF DeliveredIsNew, Delivered
<1>8. Room'
  <2>1. Cardinality(agent'.batch) = 0
    BY FS_EmptySet, Zenon DEF Resting
  <2>3. Cardinality(Pending') + Cardinality(agent'.batch) + 0 <= Limit
    BY <2>1, LimitFacts
  <2> QED BY <2>3, Zenon DEF Room, Resting
<1> QED BY <1>5, <1>6, <1>7, <1>8, AgentOnly, Zenon DEF Resting

LEMMA Rests ==
  ASSUME BridgeInv, UNCHANGED <<enrollment, device, command, due, token, relay, results>>, LateGrows, CountType', Resting
  PROVE  BridgeInv'
<1>1. RowsGoOn /\ RowsOK' /\ Pending' = Pending
  BY SameRows, Zenon DEF Resting
<1> QED BY <1>1, RoomFacts, RestsWith, Zenon

LEMMA WorkingFacts ==
  ASSUME BridgeInv, Working
  PROVE  agent.config # None /\ agent.config \in Devices /\ agent.identity = agent.config
BY Zenon DEF BridgeInv, AgentOK, Agent

LEMMA SameLate ==
  ASSUME UNCHANGED late
  PROVE  LateGrows
BY Zenon DEF LateGrows

LEMMA SameCounts ==
  ASSUME BridgeInv, UNCHANGED <<crashes, losses>>
  PROVE  CountType'
BY Zenon DEF BridgeInv, CountType

LEMMA LossCounted ==
  ASSUME BridgeInv, Loses, UNCHANGED crashes
  PROVE  CountType'
BY BridgeAssumption DEF BridgeInv, CountType, Loses

LEMMA AgentIdle ==
  ASSUME BridgeInv, agent.pc \notin {"posting", "batch", "operation"}
  PROVE  agent.batch = {} /\ agent.running = None /\ agent.rows = NoRows /\ agent.accepted = 0
BY Zenon DEF BridgeInv, AgentOK

LEMMA CycleStartsStep ==
  ASSUME BridgeInv, CycleStarts
  PROVE  BridgeInv'
<1>1. agent.pc = "top" /\ agent' = [agent EXCEPT !.pc = "flush", !.then = "poll"] /\ UNCHANGED <<bridge, results, crashes, losses>>
  BY Zenon DEF CycleStarts
<1>2. "flush" \in AgentPCs /\ "poll" \in Thens
  BY DEF AgentPCs, Thens
<1>0. agent' = Turned(agent, "flush", "poll")
  BY <1>1, Zenon DEF Turned
<1>3. /\ agent' \in Agent /\ agent'.pc = "flush" /\ agent'.config = agent.config /\ agent'.identity = agent.identity
      /\ agent'.batch = agent.batch /\ agent'.running = agent.running /\ agent'.rows = agent.rows /\ agent'.accepted = agent.accepted
  BY ZenonT(30), <1>0, <1>2, AgentThen DEF BridgeInv
<1>4. Working /\ UNCHANGED <<enrollment, device, command, due, token, relay, late>>
  BY <1>1, Zenon DEF Working, bridge
<1>5. Resting
  BY <1>1, <1>3, <1>4, AgentIdle, WorkingFacts, Zenon DEF Resting
<1> QED BY ZenonT(30), <1>1, <1>4, <1>5, SameLate, SameCounts, Rests

LEMMA BatchDoneStep ==
  ASSUME BridgeInv, BatchDone
  PROVE  BridgeInv'
<1>1. /\ agent.pc = "batch" /\ agent.batch = {} /\ agent' = [agent EXCEPT !.pc = "flush", !.then = "top"]
      /\ UNCHANGED <<bridge, results, crashes, losses>>
  BY Zenon DEF BatchDone
<1>2. "flush" \in AgentPCs /\ "top" \in Thens
  BY DEF AgentPCs, Thens
<1>0. agent' = Turned(agent, "flush", "top")
  BY <1>1, Zenon DEF Turned
<1>3. /\ agent' \in Agent /\ agent'.pc = "flush" /\ agent'.config = agent.config /\ agent'.identity = agent.identity
      /\ agent'.batch = agent.batch /\ agent'.running = agent.running /\ agent'.rows = agent.rows /\ agent'.accepted = agent.accepted
  BY ZenonT(30), <1>0, <1>2, AgentThen DEF BridgeInv
<1>4. Working /\ UNCHANGED <<enrollment, device, command, due, token, relay, late>>
  BY <1>1, Zenon DEF Working, bridge
<1>5. agent.running = None /\ agent.rows = NoRows /\ agent.accepted = 0
  BY <1>1, Zenon DEF BridgeInv, AgentOK
<1>6. Resting
  BY <1>1, <1>3, <1>4, <1>5, WorkingFacts, Zenon DEF Resting
<1> QED BY <1>1, <1>4, <1>6, SameLate, SameCounts, Rests, Zenon

\* Going back to the top of the cycle.
LEMMA GoesToTop ==
  ASSUME BridgeInv, UNCHANGED <<enrollment, device, command, due, token, relay, results>>, LateGrows, CountType',
         Working, agent' = Top(agent)
  PROVE  BridgeInv'
<1>1. /\ agent' \in Agent /\ agent'.pc = "top" /\ agent'.config = agent.config /\ agent'.identity = agent.identity
      /\ agent'.batch = {} /\ agent'.running = None /\ agent'.rows = NoRows /\ agent'.accepted = 0
  BY AgentTop, Zenon DEF BridgeInv
<1>2. Resting
  BY <1>1, WorkingFacts, Zenon DEF Resting
<1> QED BY <1>2, Rests, Zenon

LEMMA UploadLostStep ==
  ASSUME BridgeInv, UploadLost
  PROVE  BridgeInv'
<1>1. /\ Loses /\ agent.pc = "posting" /\ agent' = Top(agent)
      /\ UNCHANGED <<enrollment, device, command, due, token, relay, results, crashes>>
      /\ late' = late \cup Carried \/ late' = late
  BY Zenon DEF UploadLost
<1>2. LateGrows
  BY <1>1, Zenon DEF LateGrows
<1> QED BY <1>1, <1>2, LossCounted, GoesToTop, Zenon DEF Working

LEMMA RequestLostStep ==
  ASSUME BridgeInv, RequestLost
  PROVE  BridgeInv'
<1>1. /\ Loses /\ agent.pc \in {"top", "poll", "batch"} /\ agent' = Top(agent) /\ UNCHANGED <<results, crashes>>
      /\ UNCHANGED <<enrollment, device, command, due, token, relay, late>>
  BY Zenon DEF RequestLost, bridge
<1> QED BY <1>1, SameLate, LossCounted, GoesToTop, Zenon DEF Working

LEMMA UploadRefusedStep ==
  ASSUME BridgeInv, UploadRefused
  PROVE  BridgeInv'
<1>1. /\ agent.pc = "posting" /\ agent' = Top(agent) /\ UNCHANGED <<results, crashes, losses>>
      /\ UNCHANGED <<enrollment, device, command, due, token, relay, late>>
  BY Zenon DEF UploadRefused, bridge
<1> QED BY <1>1, SameLate, SameCounts, GoesToTop, Zenon DEF Working

LEMMA NoKeyStep ==
  ASSUME BridgeInv, NoKey
  PROVE  BridgeInv'
<1>1. /\ agent' = Stopped(agent) /\ UNCHANGED <<results, crashes, losses>>
      /\ UNCHANGED <<enrollment, device, command, due, token, relay, late>>
  BY Zenon DEF NoKey, bridge
<1>2. /\ agent' \in Agent /\ agent'.pc = "down" /\ agent'.config = agent.config /\ agent'.identity = agent.identity
      /\ agent'.batch = {} /\ agent'.running = None /\ agent'.rows = NoRows /\ agent'.accepted = 0
  BY <1>1, AgentStopped, Zenon DEF BridgeInv
<1>3. Resting
  BY <1>2, Zenon DEF Resting
<1> QED BY <1>1, <1>3, SameLate, SameCounts, Rests, Zenon

LEMMA SeesRevokedStep ==
  ASSUME BridgeInv, SeesRevoked
  PROVE  BridgeInv'
<1>1. /\ agent' = [Top(agent) EXCEPT !.pc = "unkeyed", !.key = FALSE] /\ UNCHANGED <<results, crashes, losses>>
      /\ UNCHANGED <<enrollment, device, command, due, token, relay, late>>
  BY Zenon DEF SeesRevoked, bridge
<1>2. /\ agent' \in Agent /\ agent'.pc = "unkeyed" /\ agent'.config = agent.config /\ agent'.identity = agent.identity
      /\ agent'.batch = {} /\ agent'.running = None /\ agent'.rows = NoRows /\ agent'.accepted = 0
  BY <1>1, AgentUnkeyed, Zenon DEF BridgeInv
<1>3. Working
  BY Zenon DEF SeesRevoked, AnsweredRevoked, Working
<1>4. Resting
  BY <1>2, <1>3, WorkingFacts, Zenon DEF Resting
<1> QED BY <1>1, <1>4, SameLate, SameCounts, Rests, Zenon

LEMMA WipeConfigStep ==
  ASSUME BridgeInv, WipeConfig
  PROVE  BridgeInv'
<1>1. /\ agent.pc = "unkeyed" /\ agent' = [agent EXCEPT !.pc = "wiping", !.config = None]
      /\ UNCHANGED <<results, crashes, losses>>
      /\ UNCHANGED <<enrollment, device, command, due, token, relay, late>>
  BY Zenon DEF WipeConfig, bridge
<1>2. /\ agent' \in Agent /\ agent'.pc = "wiping" /\ agent'.config = None /\ agent'.identity = agent.identity
      /\ agent'.batch = agent.batch /\ agent'.running = agent.running /\ agent'.rows = agent.rows
      /\ agent'.accepted = agent.accepted
  BY <1>1, AgentWipes, Zenon DEF BridgeInv
<1>3. Resting
  BY <1>1, <1>2, AgentIdle, Zenon DEF Resting
<1> QED BY <1>1, <1>3, SameLate, SameCounts, Rests, Zenon

LEMMA CrashStep ==
  ASSUME BridgeInv, Crash
  PROVE  BridgeInv'
<1>1. /\ crashes < MaxCrashes /\ crashes' = crashes + 1 /\ agent' = Stopped(agent)
      /\ late' = IF agent.pc = "posting" THEN late \cup Carried ELSE late
      /\ UNCHANGED <<enrollment, device, command, due, token, relay, results, losses>>
  BY Zenon DEF Crash
<1>2. /\ agent' \in Agent /\ agent'.pc = "down" /\ agent'.config = agent.config /\ agent'.identity = agent.identity
      /\ agent'.batch = {} /\ agent'.running = None /\ agent'.rows = NoRows /\ agent'.accepted = 0
  BY <1>1, AgentStopped, Zenon DEF BridgeInv
<1>3. CountType'
  BY <1>1, BridgeAssumption DEF BridgeInv, CountType
<1>4. LateGrows
  BY <1>1, Zenon DEF LateGrows
<1>5. Resting
  BY <1>2, Zenon DEF Resting
<1> QED BY <1>1, <1>3, <1>4, <1>5, Rests, Zenon

LEMMA UninstallStep ==
  ASSUME BridgeInv, Uninstall
  PROVE  BridgeInv'
<1>1. /\ agent' = [Stopped(agent) EXCEPT !.config = None, !.key = FALSE]
      /\ late' = IF agent.pc = "posting" THEN late \cup Carried ELSE late
      /\ UNCHANGED <<enrollment, device, command, due, token, relay, results, crashes, losses>>
  BY Zenon DEF Uninstall
<1>2. /\ agent' \in Agent /\ agent'.pc = "down" /\ agent'.config = None /\ agent'.identity = agent.identity
      /\ agent'.batch = {} /\ agent'.running = None /\ agent'.rows = NoRows /\ agent'.accepted = 0
  BY <1>1, AgentRemoved, Zenon DEF BridgeInv
<1>3. LateGrows
  BY <1>1, Zenon DEF LateGrows
<1>4. Resting
  BY <1>2, Zenon DEF Resting
<1> QED BY <1>1, <1>3, <1>4, SameCounts, Rests, Zenon

(***************************************************************************)
(* Uploads.                                                                *)
(***************************************************************************)
LEMMA FlushStep ==
  ASSUME BridgeInv, Flush
  PROVE  BridgeInv'
<1>0. /\ agent.pc = "flush" /\ UNCHANGED <<results, crashes, losses>>
      /\ UNCHANGED <<enrollment, device, command, due, token, relay, late>>
  BY Zenon DEF Flush, bridge
<1>1. PendingRows = PendingIds
  BY RoomFacts, UploadTakesAll, Zenon DEF BridgeInv
<1>2. agent.batch = {} /\ agent.running = None /\ agent.rows = NoRows /\ agent.accepted = 0
      /\ agent.config # None /\ agent.identity = agent.config
  BY <1>0, AgentIdle, WorkingFacts, Zenon DEF Working
<1>3. CASE PendingRows = {}
  <2>1. agent' = [agent EXCEPT !.pc = agent.then]
    BY <1>3, Zenon DEF Flush
  <2>2. agent.then \in AgentPCs /\ agent.then \in {"poll", "top"}
    BY DEF BridgeInv, Agent, AgentPCs, Thens
  <2>3. /\ agent' \in Agent /\ agent'.pc = agent.then /\ agent'.config = agent.config /\ agent'.identity = agent.identity
        /\ agent'.batch = agent.batch /\ agent'.running = agent.running /\ agent'.rows = agent.rows /\ agent'.accepted = agent.accepted
    BY <2>1, <2>2, AgentPC, Zenon DEF BridgeInv
  <2>4. Pending' = {}
    BY <1>0, <1>1, <1>3, Zenon DEF PendingIds, Pending
  <2>5. Resting
    BY <1>2, <2>2, <2>3, <2>4, Zenon DEF Resting
  <2> QED BY <1>0, <2>5, SameLate, SameCounts, Rests, Zenon
<1>4. CASE PendingRows # {}
  <2> DEFINE u == [sent |-> PendingIds, todo |-> PendingIds]
  <2>1. agent' = Posted(agent, "posting", u)
    BY <1>1, <1>4, Zenon DEF Flush, Posted
  <2>2. PendingIds \in SUBSET Commands
    BY PendingIdsFew, Zenon DEF BridgeInv
  <2>3. u \in Upload /\ u.sent = PendingIds /\ u.todo = PendingIds
    BY <2>2, Zenon DEF Upload
  <2>4. "posting" \in AgentPCs
    BY DEF AgentPCs
  <2> HIDE DEF u
  <2>5. /\ agent' \in Agent /\ agent'.pc = "posting" /\ agent'.config = agent.config /\ agent'.identity = agent.identity
        /\ agent'.batch = agent.batch /\ agent'.running = agent.running /\ agent'.rows = u /\ agent'.accepted = agent.accepted
    BY ZenonT(30), <2>1, <2>3, <2>4, AgentUploads DEF BridgeInv
  <2>6. RowsGoOn /\ RowsOK' /\ Pending' = Pending /\ PendingIds' = PendingIds /\ \A c : Saved(c)' <=> Saved(c)
    BY <1>0, <2>5, SameRows, Zenon
  <2>7. AgentOK'
    BY <1>0, <1>2, <2>5, Zenon DEF BridgeInv, AgentOK, Working, Delivered
  <2>8. PostingOK'
    <3>1. DoneOf(agent.rows.sent \ agent.rows.todo)' \in SUBSET Commands
      BY <2>2, <2>3, <2>5, Zenon DEF DoneOf
    <3>2. Cardinality(DoneOf(agent.rows.sent \ agent.rows.todo)') \in Nat
      BY <3>1, CommandSets, Zenon
    <3>3. 0 <= Cardinality(DoneOf(agent.rows.sent \ agent.rows.todo)')
      BY <3>2
    <3> QED BY <1>2, <2>3, <2>5, <2>6, <3>3, Zenon DEF PostingOK
  <2>9. PollOK' /\ Room' /\ DeliveredIsNew'
    BY <1>2, <2>5, <2>6, Zenon DEF BridgeInv, PollOK, Room, DeliveredIsNew
  <2> QED BY ZenonT(30), <1>0, <2>5, <2>6, <2>7, <2>8, <2>9, SameLate, SameCounts, AgentOnly
<1> QED BY <1>3, <1>4, Zenon

\* A count that equals what was sent means that every row was recorded.
LEMMA AllRecorded ==
  ASSUME BridgeInv, agent.pc = "posting", agent.rows.todo = {}, agent.accepted = Cardinality(agent.rows.sent)
  PROVE  \A c \in agent.rows.sent : command[c].state = "done"
<1>1. agent.rows.sent \in SUBSET Commands
  BY Zenon DEF BridgeInv, Agent, Upload
<1>2. agent.rows.sent \ agent.rows.todo = agent.rows.sent
  BY Zenon
<1>3. Cardinality(agent.rows.sent) <= Cardinality(DoneOf(agent.rows.sent))
  BY <1>2, Zenon DEF BridgeInv, PostingOK
<1>4. DoneOf(agent.rows.sent) \in SUBSET agent.rows.sent
  BY Zenon DEF DoneOf
<1>5. IsFiniteSet(agent.rows.sent) /\ Cardinality(agent.rows.sent) \in Nat /\ Cardinality(DoneOf(agent.rows.sent)) \in Nat
  BY <1>1, <1>4, CommandSets, Zenon
<1>6. /\ Cardinality(DoneOf(agent.rows.sent)) <= Cardinality(agent.rows.sent)
      /\ Cardinality(agent.rows.sent) = Cardinality(DoneOf(agent.rows.sent)) => agent.rows.sent = DoneOf(agent.rows.sent)
  BY <1>4, <1>5, FS_Subset, Zenon
<1>7. Cardinality(agent.rows.sent) = Cardinality(DoneOf(agent.rows.sent))
  BY SMTT(20), <1>3, <1>5, <1>6
<1>8. agent.rows.sent = DoneOf(agent.rows.sent)
  BY <1>6, <1>7, Zenon
<1> QED BY <1>8, Zenon DEF DoneOf

LEMMA UploadAnsweredStep ==
  ASSUME BridgeInv, UploadAnswered
  PROVE  BridgeInv'
<1>0. /\ agent.pc = "posting" /\ agent.rows.todo = {} /\ UNCHANGED <<crashes, losses>>
      /\ UNCHANGED <<enrollment, device, command, due, token, relay, late>>
  BY Zenon DEF UploadAnswered, bridge
<1>1. Working
  BY <1>0, Zenon DEF Working
<1>2. CASE agent.accepted # Cardinality(agent.rows.sent)
  BY ZenonT(30), <1>0, <1>1, <1>2, SameLate, SameCounts, GoesToTop DEF UploadAnswered
<1>3. CASE agent.accepted = Cardinality(agent.rows.sent)
  <2>1. /\ results' = SetPending(agent.rows.sent, FALSE)
        /\ agent' = [Posted(agent, agent.then, NoRows) EXCEPT !.accepted = 0]
    BY <1>3, Zenon DEF UploadAnswered, Posted
  <2>2. agent.rows.sent = PendingIds /\ agent.batch = {} /\ agent.running = None
    BY <1>0, Zenon DEF BridgeInv, PostingOK, AgentOK
  <2>3. /\ ResultsType' /\ OneEach' /\ DOMAIN results' = DOMAIN results
        /\ \A i \in DOMAIN results : results'[i].id = results[i].id /\ results'[i].body = results[i].body
        /\ Pending' = {} /\ Cardinality(Pending') = 0
    BY <2>1, <2>2, ResultsAcknowledged, Zenon DEF BridgeInv
  <2>4. agent.then \in AgentPCs /\ agent.then \in {"poll", "top"} /\ NoRows \in Upload /\ 0 \in Counts
    BY LimitFacts DEF BridgeInv, Agent, AgentPCs, Thens, NoRows, Upload
  <2>5. /\ agent' \in Agent /\ agent'.pc = agent.then /\ agent'.config = agent.config /\ agent'.identity = agent.identity
        /\ agent'.batch = agent.batch /\ agent'.running = agent.running /\ agent'.rows = NoRows /\ agent'.accepted = 0
    <3> DEFINE new == Posted(agent, agent.then, NoRows)
    <3>1. /\ new \in Agent /\ new.pc = agent.then /\ new.config = agent.config /\ new.identity = agent.identity
          /\ new.batch = agent.batch /\ new.running = agent.running /\ new.rows = NoRows
      BY ZenonT(30), <2>4, AgentUploads DEF BridgeInv
    <3>2. agent' = [new EXCEPT !.accepted = 0]
      BY <2>1, Zenon
    <3> HIDE DEF new
    <3> QED BY <2>4, <3>1, <3>2, AgentCounts, Zenon
  <2>6. RowsGoOn
    BY <2>3, Zenon DEF RowsGoOn
  <2>7. RowsOK'
    <3> SUFFICES ASSUME NEW i \in DOMAIN results
                 PROVE  /\ agent.identity # None /\ command[results[i].id].device = agent.identity
                        /\ command[results[i].id].state = "done"
      BY <1>0, <2>3, <2>5, Zenon DEF RowsOK
    <3>1. /\ agent.identity # None /\ command[results[i].id].device = agent.identity
          /\ ~results[i].pending => command[results[i].id].state = "done"
      BY Zenon DEF BridgeInv, RowsOK
    <3>2. results[i].pending => results[i].id \in agent.rows.sent
      BY <2>2, Zenon DEF PendingIds, Pending
    <3> QED BY <1>0, <1>3, <3>1, <3>2, AllRecorded, Zenon
  <2>8. Resting
    BY ZenonT(30), <1>1, <2>2, <2>3, <2>4, <2>5, WorkingFacts DEF Resting
  <2>9. Cardinality(Pending') \in Nat /\ Cardinality(Pending') <= Limit
    BY <2>3, LimitFacts
  <2> QED BY ZenonT(30), <1>0, <2>6, <2>7, <2>8, <2>9, SameLate, SameCounts, RestsWith
<1> QED BY <1>2, <1>3, Zenon

LEMMA RowsStay ==
  ASSUME BridgeInv, CommandsOnward, UNCHANGED results, agent'.identity = agent.identity
  PROVE  RowsGoOn /\ RowsOK' /\ Pending' = Pending /\ PendingIds' = PendingIds /\ \A c : Saved(c)' <=> Saved(c)
<1>1. RowsOK'
  <2> SUFFICES ASSUME NEW i \in DOMAIN results
               PROVE  /\ agent.identity # None /\ command'[results[i].id].device = agent.identity
                      /\ ~results[i].pending => command'[results[i].id].state = "done"
    BY Zenon DEF RowsOK
  <2>1. results[i].id \in Commands
    BY RowTyped, Zenon DEF BridgeInv
  <2>2. /\ agent.identity # None /\ command[results[i].id].device = agent.identity
        /\ ~results[i].pending => command[results[i].id].state = "done"
    BY Zenon DEF BridgeInv, RowsOK
  <2> QED BY <2>1, <2>2, IssuedStays, Zenon
<1>2. RowsGoOn
  BY Zenon DEF BridgeInv, RowsGoOn, ResultsType, OneEach
<1> QED BY <1>1, <1>2, Zenon DEF Pending, PendingIds, Saved

\* Of a set S of rows, one more row is taken; the count of those recorded so far grows
\* by one if that row is recorded.
Tally(S, T, c, n) ==
  S \in SUBSET Commands /\ T \in SUBSET S /\ c \in T /\ n \in Nat /\ n <= Cardinality(DoneOf(S \ T))

LEMMA RowCounted ==
  ASSUME CommandsOnward, NEW S, NEW T, NEW c, NEW n, Tally(S, T, c, n)
  PROVE  /\ n <= Cardinality({b \in S \ (T \ {c}) : command'[b].state = "done"})
         /\ command'[c].state = "done" =>
              n + 1 <= Cardinality({b \in S \ (T \ {c}) : command'[b].state = "done"}) /\ n + 1 <= Cardinality(S)
<1> DEFINE X == DoneOf(S \ T)
           Y == {b \in S \ (T \ {c}) : command'[b].state = "done"}
<1>0. S \in SUBSET Commands /\ T \in SUBSET S /\ c \in T /\ n \in Nat /\ n <= Cardinality(DoneOf(S \ T))
  BY Zenon DEF Tally
<1>1. X \in SUBSET Y /\ Y \in SUBSET S /\ Y \in SUBSET Commands /\ X \in SUBSET Commands
  BY <1>0, Zenon DEF DoneOf, CommandsOnward, CommandOnward
<1>2. c \notin X /\ (command'[c].state = "done" => c \in Y)
  BY <1>0, Zenon DEF DoneOf
<1>3. n <= Cardinality(X) /\ n \in Nat
  BY <1>0, Zenon
<1> HIDE DEF X, Y
<1>4. /\ IsFiniteSet(X) /\ IsFiniteSet(Y) /\ IsFiniteSet(S)
      /\ Cardinality(X) \in Nat /\ Cardinality(Y) \in Nat /\ Cardinality(S) \in Nat
  BY <1>0, <1>1, CommandSets, Zenon
<1>5. Cardinality(X) <= Cardinality(Y) /\ Cardinality(Y) <= Cardinality(S)
  BY <1>1, <1>4, FS_Subset, Zenon
<1>6. n <= Cardinality(Y)
  BY SMTT(20), <1>3, <1>4, <1>5
<1>7. ASSUME command'[c].state = "done" PROVE n + 1 <= Cardinality(Y) /\ n + 1 <= Cardinality(S)
  <2>1. Cardinality(X \cup {c}) = Cardinality(X) + 1
    BY <1>2, <1>4, FS_AddElement, Zenon
  <2>2. X \cup {c} \in SUBSET Y
    BY <1>1, <1>2, <1>7, Zenon
  <2>3. Cardinality(X \cup {c}) <= Cardinality(Y)
    BY <1>4, <2>2, FS_Subset, Zenon
  <2> QED BY SMTT(20), <1>3, <1>4, <1>5, <2>1, <2>3
<1> QED BY <1>6, <1>7, Zenon DEF Y

LEMMA ServerTakesRowStep ==
  ASSUME BridgeInv, NEW c \in Commands, ServerTakesRow(c)
  PROVE  BridgeInv'
<1> DEFINE body == BodyOf(c)
           n == IF Accepts(agent.config, c, body) THEN agent.accepted + 1 ELSE agent.accepted
           t == agent.rows.todo \ {c}
<1>0. /\ agent.pc = "posting" /\ c \in agent.rows.todo /\ Active(agent.config)
      /\ command' = Complete(agent.config, c, body)
      /\ due' = LeaseEnds(command') /\ UNCHANGED <<enrollment, device, token, relay, results, late, crashes, losses>>
  BY Zenon DEF ServerTakesRow
<1>1. agent' = Taken(agent, t, n)
  BY Zenon DEF ServerTakesRow, Taken
<1>2. /\ agent.rows.sent = PendingIds /\ agent.rows.todo \subseteq agent.rows.sent
      /\ agent.accepted <= Cardinality(DoneOf(agent.rows.sent \ agent.rows.todo))
      /\ agent.batch = {} /\ agent.running = None /\ agent.config # None /\ agent.identity = agent.config
  BY <1>0, Zenon DEF BridgeInv, PostingOK, AgentOK, Working
<1>3. Saved(c) /\ body \in Bodies
  BY <1>0, <1>2, PendingIdsFew, BodyTyped, Zenon DEF BridgeInv
<1>4. CommandsMove /\ (\A b \in Commands : Recorded(agent.config, c, body, b)) /\ (Accepts(agent.config, c, body) => command'[c].state = "done")
  <2>1. StoreType /\ Completes(agent.config, c, body)
    BY <1>0, <1>3, Zenon DEF BridgeInv, StoreInv, Completes
  <2> HIDE DEF body
  <2> QED BY <2>1, CompleteMoves, Zenon
<1>5. CommandsOnward
  BY <1>4, MovesOnward, Zenon
<1>6. StoreInv' /\ DevicesStay
  <2>1. due' \in [Commands -> {"fresh", "lapsed", "over"}] /\ relay' \subseteq Tokens
    BY <1>0, LeaseEndsTyped, Zenon DEF BridgeInv, StoreInv, StoreType
  <2> QED BY ZenonT(30), <1>0, <1>4, <2>1, StoreMoves, SameDevices DEF BridgeInv
<1>7. HandedOut
  <2> SUFFICES ASSUME NEW b \in Commands
               PROVE  command'[b].state = "done" /\ command[b].state # "done" => Saved(b) /\ BodyOf(b) = command'[b].result
    BY <1>2, Zenon DEF HandedOut
  <2> QED BY <1>3, <1>4, Zenon DEF Recorded
<1> DEFINE S == agent.rows.sent
           T == agent.rows.todo
           Y == {b \in S \ (T \ {c}) : command'[b].state = "done"}
<1>8. S \in SUBSET Commands /\ T \in SUBSET S /\ t \in SUBSET Commands /\ agent.accepted \in Nat /\ agent.accepted \in Counts
  BY SMTT(20), <1>2, LimitFacts DEF BridgeInv, Agent, Upload, Counts
<1>9. /\ agent.accepted <= Cardinality(Y)
      /\ command'[c].state = "done" => agent.accepted + 1 <= Cardinality(Y) /\ agent.accepted + 1 <= Cardinality(S)
  <2> DEFINE m == agent.accepted
  <2>1. Tally(S, T, c, m)
    BY <1>0, <1>2, <1>8, Zenon DEF Tally
  <2> HIDE DEF S, T, m
  <2> QED BY <1>5, <2>1, RowCounted, Zenon DEF m
<1>10. n \in Counts /\ n <= Cardinality(Y)
  <2>1. CASE Accepts(agent.config, c, body)
    <3>1. Cardinality(S) <= Cardinality(Pending) /\ Cardinality(Pending) <= Limit /\ Cardinality(Pending) \in Nat
      BY <1>2, RoomFacts, PendingIdsFew, Zenon DEF BridgeInv
    <3>2. Cardinality(S) \in Nat
      BY <1>8, CommandSets, Zenon
    <3>3. agent.accepted + 1 <= Cardinality(Y) /\ agent.accepted + 1 <= Cardinality(S) /\ n = agent.accepted + 1
      BY <1>4, <1>9, <2>1, Zenon
    <3> HIDE DEF Y, S, n
    <3> QED BY SMTT(20), <1>8, <3>1, <3>2, <3>3, LimitFacts DEF Counts
  <2>2. CASE ~Accepts(agent.config, c, body)
    BY <1>8, <1>9, <2>2, Zenon
  <2> QED BY <2>1, <2>2, Zenon
<1>11. /\ agent' \in Agent /\ agent'.pc = agent.pc /\ agent'.config = agent.config /\ agent'.identity = agent.identity
       /\ agent'.batch = agent.batch /\ agent'.running = agent.running /\ agent'.accepted = n
       /\ agent'.rows.sent = S /\ agent'.rows.todo = T \ {c}
  <2>1. Takes(agent, t, n)
    BY <1>8, <1>10, Zenon DEF BridgeInv, Takes
  <2>2. /\ agent' \in Agent /\ agent'.pc = agent.pc /\ agent'.config = agent.config /\ agent'.identity = agent.identity
        /\ agent'.batch = agent.batch /\ agent'.running = agent.running /\ agent'.accepted = n
        /\ agent'.rows.sent = agent.rows.sent /\ agent'.rows.todo = t
    <3> HIDE DEF n, t
    <3>1. TookOne(agent', agent, t, n)
      BY <1>1, <2>1, AgentTakes, Zenon
    <3> QED BY <3>1, Zenon DEF TookOne
  <2> QED BY <2>2, Zenon
<1> HIDE DEF n
<1>12. RowsGoOn /\ RowsOK' /\ Pending' = Pending /\ PendingIds' = PendingIds /\ \A b : Saved(b)' <=> Saved(b)
  BY ZenonT(30), <1>0, <1>5, <1>11, RowsStay
<1>13. LateType' /\ DoneIsSaved' /\ LateOK' /\ Unstarted'
  BY ZenonT(30), <1>0, <1>5, <1>6, <1>7, <1>11, <1>12, SameLate, OnDisk
<1>14. AgentOK'
  BY ZenonT(30), <1>0, <1>2, <1>11 DEF BridgeInv, AgentOK, Working, Delivered
<1>15. PostingOK'
  <2>1. DoneOf(agent.rows.sent \ agent.rows.todo)' = Y
    BY <1>11, Zenon DEF DoneOf
  <2> QED BY ZenonT(30), <1>2, <1>10, <1>11, <1>12, <2>1 DEF PostingOK
<1>16. PollOK' /\ Room' /\ DeliveredIsNew'
  BY ZenonT(30), <1>0, <1>2, <1>11, <1>12 DEF BridgeInv, PollOK, Room, DeliveredIsNew
<1>17. CountType'
  BY <1>0, SameCounts, Zenon
<1> QED BY ZenonT(30), <1>6, <1>11, <1>12, <1>13, <1>14, <1>15, <1>16, <1>17 DEF BridgeInv, RowsGoOn

(***************************************************************************)
(* Polling and running commands.                                           *)
(***************************************************************************)
\* What a poll leases has no row: every row was acknowledged, so its command is done.
LEMMA LeasedIsNew ==
  ASSUME BridgeInv, agent.pc = "poll", NEW c \in Commands, command[c].state \in Live
  PROVE  ~Saved(c)
<1> SUFFICES ASSUME NEW i \in DOMAIN results, results[i].id = c PROVE FALSE
  BY Zenon DEF Saved
<1>1. ~results[i].pending
  BY Zenon DEF BridgeInv, PollOK, Pending
<1>2. command[c].state = "done"
  BY <1>1, Zenon DEF BridgeInv, RowsOK
<1> QED BY <1>2, Zenon DEF Live

LEMMA PollStep ==
  ASSUME BridgeInv, Poll
  PROVE  BridgeInv'
<1> DEFINE d == agent.config
           L == Leasable(d)
<1>0. /\ agent.pc = "poll" /\ Active(d) /\ Lease(d)
      /\ UNCHANGED <<enrollment, device, token, relay, results, late, crashes>>
  BY Zenon DEF Poll
<1>1. /\ agent.batch = {} /\ agent.running = None /\ agent.rows = NoRows /\ agent.accepted = 0
      /\ d # None /\ agent.identity = d /\ Pending = {}
  BY <1>0, AgentIdle, WorkingFacts, Zenon DEF Working, BridgeInv, PollOK
<1>2. /\ CommandsMove /\ due' \in [Commands -> {"fresh", "lapsed", "over"}]
      /\ \A c \in L : c \in Commands /\ command[c].device = d /\ command[c].state \in Live
      /\ \A c \in Commands : c \in L \/ command'[c].state = "expired" \/ command'[c] = command[c]
      /\ \A c \in L : command'[c].device = d /\ command'[c].state = "leased"
  BY <1>0, LeaseMoves, Zenon DEF BridgeInv, StoreInv
<1>3. CommandsOnward
  BY <1>2, MovesOnward, Zenon
<1>4. StoreInv' /\ DevicesStay
  BY <1>0, <1>2, StoreMoves, SameDevices, Zenon DEF BridgeInv, StoreInv, StoreType
<1>5. HandedOut
  BY <1>1, <1>2, Zenon DEF HandedOut
<1>6. L \in SUBSET Commands /\ Cardinality(L) <= Limit
  BY LeasableFew, Zenon
<1> HIDE DEF L
<1>7. /\ agent' \in Agent /\ agent'.config = d /\ agent'.identity = agent.identity /\ agent'.running = None
      /\ agent'.rows = NoRows /\ agent'.accepted = 0 /\ CountType'
      /\ \/ agent'.pc = "batch" /\ agent'.batch = L
         \/ agent'.pc = "top" /\ agent'.batch = {}
  <2>1. CASE agent' = [agent EXCEPT !.pc = "batch", !.batch = L] /\ UNCHANGED losses
    <3>1. agent' = Handed(agent, "batch", L)
      BY <2>1, Zenon DEF Handed
    <3>2. "batch" \in AgentPCs /\ agent \in Agent
      BY DEF AgentPCs, BridgeInv
    <3>3. /\ agent' \in Agent /\ agent'.pc = "batch" /\ agent'.config = agent.config /\ agent'.identity = agent.identity
          /\ agent'.batch = L /\ agent'.running = agent.running /\ agent'.rows = agent.rows /\ agent'.accepted = agent.accepted
      BY ZenonT(30), <1>6, <3>1, <3>2, AgentBatch
    <3> QED BY ZenonT(30), <1>0, <1>1, <2>1, <3>3, SameCounts
  <2>2. CASE Loses /\ agent' = Top(agent)
    BY <1>0, <2>2, AgentTop, LossCounted, Zenon DEF BridgeInv
  <2> QED BY <2>1, <2>2, Zenon DEF Poll, L
<1>8. RowsGoOn /\ RowsOK' /\ Pending' = Pending /\ \A c : Saved(c)' <=> Saved(c)
  BY <1>0, <1>3, <1>7, RowsStay, Zenon
<1>9. LateType' /\ DoneIsSaved' /\ LateOK' /\ Unstarted'
  BY ZenonT(30), <1>0, <1>3, <1>4, <1>5, <1>7, <1>8, SameLate, OnDisk
<1>10. Delivered' \in SUBSET L /\ agent'.batch \in SUBSET L
  BY <1>7, Zenon DEF Delivered
<1>11. AgentOK'
  <2>1. device'[d] # "absent"
    BY <1>0, Zenon DEF Active
  <2>2. None \notin L
    BY <1>6, BridgeAssumption, Zenon
  <2>3. \A c \in Delivered' : command'[c].device = agent'.config
    BY <1>2, <1>7, <1>10, Zenon
  <2> QED BY ZenonT(30), <1>1, <1>7, <2>1, <2>2, <2>3 DEF AgentOK, Working
<1>12. PostingOK' /\ PollOK'
  BY <1>7, Zenon DEF PostingOK, PollOK
<1>13. DeliveredIsNew'
  <2>1. \A c \in L : ~Saved(c)
    BY <1>0, <1>2, LeasedIsNew, Zenon
  <2> QED BY <1>8, <1>10, <2>1, Zenon DEF DeliveredIsNew, Delivered
<1>14. Room'
  <2>1. Cardinality(Pending') = 0
    BY ZenonT(30), <1>1, <1>8, FS_EmptySet
  <2>2. IsFiniteSet(L) /\ Cardinality(L) \in Nat /\ agent'.batch \in SUBSET Commands
    BY <1>6, <1>10, CommandSets, Zenon
  <2>3. Cardinality(agent'.batch) <= Cardinality(L) /\ Cardinality(agent'.batch) \in Nat
    BY ZenonT(30), <1>10, <2>2, CommandSets, FS_Subset
  <2>4. Cardinality(Pending') + Cardinality(agent'.batch) + 0 <= Limit
    BY SMTT(20), <1>6, <2>1, <2>2, <2>3, LimitFacts
  <2> QED BY <1>7, <2>4, Zenon DEF Room
<1> QED BY ZenonT(30), <1>4, <1>7, <1>8, <1>9, <1>11, <1>12, <1>13, <1>14 DEF BridgeInv, RowsGoOn

\* The next command of a batch is new, and of the device the agent signs as.
LEMMA NextIsNew ==
  ASSUME BridgeInv, agent.pc = "batch", agent.batch # {}
  PROVE  /\ NextInBatch \in agent.batch /\ NextInBatch \in Commands /\ ~Saved(NextInBatch) /\ NextInBatch # None
         /\ command[NextInBatch].device = agent.config /\ agent.config # None /\ agent.identity = agent.config
         /\ agent.running = None /\ agent.rows = NoRows /\ agent.accepted = 0
<1>1. NextInBatch \in agent.batch /\ agent.batch \in SUBSET Commands
  BY NextIsInBatch, Zenon DEF BridgeInv, Agent
<1>2. NextInBatch \in Delivered
  BY <1>1, Zenon DEF Delivered
<1>3. ~Saved(NextInBatch)
  BY <1>2, Zenon DEF BridgeInv, DeliveredIsNew, Delivered
<1>4. agent.running = None /\ agent.rows = NoRows /\ agent.accepted = 0
  BY Zenon DEF BridgeInv, AgentOK
<1> QED BY ZenonT(30), <1>1, <1>2, <1>3, <1>4, DeliveredTyped, WorkingFacts, BridgeAssumption DEF Working

\* A command leaves the batch: the others stay new and of the same device.
LEMMA BatchShrinks ==
  ASSUME BridgeInv, NEW c \in agent.batch
  PROVE  /\ agent.batch \ {c} \in SUBSET Commands
         /\ Cardinality(agent.batch \ {c}) \in Nat /\ Cardinality(agent.batch \ {c}) + 1 = Cardinality(agent.batch)
<1>1. agent.batch \ {c} \in SUBSET Commands
  BY Zenon DEF BridgeInv, Agent
<1>2. Cardinality(agent.batch \ {c}) = Cardinality(agent.batch) - 1
  BY RoomFacts, FS_RemoveElement, Zenon
<1>3. Cardinality(agent.batch \ {c}) \in Nat
  BY <1>1, CommandSets, Zenon
<1> QED BY SMTT(20), <1>1, <1>2, <1>3, RoomFacts

LEMMA BeginOperationStep ==
  ASSUME BridgeInv, BeginOperation
  PROVE  BridgeInv'
<1> DEFINE c == NextInBatch
           b == agent.batch \ {c}
<1>0. /\ agent.pc = "batch" /\ agent.batch # {} /\ UNCHANGED <<results, crashes, losses>>
      /\ UNCHANGED <<enrollment, device, command, due, token, relay, late>>
      /\ agent' = [Ended(agent, "operation", c) EXCEPT !.batch = b]
  BY Zenon DEF BeginOperation, bridge, Ended
<1>1. /\ c \in agent.batch /\ c \in Commands /\ ~Saved(c) /\ c # None
      /\ command[c].device = agent.config /\ agent.config # None /\ agent.identity = agent.config
      /\ agent.running = None /\ agent.rows = NoRows /\ agent.accepted = 0
  BY <1>0, NextIsNew, Zenon
<1> HIDE DEF c
<1>2. b \in SUBSET Commands /\ Cardinality(b) \in Nat /\ Cardinality(b) + 1 = Cardinality(agent.batch)
  BY <1>1, BatchShrinks, Zenon
<1>3. c \notin b /\ b \in SUBSET agent.batch
  BY Zenon
<1> HIDE DEF b
<1>4. /\ agent' \in Agent /\ agent'.pc = "operation" /\ agent'.config = agent.config /\ agent'.identity = agent.identity
      /\ agent'.batch = b /\ agent'.running = c /\ agent'.rows = agent.rows /\ agent'.accepted = agent.accepted
  <2> DEFINE new == Ended(agent, "operation", c)
  <2>1. "operation" \in AgentPCs /\ agent \in Agent /\ c \in Commands \cup {None}
    BY <1>1 DEF AgentPCs, BridgeInv
  <2>2. /\ new \in Agent /\ new.pc = "operation" /\ new.config = agent.config /\ new.identity = agent.identity
        /\ new.running = c /\ new.rows = agent.rows /\ new.accepted = agent.accepted
    BY ZenonT(30), <2>1, AgentRan
  <2>3. agent' = [new EXCEPT !.batch = b]
    BY <1>0, Zenon
  <2> HIDE DEF new
  <2> QED BY ZenonT(30), <1>2, <2>2, <2>3, AgentNext
<1>5. RowsGoOn /\ RowsOK' /\ Pending' = Pending /\ \A x : Saved(x)' <=> Saved(x)
  BY <1>0, <1>4, SameRows, Zenon
<1>6. Delivered' \in SUBSET Delivered
  BY <1>1, <1>3, <1>4, Zenon DEF Delivered
<1>7. AgentOK'
  <2>1. agent.config # None => device[agent.config] # "absent"
    BY Zenon DEF BridgeInv, AgentOK
  <2>2. \A x \in Delivered' : command'[x].device = agent'.config
    BY <1>0, <1>4, <1>6, DeliveredTyped, Zenon
  <2> QED BY ZenonT(30), <1>0, <1>1, <1>3, <1>4, <2>1, <2>2 DEF AgentOK, Working
<1>8. PostingOK' /\ PollOK'
  BY <1>4, Zenon DEF PostingOK, PollOK
<1>9. DeliveredIsNew'
  BY <1>5, <1>6, Zenon DEF BridgeInv, DeliveredIsNew, Delivered
<1>10. Room'
  <2>1. Cardinality(Pending) + Cardinality(agent.batch) <= Limit /\ Cardinality(Pending) \in Nat
    BY <1>1, RoomFacts, Zenon
  <2>2. Cardinality(Pending) + Cardinality(b) + 1 <= Limit
    BY SMTT(20), <1>2, <2>1, LimitFacts
  <2> QED BY <1>1, <1>4, <1>5, <2>2, Zenon DEF Room
<1> QED BY ZenonT(30), <1>0, <1>4, <1>5, <1>7, <1>8, <1>9, <1>10, SameLate, SameCounts, AgentOnly

\* A delivered command's result goes to disk as a pending row.
LEMMA SavesRow ==
  ASSUME BridgeInv, NEW c \in Delivered, agent.identity = agent.config, agent'.identity = agent.identity,
         UNCHANGED command, NEW row, row \in [id: {c}, body: {crashes}, size: Sizes, pending: {TRUE}],
         results' = Append(results, row)
  PROVE  /\ RowsGoOn /\ RowsOK' /\ Cardinality(Pending') = Cardinality(Pending) + 1
         /\ \A x : Saved(x)' => Saved(x) \/ x = c
<1>1. c \in Commands /\ agent.config # None /\ command[c].device = agent.config
  BY DeliveredTyped, Zenon
<1>2. crashes \in Bodies
  BY Zenon DEF BridgeInv, CountType, Bodies
<1>3. row \in Rows /\ row.id = c /\ row.pending = TRUE
  BY <1>1, <1>2 DEF Rows
<1>5. Saves(row)
  BY <1>3, Zenon DEF BridgeInv, DeliveredIsNew, Delivered, Saves
<1>6. /\ ResultsType' /\ OneEach'
      /\ \A i \in DOMAIN results : i \in DOMAIN results' /\ results'[i] = results[i]
      /\ \A i \in DOMAIN results' : i \in DOMAIN results \/ results'[i] = row
      /\ \A x : Saved(x)' => Saved(x) \/ x = row.id
      /\ Cardinality(Pending') = Cardinality(Pending) + 1
  BY <1>5, ResultSaved, Zenon DEF BridgeInv
<1>7. RowsGoOn
  BY <1>6, Zenon DEF RowsGoOn
<1>8. RowsOK'
  <2> SUFFICES ASSUME NEW i \in DOMAIN results'
               PROVE  /\ agent.identity # None /\ command[results'[i].id].device = agent.identity
                      /\ ~results'[i].pending => command[results'[i].id].state = "done"
    BY Zenon DEF RowsOK
  <2>1. CASE i \in DOMAIN results
    <3>1. results'[i] = results[i]
      BY <2>1, <1>6, Zenon
    <3>2. /\ agent.identity # None /\ command[results[i].id].device = agent.identity
          /\ ~results[i].pending => command[results[i].id].state = "done"
      BY <2>1, Zenon DEF BridgeInv, RowsOK
    <3> QED BY <3>1, <3>2, Zenon
  <2>2. CASE results'[i] = row
    BY <2>2, <1>1, <1>3, Zenon
  <2> QED BY <1>6, <2>1, <2>2, Zenon
<1> QED BY <1>3, <1>6, <1>7, <1>8, Zenon

LEMMA RefuseStep ==
  ASSUME BridgeInv, Refuse
  PROVE  BridgeInv'
<1> DEFINE c == NextInBatch
           b == agent.batch \ {c}
<1>0. /\ agent.pc = "batch" /\ agent.batch # {} /\ UNCHANGED <<crashes, losses>>
      /\ UNCHANGED <<enrollment, device, command, due, token, relay, late>>
      /\ agent' = [agent EXCEPT !.batch = b]
  BY Zenon DEF Refuse, bridge
<1>1. /\ c \in agent.batch /\ c \in Commands /\ ~Saved(c) /\ c # None
      /\ command[c].device = agent.config /\ agent.config # None /\ agent.identity = agent.config
      /\ agent.running = None /\ agent.rows = NoRows /\ agent.accepted = 0
  BY <1>0, NextIsNew, Zenon
<1> DEFINE row == [id |-> c, body |-> crashes, size |-> "small", pending |-> TRUE]
<1>2. results' = Append(results, row)
  BY ZenonT(30), <1>1 DEF Refuse
<1>s. row \in [id: {c}, body: {crashes}, size: Sizes, pending: {TRUE}]
  BY Zenon DEF Sizes
<1> HIDE DEF c, row
<1>3. b \in SUBSET Commands /\ Cardinality(b) \in Nat /\ Cardinality(b) + 1 = Cardinality(agent.batch)
  BY <1>1, BatchShrinks, Zenon
<1>4. c \notin b /\ b \in SUBSET agent.batch
  BY Zenon
<1> HIDE DEF b
<1>5. /\ agent' \in Agent /\ agent'.pc = "batch" /\ agent'.config = agent.config /\ agent'.identity = agent.identity
      /\ agent'.batch = b /\ agent'.running = None /\ agent'.rows = NoRows /\ agent'.accepted = 0
  BY ZenonT(30), <1>0, <1>1, <1>3, AgentNext DEF BridgeInv
<1>6. c \in Delivered
  BY <1>1, Zenon DEF Delivered
<1>7. /\ RowsGoOn /\ RowsOK' /\ Cardinality(Pending') = Cardinality(Pending) + 1
      /\ \A x : Saved(x)' => Saved(x) \/ x = c
  BY ZenonT(30), <1>0, <1>1, <1>2, <1>s, <1>5, <1>6, SavesRow
<1>8. Delivered' \in SUBSET Delivered /\ c \notin Delivered'
  BY <1>4, <1>5, Zenon DEF Delivered
<1>9. AgentOK'
  <2>1. agent.config # None => device[agent.config] # "absent"
    BY Zenon DEF BridgeInv, AgentOK
  <2>2. \A x \in Delivered' : command'[x].device = agent'.config
    BY ZenonT(30), <1>0, <1>5, <1>8, DeliveredTyped
  <2>3. None \notin b
    BY <1>3, BridgeAssumption, Zenon
  <2> QED BY ZenonT(30), <1>0, <1>1, <1>5, <2>1, <2>2, <2>3 DEF AgentOK, Working
<1>10. PostingOK' /\ PollOK'
  BY <1>5, Zenon DEF PostingOK, PollOK
<1>11. DeliveredIsNew'
  BY <1>7, <1>8, Zenon DEF BridgeInv, DeliveredIsNew, Delivered
<1>12. Room'
  <2>1. Cardinality(Pending) + Cardinality(agent.batch) <= Limit /\ Cardinality(Pending) \in Nat
    BY <1>1, RoomFacts, Zenon
  <2>2. Cardinality(Pending') + Cardinality(b) + 0 <= Limit
    BY SMTT(20), <1>3, <1>7, <2>1, LimitFacts
  <2> QED BY ZenonT(30), <1>5, <2>2 DEF Room
<1> QED BY ZenonT(30), <1>0, <1>5, <1>7, <1>9, <1>10, <1>11, <1>12, SameLate, SameCounts, AgentOnly

LEMMA OperationEndsStep ==
  ASSUME BridgeInv, OperationEnds
  PROVE  BridgeInv'
<1> DEFINE c == agent.running
<1>0. /\ agent.pc = "operation" /\ UNCHANGED <<crashes, losses>>
      /\ UNCHANGED <<enrollment, device, command, due, token, relay, late>>
      /\ agent' = Ended(agent, "batch", None)
  BY Zenon DEF OperationEnds, bridge, Ended
<1>r. PICK size \in Sizes : results' = Append(results, [id |-> c, body |-> crashes, size |-> size, pending |-> TRUE])
  BY Zenon DEF OperationEnds
<1> DEFINE row == [id |-> c, body |-> crashes, size |-> size, pending |-> TRUE]
<1>s. row \in [id: {c}, body: {crashes}, size: Sizes, pending: {TRUE}] /\ results' = Append(results, row)
  BY <1>r, Zenon
<1> HIDE DEF row
<1>1. /\ c # None /\ c \notin agent.batch /\ agent.rows = NoRows /\ agent.accepted = 0
      /\ agent.config # None /\ agent.identity = agent.config
  BY <1>0, Zenon DEF BridgeInv, AgentOK, Working
<1>2. c \in Delivered
  BY <1>1, Zenon DEF Delivered
<1>3. "batch" \in AgentPCs /\ None \in Commands \cup {None} /\ agent \in Agent
  BY DEF AgentPCs, BridgeInv
<1>4. /\ agent' \in Agent /\ agent'.pc = "batch" /\ agent'.config = agent.config /\ agent'.identity = agent.identity
      /\ agent'.batch = agent.batch /\ agent'.running = None /\ agent'.rows = agent.rows /\ agent'.accepted = agent.accepted
  <2> DEFINE new == Ended(agent, "batch", None)
  <2>1. /\ new \in Agent /\ new.pc = "batch" /\ new.config = agent.config /\ new.identity = agent.identity
        /\ new.batch = agent.batch /\ new.running = None /\ new.rows = agent.rows /\ new.accepted = agent.accepted
    BY ZenonT(30), <1>3, AgentRan
  <2>2. agent' = new
    BY <1>0, Zenon
  <2> HIDE DEF new
  <2> QED BY <2>1, <2>2, Zenon
<1> HIDE DEF c
<1>5. /\ RowsGoOn /\ RowsOK' /\ Cardinality(Pending') = Cardinality(Pending) + 1
      /\ \A x : Saved(x)' => Saved(x) \/ x = c
  BY <1>0, <1>1, <1>s, <1>2, <1>4, SavesRow, Zenon
<1>6. Delivered' \in SUBSET Delivered /\ c \notin Delivered'
  BY <1>1, <1>4, Zenon DEF Delivered
<1>7. AgentOK'
  <2>1. agent.config # None => device[agent.config] # "absent"
    BY Zenon DEF BridgeInv, AgentOK
  <2>2. \A x \in Delivered' : command'[x].device = agent'.config
    BY <1>0, <1>4, <1>6, DeliveredTyped, Zenon
  <2>3. agent'.running \notin agent'.batch
    <3>1. agent.batch \in SUBSET Commands
      BY Zenon DEF BridgeInv, Agent
    <3> QED BY <1>4, <3>1, BridgeAssumption, Zenon
  <2> QED BY ZenonT(30), <1>0, <1>1, <1>4, <2>1, <2>2, <2>3 DEF AgentOK, Working
<1>8. PostingOK' /\ PollOK'
  BY <1>4, Zenon DEF PostingOK, PollOK
<1>9. DeliveredIsNew'
  BY <1>5, <1>6, Zenon DEF BridgeInv, DeliveredIsNew, Delivered
<1>10. Room'
  <2>1. /\ Cardinality(Pending) + Cardinality(agent.batch) + 1 <= Limit
        /\ Cardinality(Pending) \in Nat /\ Cardinality(agent.batch) \in Nat
    BY <1>1, RoomFacts, Zenon DEF c
  <2>2. Cardinality(Pending') + Cardinality(agent.batch) + 0 <= Limit
    BY SMTT(20), <1>5, <2>1, LimitFacts
  <2> QED BY <1>4, <2>2, Zenon DEF Room
<1> QED BY ZenonT(30), <1>0, <1>4, <1>5, <1>7, <1>8, <1>9, <1>10, SameLate, SameCounts, AgentOnly

(***************************************************************************)
(* Identities: start, wipe and registration.                               *)
(***************************************************************************)
LEMMA StartStep ==
  ASSUME BridgeInv, Start
  PROVE  BridgeInv'
<1>0. /\ agent.pc = "down" /\ agent.config # None /\ UNCHANGED <<crashes, losses>>
      /\ UNCHANGED <<enrollment, device, command, due, token, relay, late>>
      /\ agent' = Adopted(agent, "top", agent.config)
      /\ results' = IF agent.identity = agent.config THEN results ELSE <<>>
  BY Zenon DEF Start, bridge, Adopted
<1>1. "top" \in AgentPCs /\ agent.config \in Devices \cup {None} /\ agent \in Agent
  BY DEF AgentPCs, BridgeInv, Agent
<1>2. /\ agent' \in Agent /\ agent'.pc = "top" /\ agent'.config = agent.config /\ agent'.identity = agent.config
      /\ agent'.batch = agent.batch /\ agent'.running = agent.running /\ agent'.rows = agent.rows /\ agent'.accepted = agent.accepted
  <2> DEFINE new == Adopted(agent, "top", agent.config)
  <2>1. /\ new \in Agent /\ new.pc = "top" /\ new.config = agent.config /\ new.identity = agent.config
        /\ new.batch = agent.batch /\ new.running = agent.running /\ new.rows = agent.rows /\ new.accepted = agent.accepted
    BY ZenonT(30), <1>1, AgentIdentity
  <2>2. agent' = new
    BY <1>0, Zenon
  <2> HIDE DEF new
  <2> QED BY <2>1, <2>2, Zenon
<1>3. agent.batch = {} /\ agent.running = None /\ agent.rows = NoRows /\ agent.accepted = 0
  BY <1>0, AgentIdle, Zenon
<1>4. CASE agent.identity = agent.config
  <2>1. Resting
    BY ZenonT(30), <1>0, <1>2, <1>3, <1>4 DEF Resting
  <2>2. UNCHANGED results
    BY <1>0, <1>4, Zenon
  <2> QED BY <1>0, <2>1, <2>2, SameLate, SameCounts, Rests, Zenon
<1>5. CASE agent.identity # agent.config
  <2>1. results' = <<>>
    BY <1>0, <1>5, Zenon
  <2>2. /\ ResultsType' /\ OneEach' /\ DOMAIN results' = {} /\ \A c : ~Saved(c)'
        /\ Pending' = {} /\ Cardinality(Pending') = 0
    BY <2>1, ResultsCleared, Zenon
  <2>3. StoreInv' /\ CountType' /\ LateType'
    BY ZenonT(30), <1>0, SameCounts DEF BridgeInv, StoreInv, StoreType, Issued, RevokedIsQuiet, LateType
  <2>4. Delivered' = {}
    BY <1>2, <1>3, Zenon DEF Delivered
  <2>5. AgentOK'
    <3>1. device[agent.config] # "absent"
      BY <1>0, Zenon DEF BridgeInv, AgentOK
    <3> QED BY ZenonT(30), <1>0, <1>2, <1>3, <2>4, <3>1 DEF AgentOK, Working
  <2>6. RowsOK'
    BY <2>2, Zenon DEF RowsOK
  <2>7. PostingOK' /\ PollOK' /\ DeliveredIsNew'
    BY <1>2, <2>4, Zenon DEF PostingOK, PollOK, DeliveredIsNew, Delivered
  <2>8. Room'
    <3>1. Cardinality(agent'.batch) = 0
      BY <1>2, <1>3, FS_EmptySet, Zenon
    <3>2. Cardinality(Pending') + Cardinality(agent'.batch) + 0 <= Limit
      BY SMTT(20), <2>2, <3>1, LimitFacts
    <3> QED BY <1>2, <1>3, <3>2, Zenon DEF Room
  <2>9. \A c \in Commands : command[c].device = agent.config => command[c].state \notin {"leased", "done"}
    BY <1>0, <1>5, Zenon DEF BridgeInv, Unstarted
  <2>10. DoneIsSaved'
    BY ZenonT(30), <1>0, <1>2, <2>9 DEF DoneIsSaved
  <2>11. LateOK'
    BY ZenonT(30), <1>0, <1>2, <1>5 DEF BridgeInv, LateOK
  <2>12. Unstarted'
    BY <1>2, Zenon DEF Unstarted
  <2> QED BY ZenonT(30), <1>2, <2>2, <2>3, <2>5, <2>6, <2>7, <2>8, <2>10, <2>11, <2>12 DEF BridgeInv
<1> QED BY <1>4, <1>5, Zenon

LEMMA ClearResultsStep ==
  ASSUME BridgeInv, ClearResults
  PROVE  BridgeInv'
<1>0. /\ agent.pc = "wiping" /\ results' = <<>> /\ agent' = Stopped(agent) /\ UNCHANGED <<crashes, losses>>
      /\ UNCHANGED <<enrollment, device, command, due, token, relay, late>>
  BY Zenon DEF ClearResults, bridge
<1>1. agent.config = None
  BY <1>0, Zenon DEF BridgeInv, AgentOK
<1>2. /\ agent' \in Agent /\ agent'.pc = "down" /\ agent'.config = None
      /\ agent'.batch = {} /\ agent'.running = None /\ agent'.rows = NoRows /\ agent'.accepted = 0
  BY ZenonT(30), <1>0, <1>1, AgentStopped DEF BridgeInv
<1>3. /\ ResultsType' /\ OneEach' /\ DOMAIN results' = {} /\ \A c : ~Saved(c)'
      /\ Pending' = {} /\ Cardinality(Pending') = 0
  BY <1>0, ResultsCleared, Zenon
<1>4. StoreInv' /\ CountType' /\ LateType'
  BY ZenonT(30), <1>0, SameCounts DEF BridgeInv, StoreInv, StoreType, Issued, RevokedIsQuiet, LateType
<1>5. Delivered' = {}
  BY <1>2, Zenon DEF Delivered
<1>6. AgentOK' /\ RowsOK'
  BY <1>2, <1>3, <1>5, Zenon DEF AgentOK, Working, RowsOK
<1>7. PostingOK' /\ PollOK' /\ DeliveredIsNew'
  BY <1>2, <1>5, Zenon DEF PostingOK, PollOK, DeliveredIsNew, Delivered
<1>8. Room'
  <2>1. Cardinality(agent'.batch) = 0
    BY ZenonT(30), <1>2, FS_EmptySet
  <2>2. Cardinality(Pending') + Cardinality(agent'.batch) + 0 <= Limit
    BY <1>3, <2>1, LimitFacts
  <2> QED BY <1>2, <2>2, Zenon DEF Room
<1>9. DoneIsSaved'
  <2>1. \A c \in Commands : command[c].device = None => command[c].state = "none"
    BY Zenon DEF BridgeInv, StoreInv, Issued
  <2> QED BY <1>0, <1>2, <2>1, Zenon DEF DoneIsSaved
<1>10. LateOK'
  <2>1. \A r \in late : r.device \in Devices /\ r.device # None /\ device[r.device] # "absent"
    BY BridgeAssumption, Zenon DEF BridgeInv, LateType, LateOK
  <2> QED BY <1>0, <1>2, <2>1, Zenon DEF LateOK
<1>11. Unstarted'
  BY <1>2, Zenon DEF Unstarted
<1> QED BY ZenonT(30), <1>2, <1>3, <1>4, <1>6, <1>7, <1>8, <1>9, <1>10, <1>11 DEF BridgeInv

\* Registration makes a device nobody has seen: it has no command and no result.
LEMMA RegisterStore ==
  ASSUME BridgeInv, NEW d \in Devices, Register(d)
  PROVE  /\ StoreInv' /\ DevicesStay /\ device'[d] # "absent" /\ device[d] = "absent"
         /\ \A c \in Commands : command[c].device # d
<1>1. /\ enrollment[d] = "open" /\ enrollment' = [enrollment EXCEPT ![d] = "consumed"]
      /\ device' = [device EXCEPT ![d] = "active"] /\ UNCHANGED <<command, due, token, relay>>
  BY Zenon DEF Register
<1>2. /\ enrollment' \in [Devices -> {"none", "open", "consumed"}] /\ enrollment'[d] = "consumed"
      /\ \A e \in Devices : e # d => enrollment'[e] = enrollment[e]
      /\ device' \in [Devices -> {"absent", "active", "revoked"}] /\ device'[d] = "active"
      /\ \A e \in Devices : e # d => device'[e] = device[e]
  BY <1>1, Zenon DEF BridgeInv, StoreInv, StoreType
<1>3. StoreType'
  BY <1>1, <1>2, Zenon DEF BridgeInv, StoreInv, StoreType
<1>4. device[d] = "absent"
  BY <1>1, Zenon DEF BridgeInv, StoreInv, Issued
<1>5. DevicesStay
  BY <1>2, Zenon DEF DevicesStay
<1>6. \A c \in Commands : command[c].device \in Devices \cup {None}
  BY Zenon DEF BridgeInv, StoreInv, StoreType, Command
<1>7. Issued'
  <2>1. \A c \in Commands : command[c].device # None => device'[command[c].device] # "absent"
    BY ZenonT(30), <1>5, <1>6 DEF BridgeInv, StoreInv, Issued, DevicesStay
  <2>2. ASSUME NEW e \in Devices, enrollment'[e] # "consumed" PROVE device'[e] = "absent"
    <3>1. enrollment[e] # "consumed" /\ device'[e] = device[e]
      BY <1>2, <2>2, Zenon
    <3> QED BY <3>1, Zenon DEF BridgeInv, StoreInv, Issued
  <2> QED BY ZenonT(30), <1>1, <2>1, <2>2 DEF BridgeInv, StoreInv, Issued
<1>8. RevokedIsQuiet'
  <2>1. \A e \in Devices : device'[e] = "revoked" => device[e] = "revoked"
    BY <1>2, Zenon
  <2> QED BY <1>1, <2>1, Zenon DEF BridgeInv, StoreInv, RevokedIsQuiet
<1>9. \A c \in Commands : command[c].device # d
  <2>1. d # None
    BY BridgeAssumption, Zenon
  <2> QED BY <1>4, <2>1, Zenon DEF BridgeInv, StoreInv, Issued
<1> QED BY ZenonT(30), <1>2, <1>3, <1>4, <1>5, <1>7, <1>8, <1>9 DEF StoreInv

LEMMA RegisterStep ==
  ASSUME BridgeInv, NEW d \in Devices, Register(d)
  PROVE  BridgeInv'
<1>0. /\ agent.pc = "down" /\ agent.config = None /\ UNCHANGED <<command, due, token, relay, results, late, crashes>>
      /\ \/ agent' = Keyed(agent, d, TRUE) /\ UNCHANGED losses
         \/ Loses /\ UNCHANGED agent
  BY Zenon DEF Register, Keyed
<1>1. /\ StoreInv' /\ DevicesStay /\ device'[d] # "absent" /\ device[d] = "absent"
      /\ \A c \in Commands : command[c].device # d
  BY RegisterStore, Zenon
<1>2. CASE Loses /\ UNCHANGED agent
  <2>1. CommandsOnward /\ HandedOut
    BY <1>0, Unmoved, Zenon
  <2>3. RowsGoOn /\ RowsOK' /\ Pending' = Pending /\ PendingIds' = PendingIds /\ \A c : Saved(c)' <=> Saved(c)
    BY <1>0, <1>2, SameRows, Zenon
  <2>4. LateType' /\ DoneIsSaved' /\ LateOK' /\ Unstarted'
    BY ZenonT(30), <1>0, <1>1, <1>2, <2>1, <2>3, SameLate, OnDisk
  <2>5. CountType'
    BY <1>0, <1>2, LossCounted, Zenon
  <2>6. AgentOK'
    BY <1>0, <1>2, Zenon DEF BridgeInv, AgentOK, Working, Delivered
  <2>7. PostingOK' /\ PollOK' /\ Room' /\ DeliveredIsNew'
    BY ZenonT(30), <1>0, <1>2, <2>3 DEF BridgeInv, PostingOK, PollOK, Room, DeliveredIsNew
  <2> QED BY ZenonT(30), <1>1, <1>2, <2>3, <2>4, <2>5, <2>6, <2>7 DEF BridgeInv, RowsGoOn
<1>3. CASE agent' = Keyed(agent, d, TRUE) /\ UNCHANGED losses
  <2>1. /\ agent' \in Agent /\ agent'.pc = "down" /\ agent'.config = d /\ agent'.identity = agent.identity
        /\ agent'.batch = agent.batch /\ agent'.running = agent.running /\ agent'.rows = agent.rows /\ agent'.accepted = agent.accepted
    <3>1. d \in Devices \cup {None} /\ agent \in Agent
      BY Zenon DEF BridgeInv
    <3> QED BY ZenonT(30), <1>0, <1>3, <3>1, AgentKeyed
  <2>2. RowsGoOn /\ RowsOK' /\ Pending' = Pending /\ \A c : Saved(c)' <=> Saved(c)
    BY ZenonT(30), <1>0, <2>1, SameRows
  <2>3. agent.batch = {} /\ agent.running = None /\ agent.rows = NoRows /\ agent.accepted = 0
    BY <1>0, AgentIdle, Zenon
  <2>4. Delivered' = {}
    BY <2>1, <2>3, Zenon DEF Delivered
  <2>5. AgentOK'
    BY ZenonT(30), <1>1, <2>1, <2>3, <2>4 DEF AgentOK, Working
  <2>6. PostingOK' /\ PollOK' /\ DeliveredIsNew'
    BY <2>1, <2>4, Zenon DEF PostingOK, PollOK, DeliveredIsNew, Delivered
  <2>7. Room'
    <3>1. Cardinality(Pending) + Cardinality(agent.batch) + (IF agent.running = None THEN 0 ELSE 1) <= Limit
      BY Zenon DEF BridgeInv, Room
    <3> QED BY <2>1, <2>2, <3>1, Zenon DEF Room
  <2>8. LateType' /\ CountType'
    BY <1>0, <1>3, SameCounts, Zenon DEF BridgeInv, LateType
  <2>9. DoneIsSaved' /\ Unstarted'
    BY <1>0, <1>1, <2>1, Zenon DEF DoneIsSaved, Unstarted
  <2>10. LateOK'
    <3>1. \A r \in late : r.device \in Devices /\ r.device # d /\ device[r.device] # "absent"
      BY <1>1, Zenon DEF BridgeInv, LateType, LateOK
    <3> QED BY ZenonT(30), <1>0, <1>1, <2>1, <3>1 DEF LateOK, DevicesStay
  <2> QED BY ZenonT(30), <1>1, <2>1, <2>2, <2>5, <2>6, <2>7, <2>8, <2>9, <2>10 DEF BridgeInv, RowsGoOn
<1> QED BY <1>0, <1>2, <1>3, Zenon

(***************************************************************************)
(* The theorems.                                                           *)
(***************************************************************************)
LEMMA BridgeInit ==
  ASSUME Init
  PROVE  BridgeInv
<1>n. None \notin Devices /\ None \notin Commands
  BY BridgeAssumption, Zenon
<1> DEFINE fresh == [state |-> "none", device |-> None, result |-> None]
<1>1. fresh \in Command /\ fresh.state = "none" /\ fresh.device = None
  BY Zenon DEF Command
<1>2. command = [c \in Commands |-> fresh]
  BY Zenon DEF Init
<1> HIDE DEF fresh
<1>3. command \in [Commands -> Command] /\ \A c \in Commands : command[c].state = "none" /\ command[c].device = None
  BY <1>1, <1>2, Zenon
<1>4. /\ enrollment \in [Devices -> {"none", "open", "consumed"}]
      /\ device \in [Devices -> {"absent", "active", "revoked"}] /\ \A d \in Devices : device[d] = "absent"
      /\ due \in [Commands -> {"fresh", "lapsed", "over"}] /\ relay \subseteq Tokens
  BY Zenon DEF Init
<1>5. token \in [Tokens -> [state: {"none", "live", "revoked"}, device: Devices \cup {None}]]
  BY Zenon DEF Init
<1>6. StoreInv
  BY <1>3, <1>4, <1>5, Zenon DEF StoreInv, StoreType, Issued, RevokedIsQuiet
<1>7. /\ agent.pc = "down" /\ agent.config = None /\ agent.identity = None /\ agent.batch = {}
      /\ agent.running = None /\ agent.rows = NoRows /\ agent.accepted = 0
  BY Zenon DEF Init, Idle, NoRows
<1>8. agent \in Agent
  <2>1. NoRows \in Upload /\ 0 \in Counts /\ "down" \in AgentPCs /\ "poll" \in Thens
    BY LimitFacts DEF NoRows, Upload, AgentPCs, Thens
  <2> QED BY <2>1, Zenon DEF Init, Idle, Agent, NoRows
<1>9. results = <<>> /\ DOMAIN results = {} /\ ResultsType
  BY DEF Init, ResultsType
<1>10. Pending = {} /\ Cardinality(Pending) = 0
  BY <1>9, FS_EmptySet, Zenon DEF Pending
<1>11. OneEach /\ RowsOK
  BY <1>9, Zenon DEF OneEach, RowsOK
<1>12. LateType /\ LateOK
  BY Zenon DEF Init, LateType, LateOK
<1>13. CountType
  BY BridgeAssumption DEF Init, CountType
<1>14. Delivered = {}
  BY <1>7, Zenon DEF Delivered
<1>15. AgentOK
  BY <1>7, <1>14, Zenon DEF AgentOK, Working
<1>16. PostingOK /\ PollOK /\ DeliveredIsNew
  BY <1>7, <1>14, Zenon DEF PostingOK, PollOK, DeliveredIsNew, Delivered
<1>17. Room
  <2>1. Cardinality(agent.batch) = 0
    BY <1>7, FS_EmptySet, Zenon
  <2>2. Cardinality(Pending) + Cardinality(agent.batch) + 0 <= Limit
    BY SMTT(20), <1>10, <2>1, LimitFacts
  <2> QED BY <1>7, <2>2, Zenon DEF Room
<1>18. DoneIsSaved /\ Unstarted
  BY <1>3, <1>7, Zenon DEF DoneIsSaved, Unstarted
<1> QED BY ZenonT(30), <1>6, <1>8, <1>9, <1>11, <1>12, <1>13, <1>15, <1>16, <1>17, <1>18 DEF BridgeInv

LEMMA AgentStepStep ==
  ASSUME BridgeInv, AgentStep
  PROVE  BridgeInv'
BY ZenonT(30), StartStep, NoKeyStep, CycleStartsStep, FlushStep, ServerTakesRowStep, UploadRefusedStep, UploadAnsweredStep,
   PollStep, BatchDoneStep, RefuseStep, BeginOperationStep, OperationEndsStep, SeesRevokedStep, WipeConfigStep,
   ClearResultsStep DEF AgentStep

LEMMA BridgeStep ==
  ASSUME BridgeInv, Next
  PROVE  BridgeInv'
<1>1. CASE \E d \in Devices : CreateEnrollment(d) \/ EnrollmentLapses(d) \/ RevokeDevice(d) \/ Register(d)
  BY ZenonT(30), <1>1, CreateEnrollmentStep, EnrollmentLapsesStep, RevokeDeviceStep, RegisterStep
<1>2. CASE \E d \in Devices, c \in Commands : EnqueueCommand(d, c)
  BY <1>2, EnqueueCommandStep, Zenon
<1>3. CASE \E c \in Commands : LeaseLapses(c) \/ CommandExpires(c)
  BY <1>3, LeaseLapsesStep, CommandExpiresStep, Zenon
<1>4. CASE \E t \in Tokens : \/ \E d \in Devices : CreateToken(t, d)
                             \/ RevokeToken(t) \/ RelayResolves(t) \/ RelayRefuses(t)
                             \/ \E c \in Commands : RelayEnqueues(t, c)
  BY ZenonT(30), <1>4, CreateTokenStep, RevokeTokenStep, RelayResolvesStep, RelayRefusesStep, RelayEnqueuesStep
<1>5. CASE AgentStep
  BY <1>5, AgentStepStep, Zenon
<1>6. CASE UploadLost \/ RequestLost \/ Crash \/ Uninstall
  BY ZenonT(30), <1>6, UploadLostStep, RequestLostStep, CrashStep, UninstallStep
<1>7. CASE \E r \in late : ServerTakesLateRow(r)
  BY <1>7, LateRowStep, Zenon
<1> QED BY ZenonT(30), <1>1, <1>2, <1>3, <1>4, <1>5, <1>6, <1>7 DEF Next

LEMMA BridgeStutter ==
  ASSUME BridgeInv, UNCHANGED vars
  PROVE  BridgeInv'
<1>1. /\ UNCHANGED <<enrollment, device, command, due, token, relay, agent, results, late, crashes, losses>>
      /\ due' \in [Commands -> {"fresh", "lapsed", "over"}] /\ relay' \subseteq Tokens
  BY Zenon DEF vars, BridgeInv, StoreInv, StoreType
<1> QED BY <1>1, ClockStep, Zenon

\* The invariant is inductive.
THEOREM BridgeInvariant == Spec => []BridgeInv
<1>1. BridgeInv /\ [Next]_vars => BridgeInv'
  BY BridgeStep, BridgeStutter, Zenon
<1> QED BY BridgeInit, <1>1, PTL DEF Spec

\* Type correctness of the store, the agent and its table.
THEOREM TypeCorrect == Spec => []TypeOK
<1>1. ASSUME BridgeInv PROVE TypeOK
  <2>1. /\ agent.config \in Devices \cup {None} /\ agent.identity \in Devices \cup {None}
        /\ agent.key \in BOOLEAN /\ agent.pc \in AgentPCs /\ agent.then \in {"poll", "top"}
        /\ agent.batch \subseteq Commands /\ agent.running \in Commands \cup {None}
        /\ agent.accepted \in 0 .. Limit
        /\ agent.rows \in [sent: SUBSET Commands, todo: SUBSET Commands]
    BY <1>1, Zenon DEF BridgeInv, Agent, Upload, Counts, Thens
  <2>2. \A i \in DOMAIN results : results[i] \in Rows
    BY <1>1, RowTyped, Zenon DEF BridgeInv
  <2>3. StoreType /\ LateType /\ CountType
    BY <1>1, Zenon DEF BridgeInv, StoreInv
  <2> QED BY ZenonT(30), <2>1, <2>2, <2>3 DEF TypeOK, StoreType, Command, LateType, CountType
<1> QED BY BridgeInvariant, <1>1, PTL

\* Revocation is complete: a revoked device has no live command and no working token.
THEOREM RevocationQuiets == Spec => []RevokedIsQuiet
<1>1. BridgeInv => RevokedIsQuiet
  BY ZenonT(30) DEF BridgeInv, StoreInv
<1> QED BY BridgeInvariant, <1>1, PTL

\* A running agent only holds results of the device it signs as.
THEOREM ResultsOwned == Spec => []OwnResults
<1>1. BridgeInv => OwnResults
  BY ZenonT(30) DEF BridgeInv, OwnResults, AgentOK, RowsOK, Working
<1> QED BY BridgeInvariant, <1>1, PTL

\* A result the server recorded for the enrolled agent is the one on its disk.
THEOREM RecordedIsSaved == Spec => []DoneIsSaved
<1>1. BridgeInv => DoneIsSaved
  BY Zenon DEF BridgeInv
<1> QED BY BridgeInvariant, <1>1, PTL

\* No command whose result is on disk is delivered or run again.
THEOREM DeliveredOnce == Spec => []DeliveredIsNew
<1>1. BridgeInv => DeliveredIsNew
  BY Zenon DEF BridgeInv
<1> QED BY BridgeInvariant, <1>1, PTL

LEMMA StepsOnward ==
  ASSUME BridgeInv, [Next]_vars
  PROVE  CommandsOnward
<1>t. StoreType
  BY Zenon DEF BridgeInv, StoreInv
<1>1. CASE UNCHANGED command
  BY <1>1, Unmoved, Zenon
<1>2. ASSUME NEW d \in Devices, RevokeDevice(d) PROVE CommandsOnward
  BY <1>2, RevokeMoves, MovesOnward, Zenon
<1>3. ASSUME NEW d, NEW c \in Commands, Enqueue(d, c) PROVE CommandsOnward
  BY ZenonT(30), <1>t, <1>3, EnqueueMoves, MovesOnward
<1>4. ASSUME NEW d, NEW c, NEW body, Completes(d, c, body) PROVE CommandsOnward
  BY ZenonT(30), <1>t, <1>4, CompleteMoves, MovesOnward
<1>5. ASSUME NEW c \in Commands, ServerTakesRow(c) PROVE CommandsOnward
  <2>1. /\ agent.pc = "posting" /\ c \in agent.rows.todo /\ Active(agent.config)
        /\ command' = Complete(agent.config, c, BodyOf(c))
    BY <1>5, Zenon DEF ServerTakesRow
  <2>2. c \in PendingIds
    BY <2>1, Zenon DEF BridgeInv, PostingOK
  <2>3. BodyOf(c) \in Bodies
    BY <2>2, PendingIdsFew, BodyTyped, Zenon DEF BridgeInv
  <2>4. Completes(agent.config, c, BodyOf(c))
    BY <2>1, <2>3, Zenon DEF Completes
  <2> QED BY <1>4, <2>4, Zenon
<1>6. ASSUME NEW r \in late, ServerTakesLateRow(r) PROVE CommandsOnward
  <2>1. r.id \in Commands /\ r.body \in Bodies
    BY Zenon DEF BridgeInv, LateType
  <2>2. command' = IF Active(r.device) THEN Complete(r.device, r.id, r.body) ELSE command
    BY <1>6, Zenon DEF ServerTakesLateRow
  <2>3. UNCHANGED command \/ Completes(r.device, r.id, r.body)
    BY <2>1, <2>2, Zenon DEF Completes
  <2> QED BY <1>1, <1>4, <2>3, Zenon
<1>7. ASSUME Poll PROVE CommandsOnward
  BY ZenonT(30), <1>t, <1>7, LeaseMoves, MovesOnward DEF Poll
<1>8. ASSUME NEW d \in Devices, CreateEnrollment(d) \/ EnrollmentLapses(d) \/ Register(d) PROVE UNCHANGED command
  BY <1>8, Zenon DEF CreateEnrollment, EnrollmentLapses, Register
<1>9. ASSUME NEW c \in Commands, LeaseLapses(c) \/ CommandExpires(c) PROVE UNCHANGED command
  BY <1>9, Zenon DEF LeaseLapses, CommandExpires
<1>10. ASSUME NEW t \in Tokens,
              RevokeToken(t) \/ RelayResolves(t) \/ RelayRefuses(t) \/ \E d \in Devices : CreateToken(t, d)
       PROVE  UNCHANGED command
  BY <1>10, Zenon DEF CreateToken, RevokeToken, RelayResolves, RelayRefuses
<1>11. ASSUME Start \/ NoKey \/ CycleStarts \/ Flush \/ UploadRefused \/ UploadAnswered \/ BatchDone \/ Refuse \/ BeginOperation \/ OperationEnds
              \/ SeesRevoked \/ WipeConfig \/ ClearResults \/ RequestLost
       PROVE  UNCHANGED command
  <2>1. UNCHANGED bridge
    BY <1>11, Zenon DEF Start, NoKey, CycleStarts, Flush, UploadRefused, UploadAnswered, BatchDone, Refuse, BeginOperation,
       OperationEnds, SeesRevoked, WipeConfig, ClearResults, RequestLost
  <2> QED BY <2>1, Zenon DEF bridge
<1>12. ASSUME UploadLost \/ Crash \/ Uninstall PROVE UNCHANGED command
  BY <1>12, Zenon DEF UploadLost, Crash, Uninstall
<1>13. CASE UNCHANGED vars
  BY <1>1, <1>13, Zenon DEF vars
<1>14. CASE AgentStep
  BY ZenonT(30), <1>1, <1>5, <1>7, <1>11, <1>14 DEF AgentStep
<1>15. ASSUME NEW d \in Devices, NEW c \in Commands, EnqueueCommand(d, c) PROVE CommandsOnward
  BY <1>3, <1>15, Zenon DEF EnqueueCommand
<1>16. ASSUME NEW t \in Tokens, NEW c \in Commands, RelayEnqueues(t, c) PROVE CommandsOnward
  BY <1>3, <1>16, Zenon DEF RelayEnqueues
<1>17. CASE Next
  BY ZenonT(30), <1>1, <1>2, <1>6, <1>8, <1>9, <1>10, <1>11, <1>12, <1>14, <1>15, <1>16, <1>17 DEF Next
<1> QED BY <1>13, <1>17, Zenon

\* A done or expired command never changes again.
THEOREM ResultsFinal == Spec => ResultIsFinal
<1>1. ASSUME BridgeInv, [Next]_vars
      PROVE  [\A c \in Commands : command[c].state \in {"done", "expired"} => command'[c] = command[c]]_vars
  <2>1. CommandsOnward
    BY <1>1, StepsOnward, Zenon
  <2> QED BY <2>1, Zenon DEF CommandsOnward, CommandOnward
<1> QED BY BridgeInvariant, <1>1, PTL DEF Spec, ResultIsFinal
============================================================================
