---------------------------- MODULE DeviceBridge ----------------------------
(***************************************************************************)
(* The device bridge: the durable store behind it (server/device_store.py),*)
(* the agent and relay routes (server/routers/devices.py and               *)
(* device_relay.py), and the agent on the customer's machine               *)
(* (device-agent/leaf_agent/core.py).                                      *)
(*                                                                         *)
(* Every store operation is one transaction under the device's (or the     *)
(* tenant's) lock, so it is one action here.  The agent is a sequential    *)
(* process whose requests can be lost on the way out or on the way back,   *)
(* which may crash between any two steps, and whose result table survives. *)
(* Time is not a number: a command's lease lapses and a command expires as *)
(* steps of the environment, and a lease never outlives its command.       *)
(***************************************************************************)
EXTENDS Integers, Sequences, FiniteSets

CONSTANTS
  Devices,        \* 1..N: the n-th enrollment makes at most one device, n
  Commands,       \* 1..N, in the order in which they are issued
  Tokens,         \* relay tokens
  MaxDevices,     \* MAX_DEVICES
  MaxEnrollments, \* MAX_ENROLLMENTS
  MaxQueued,      \* MAX_QUEUED
  Limit,          \* commands per poll and rows per upload (8 in the code)
  MaxCrashes,     \* bound on agent crashes
  MaxLosses,      \* bound on lost requests and answers
  Faults,         \* subset of {"revoke", "uninstall"}
  None

ASSUME BridgeAssumption ==
  /\ Commands = 1 .. Cardinality(Commands) /\ IsFiniteSet(Commands)
  /\ Devices = 1 .. Cardinality(Devices) /\ IsFiniteSet(Devices)
  /\ None \notin Devices /\ None \notin Commands
  /\ MaxDevices \in Nat /\ MaxEnrollments \in Nat /\ MaxQueued \in Nat /\ MaxCrashes \in Nat /\ MaxLosses \in Nat
  /\ Limit \in Nat \ {0}

VARIABLES
  enrollment,  \* device_enrollments, by the device each would make
  device,      \* devices: absent, active or revoked
  command,     \* device_commands: state, device and result
  due,         \* a command's clock: fresh, lease lapsed, or past expires_at
  token,       \* device_relay_tokens
  relay,       \* the tokens whose relay request is resolved and not yet queued
  agent,       \* the agent process, its device.key, config.json and DB identity
  results,     \* results.sqlite3, in rowid order
  late,        \* results an abandoned upload still carries at the server
  crashes,     \* agent crashes so far
  losses       \* lost requests and answers so far

bridge == <<enrollment, device, command, due, token, relay, late>>
vars == <<enrollment, device, command, due, token, relay, agent, results, late, crashes, losses>>

Live == {"queued", "leased"}

\* A terminal result, told apart by the try that produced it (two tries of one
\* command differ in finished_at); only a crash makes a second try possible.
Bodies == 0 .. MaxCrashes

\* How much of the 1 MiB an upload may hold (MAX_BODY) a result takes: next to nothing,
\* so much that no second such result fits beside it, or more than all of it.
Sizes == {"small", "large", "oversize"}

Rows == [id: Commands, body: Bodies, size: Sizes, pending: BOOLEAN]

AgentPCs == {"down", "top", "flush", "posting", "poll", "batch", "operation", "unkeyed", "wiping"}

\* Type correctness.
TypeOK ==
  /\ enrollment \in [Devices -> {"none", "open", "consumed"}]
  /\ device \in [Devices -> {"absent", "active", "revoked"}]
  /\ command \in [Commands -> [state: {"none", "queued", "leased", "done", "expired"},
                               device: Devices \cup {None}, result: Bodies \cup {None}]]
  /\ due \in [Commands -> {"fresh", "lapsed", "over"}]
  /\ token \in [Tokens -> [state: {"none", "live", "revoked"}, device: Devices \cup {None}]]
  /\ relay \subseteq Tokens
  /\ agent.config \in Devices \cup {None} /\ agent.identity \in Devices \cup {None}
  /\ agent.key \in BOOLEAN
  /\ agent.pc \in AgentPCs /\ agent.then \in {"poll", "top"}
  /\ agent.batch \subseteq Commands /\ agent.running \in Commands \cup {None}
  /\ agent.accepted \in 0 .. Limit
  /\ agent.rows \in [sent: SUBSET Commands, todo: SUBSET Commands]
  /\ \A i \in DOMAIN results : results[i] \in Rows
  /\ late \subseteq [device: Devices, id: Commands, body: Bodies]
  /\ crashes \in 0 .. MaxCrashes /\ losses \in 0 .. MaxLosses

Idle == [config |-> None, identity |-> None, key |-> FALSE, pc |-> "down", then |-> "poll", batch |-> {},
         running |-> None, rows |-> [sent |-> {}, todo |-> {}], accepted |-> 0]

Init ==
  /\ enrollment = [d \in Devices |-> "none"]
  /\ device = [d \in Devices |-> "absent"]
  /\ command = [c \in Commands |-> [state |-> "none", device |-> None, result |-> None]]
  /\ due = [c \in Commands |-> "fresh"]
  /\ token = [t \in Tokens |-> [state |-> "none", device |-> None]]
  /\ relay = {}
  /\ agent = Idle /\ results = <<>> /\ late = {}
  /\ crashes = 0 /\ losses = 0

(***************************************************************************)
(* The store.                                                              *)
(***************************************************************************)
Active(d) == d \in Devices /\ device[d] = "active"

\* create_enrollment: at most MAX_ENROLLMENTS open ones.
CreateEnrollment(d) ==
  /\ enrollment[d] = "none" /\ \A e \in Devices : e < d => enrollment[e] # "none"
  /\ Cardinality({e \in Devices : enrollment[e] = "open"}) < MaxEnrollments
  /\ enrollment' = [enrollment EXCEPT ![d] = "open"]
  /\ UNCHANGED <<device, command, due, token, relay, agent, results, late, crashes, losses>>

\* The 600 seconds of an enrollment pass: its device is never made, its place is free.
EnrollmentLapses(d) ==
  /\ enrollment[d] = "open"
  /\ enrollment' = [enrollment EXCEPT ![d] = "none"]
  /\ UNCHANGED <<device, command, due, token, relay, agent, results, late, crashes, losses>>

\* The expiry pass of _expire over device d's live commands.
Expired(d) ==
  [c \in Commands |-> IF command[c].device = d /\ command[c].state \in Live /\ due[c] = "over"
                      THEN [command[c] EXCEPT !.state = "expired"] ELSE command[c]]

\* lease_until = NULL: a command that ends has no lease left to lapse.
LeaseEnds(after) ==
  [c \in Commands |-> IF due[c] = "lapsed" /\ after[c].state # "leased" THEN "fresh" ELSE due[c]]

\* Faulty: revocation that leaves the commands of the device alive.
RevokeKeepingCommands(d) ==
  /\ "revoke" \in Faults /\ device[d] # "absent"
  /\ device' = [device EXCEPT ![d] = "revoked"]
  /\ token' = [t \in Tokens |-> IF token[t].device = d THEN [token[t] EXCEPT !.state = "revoked"] ELSE token[t]]
  /\ UNCHANGED <<enrollment, command, due, relay, agent, results, late, crashes, losses>>

\* revoke_device: the device, its relay tokens and its live commands end together.
RevokeDevice(d) ==
  /\ "revoke" \in Faults /\ device[d] # "absent"
  /\ device' = [device EXCEPT ![d] = "revoked"]
  /\ token' = [t \in Tokens |-> IF token[t].device = d THEN [token[t] EXCEPT !.state = "revoked"] ELSE token[t]]
  /\ command' = [c \in Commands |-> IF command[c].device = d /\ command[c].state \in Live
                                    THEN [command[c] EXCEPT !.state = "expired"] ELSE command[c]]
  /\ due' = LeaseEnds(command')
  /\ UNCHANGED <<enrollment, relay, agent, results, late, crashes, losses>>

\* enqueue_command's effect for command c, the next one to be issued.
Enqueue(d, c) ==
  LET swept == Expired(d) IN
  /\ Active(d)
  /\ command[c].state = "none" /\ \A b \in Commands : b < c => command[b].state # "none"
  /\ Cardinality({b \in Commands : swept[b].device = d /\ swept[b].state = "queued"}) < MaxQueued
  /\ command' = [swept EXCEPT ![c] = [state |-> "queued", device |-> d, result |-> None]]

\* The owner's command route.
EnqueueCommand(d, c) ==
  /\ Enqueue(d, c)
  /\ UNCHANGED <<enrollment, device, due, token, relay, agent, results, late, crashes, losses>>

\* The rows lease_commands hands out: unexpired, queued or with a lapsed lease,
\* the oldest Limit of them.
Leasable(d) ==
  LET open == {c \in Commands : /\ command[c].device = d /\ due[c] # "over"
                                /\ \/ command[c].state = "queued"
                                   \/ command[c].state = "leased" /\ due[c] = "lapsed"}
  IN {c \in open : Cardinality({b \in open : b < c}) < Limit}

\* lease_commands' effect: the expiry pass, then a fresh lease on each row.
Lease(d) ==
  /\ command' = [c \in Commands |-> IF c \in Leasable(d) THEN [command[c] EXCEPT !.state = "leased"] ELSE Expired(d)[c]]
  /\ due' = [c \in Commands |-> IF c \in Leasable(d) THEN "fresh" ELSE due[c]]

\* complete_command's answer: the same result again, or a first result for a
\* leased, unexpired command.
Accepts(d, c, body) ==
  /\ command[c].device = d
  /\ \/ command[c].state = "done" /\ command[c].result = body
     \/ command[c].state = "leased" /\ due[c] # "over"

\* complete_command's effect: a done command is only compared; otherwise the
\* expiry pass runs and an accepted result makes the command done.
Complete(d, c, body) ==
  IF command[c].device # d \/ command[c].state = "done" THEN command
  ELSE IF Accepts(d, c, body) THEN [Expired(d) EXCEPT ![c].state = "done", ![c].result = body]
  ELSE Expired(d)

\* A lease's 30 seconds pass.
LeaseLapses(c) ==
  /\ command[c].state = "leased" /\ due[c] = "fresh"
  /\ due' = [due EXCEPT ![c] = "lapsed"]
  /\ UNCHANGED <<enrollment, device, command, token, relay, agent, results, late, crashes, losses>>

\* A command's time to live passes.
CommandExpires(c) ==
  /\ command[c].state \in Live /\ due[c] # "over"
  /\ due' = [due EXCEPT ![c] = "over"]
  /\ UNCHANGED <<enrollment, device, command, token, relay, agent, results, late, crashes, losses>>

(***************************************************************************)
(* Relay tokens and the relay route.                                       *)
(***************************************************************************)
\* create_relay_token.
CreateToken(t, d) ==
  /\ Active(d) /\ token[t].state = "none"
  /\ token' = [token EXCEPT ![t] = [state |-> "live", device |-> d]]
  /\ UNCHANGED <<enrollment, device, command, due, relay, agent, results, late, crashes, losses>>

\* revoke_relay_token.
RevokeToken(t) ==
  /\ "revoke" \in Faults /\ token[t].state = "live"
  /\ token' = [token EXCEPT ![t].state = "revoked"]
  /\ UNCHANGED <<enrollment, device, command, due, relay, agent, results, late, crashes, losses>>

\* resolve_relay_token: token and device are both read under the device lock.
RelayResolves(t) ==
  /\ t \notin relay /\ token[t].state = "live" /\ Active(token[t].device)
  /\ relay' = relay \cup {t}
  /\ UNCHANGED <<enrollment, device, command, due, token, agent, results, late, crashes, losses>>

\* The relay queues an http.proxy command; only the device is checked again.  Its
\* wait for the result only reads, so the request ends here.
RelayEnqueues(t, c) ==
  /\ t \in relay
  /\ Enqueue(token[t].device, c)
  /\ relay' = relay \ {t}
  /\ UNCHANGED <<enrollment, device, due, token, agent, results, late, crashes, losses>>

\* The relay refuses before queueing (bad path, rate, offline, revoked, full).
RelayRefuses(t) ==
  /\ t \in relay
  /\ relay' = relay \ {t}
  /\ UNCHANGED <<enrollment, device, command, due, token, agent, results, late, crashes, losses>>

(***************************************************************************)
(* The agent.                                                              *)
(***************************************************************************)
Saved(c) == \E i \in DOMAIN results : results[i].id = c
RowOf(c) == results[CHOOSE i \in DOMAIN results : results[i].id = c]
BodyOf(c) == RowOf(c).body

\* The first Limit pending rows, as flush_results selects them.
Pending == {i \in DOMAIN results : results[i].pending}
PendingRows == {results[i].id : i \in {j \in Pending : Cardinality({h \in Pending : h <= j}) <= Limit}}

SetPending(ids, value) ==
  [i \in DOMAIN results |-> IF results[i].id \in ids THEN [results[i] EXCEPT !.pending = value] ELSE results[i]]

\* raw_body answers 413 to an upload above MAX_BODY, before it looks at the device and
\* before a row of it is taken.
Fits(ids) ==
  /\ \A c \in ids : RowOf(c).size # "oversize"
  /\ \A b, c \in ids : RowOf(b).size = "large" /\ RowOf(c).size = "large" => b = c

NoRows == [sent |-> {}, todo |-> {}]
Top(a) == [a EXCEPT !.pc = "top", !.batch = {}, !.running = None, !.rows = NoRows, !.accepted = 0]
Stopped(a) == [Top(a) EXCEPT !.pc = "down", !.then = "poll"]

\* What an upload the agent no longer waits for still carries: nothing if it is refused.
Carried == {[device |-> agent.config, id |-> c, body |-> BodyOf(c)] :
              c \in {b \in agent.rows.todo : Fits(agent.rows.sent)}}

Loses == losses < MaxLosses /\ losses' = losses + 1

\* enroll: consume_enrollment makes the device in one transaction; config.json is
\* written only if the answer arrives, and each try signs with a new key.
Register(d) ==
  /\ agent.pc = "down" /\ agent.config = None
  /\ enrollment[d] = "open"
  /\ Cardinality({e \in Devices : device[e] = "active"}) < MaxDevices
  /\ enrollment' = [enrollment EXCEPT ![d] = "consumed"]
  /\ device' = [device EXCEPT ![d] = "active"]
  /\ \/ agent' = [agent EXCEPT !.config = d, !.key = TRUE] /\ UNCHANGED losses
     \/ Loses /\ UNCHANGED agent
  /\ UNCHANGED <<command, due, token, relay, results, late, crashes>>

\* Faulty: a start that keeps the previous identity's results.
StartKeepingResults ==
  /\ agent.pc = "down" /\ agent.config # None
  /\ agent' = [agent EXCEPT !.pc = "top", !.identity = agent.config]
  /\ UNCHANGED <<bridge, results, crashes, losses>>

\* Agent.__init__: results of another identity are dropped in one commit.
Start ==
  /\ agent.pc = "down" /\ agent.config # None
  /\ agent' = [agent EXCEPT !.pc = "top", !.identity = agent.config]
  /\ results' = IF agent.identity = agent.config THEN results ELSE <<>>
  /\ UNCHANGED <<bridge, crashes, losses>>

\* The first signed request of a process that finds config.json but no device.key:
\* FileNotFoundError, which run does not catch, ends the process.
NoKey ==
  /\ agent.pc = "top" /\ ~agent.key
  /\ agent' = Stopped(agent)
  /\ UNCHANGED <<bridge, results, crashes, losses>>

\* heartbeat at the top of a cycle: not due, or answered.
CycleStarts ==
  /\ agent.pc = "top" /\ agent.key
  /\ agent' = [agent EXCEPT !.pc = "flush", !.then = "poll"]
  /\ UNCHANGED <<bridge, results, crashes, losses>>

\* flush_results with nothing pending, or the upload goes out.
Flush ==
  /\ agent.pc = "flush"
  /\ agent' = IF PendingRows = {} THEN [agent EXCEPT !.pc = agent.then]
              ELSE [agent EXCEPT !.pc = "posting", !.rows = [sent |-> PendingRows, todo |-> PendingRows]]
  /\ UNCHANGED <<bridge, results, crashes, losses>>

\* The results route completes one row of the upload (rows are independent).
ServerTakesRow(c) ==
  /\ agent.pc = "posting" /\ c \in agent.rows.todo /\ Active(agent.config) /\ Fits(agent.rows.sent)
  /\ command' = Complete(agent.config, c, BodyOf(c))
  /\ due' = LeaseEnds(command')
  /\ agent' = [agent EXCEPT !.rows.todo = @ \ {c},
                            !.accepted = IF Accepts(agent.config, c, BodyOf(c)) THEN @ + 1 ELSE @]
  /\ UNCHANGED <<enrollment, device, token, relay, results, late, crashes, losses>>

\* The whole upload is refused as too large: ClientError ends the cycle before its poll,
\* and every row stays pending.
UploadRefused ==
  /\ agent.pc = "posting" /\ ~Fits(agent.rows.sent)
  /\ agent' = Top(agent)
  /\ UNCHANGED <<bridge, results, crashes, losses>>

\* Faulty: the acknowledgement never compares equal.
UploadNeverAcknowledged ==
  /\ agent.pc = "posting" /\ agent.rows.todo = {}
  /\ agent' = Top(agent)
  /\ UNCHANGED <<bridge, results, crashes, losses>>

\* The acknowledgement: only accepted = sent clears the rows; any other count
\* raises ClientError, which ends the cycle before its poll.
UploadAnswered ==
  /\ agent.pc = "posting" /\ agent.rows.todo = {}
  /\ IF agent.accepted = Cardinality(agent.rows.sent)
     THEN /\ results' = SetPending(agent.rows.sent, FALSE)
          /\ agent' = [agent EXCEPT !.pc = agent.then, !.rows = NoRows, !.accepted = 0]
     ELSE agent' = Top(agent) /\ UNCHANGED results
  /\ UNCHANGED <<bridge, crashes, losses>>

\* Faulty: the cycle goes on to its poll without the acknowledgement.
UploadLostPollsOn ==
  /\ Loses /\ agent.pc = "posting"
  /\ \/ late' = late \cup Carried
     \/ agent.rows.todo = agent.rows.sent /\ UNCHANGED late
  /\ agent' = [agent EXCEPT !.pc = agent.then, !.rows = NoRows, !.accepted = 0]
  /\ UNCHANGED <<enrollment, device, command, due, token, relay, results, crashes>>

\* The upload or its answer is lost: ClientError.  The server may never have
\* seen it, or may go on with the rest of it.
UploadLost ==
  /\ Loses /\ agent.pc = "posting"
  /\ \/ late' = late \cup Carried
     \/ agent.rows.todo = agent.rows.sent /\ UNCHANGED late
  /\ agent' = Top(agent)
  /\ UNCHANGED <<enrollment, device, command, due, token, relay, results, crashes>>

\* The server comes to a row of an upload nobody waits for.
ServerTakesLateRow(r) ==
  /\ r \in late
  /\ late' = late \ {r}
  /\ command' = IF Active(r.device) THEN Complete(r.device, r.id, r.body) ELSE command
  /\ due' = LeaseEnds(command')
  /\ UNCHANGED <<enrollment, device, token, relay, agent, results, crashes, losses>>

\* poll: the route leases and answers; the answer may be lost.
Poll ==
  /\ agent.pc = "poll" /\ Active(agent.config)
  /\ Lease(agent.config)
  /\ \/ agent' = [agent EXCEPT !.pc = "batch", !.batch = Leasable(agent.config)] /\ UNCHANGED losses
     \/ Loses /\ agent' = Top(agent)
  /\ UNCHANGED <<enrollment, device, token, relay, results, late, crashes>>

\* A heartbeat or a poll never reaches the server: ClientError ends the cycle,
\* and the rest of a batch with it.
RequestLost ==
  /\ Loses /\ agent.pc \in {"top", "poll", "batch"} /\ agent.key
  /\ agent.pc = "batch" => agent.batch # {}
  /\ agent' = Top(agent)
  /\ UNCHANGED <<bridge, results, crashes>>

NextInBatch == CHOOSE c \in agent.batch : \A b \in agent.batch : c <= b

\* The batch is done: the second flush, then the next cycle.
BatchDone ==
  /\ agent.pc = "batch" /\ agent.batch = {}
  /\ agent' = [agent EXCEPT !.pc = "flush", !.then = "top"]
  /\ UNCHANGED <<bridge, results, crashes, losses>>

\* execute without running: a saved result is queued again; the agent is paused, the
\* arguments are invalid, or the command has expired by now.
Refuse ==
  /\ agent.pc = "batch" /\ agent.batch # {}
  /\ results' = IF Saved(NextInBatch) THEN SetPending({NextInBatch}, TRUE)
                ELSE Append(results, [id |-> NextInBatch, body |-> crashes, size |-> "small", pending |-> TRUE])
  /\ agent' = [agent EXCEPT !.batch = @ \ {NextInBatch}]
  /\ UNCHANGED <<bridge, crashes, losses>>

\* execute starts the operation in a child process.
BeginOperation ==
  /\ agent.pc = "batch" /\ agent.batch # {} /\ ~Saved(NextInBatch) /\ due[NextInBatch] # "over"
  /\ agent' = [agent EXCEPT !.pc = "operation", !.running = NextInBatch, !.batch = @ \ {NextInBatch}]
  /\ UNCHANGED <<bridge, results, crashes, losses>>

\* The operation ends or is terminated at its deadline, and its result is
\* committed; a lost heartbeat during it is swallowed by operation_tick.
OperationEnds ==
  /\ agent.pc = "operation"
  /\ \E size \in Sizes :
       results' = Append(results, [id |-> agent.running, body |-> crashes, size |-> size, pending |-> TRUE])
  /\ agent' = [agent EXCEPT !.pc = "batch", !.running = None]
  /\ UNCHANGED <<bridge, crashes, losses>>

\* A signed request of a revoked device is answered 401 (a refused upload is not).
AnsweredRevoked ==
  /\ agent.pc \in {"top", "posting", "poll", "batch", "operation"} /\ agent.key /\ ~Active(agent.config)
  /\ agent.pc = "posting" => agent.rows.todo # {} /\ Fits(agent.rows.sent)
  /\ agent.pc = "batch" => agent.batch # {}

\* Faulty: the identity stays on disk.
SeesRevokedOnly ==
  /\ AnsweredRevoked
  /\ agent' = Top(agent)
  /\ UNCHANGED <<bridge, results, crashes, losses>>

\* Revoked ends the run: wipe_identity removes device.key first.
SeesRevoked ==
  /\ AnsweredRevoked
  /\ agent' = [Top(agent) EXCEPT !.pc = "unkeyed", !.key = FALSE]
  /\ UNCHANGED <<bridge, results, crashes, losses>>

\* wipe_identity then removes config.json.
WipeConfig ==
  /\ agent.pc = "unkeyed"
  /\ agent' = [agent EXCEPT !.pc = "wiping", !.config = None]
  /\ UNCHANGED <<bridge, results, crashes, losses>>

\* Then the pending results are deleted and the agent exits with code 3.
ClearResults ==
  /\ agent.pc = "wiping"
  /\ results' = <<>>
  /\ agent' = Stopped(agent)
  /\ UNCHANGED <<bridge, crashes, losses>>

\* The agent process dies; what it has on disk survives.
Crash ==
  /\ crashes < MaxCrashes /\ agent.pc # "down"
  /\ crashes' = crashes + 1
  /\ agent' = Stopped(agent)
  /\ late' = IF agent.pc = "posting" THEN late \cup Carried ELSE late
  /\ UNCHANGED <<enrollment, device, command, due, token, relay, results, losses>>

\* uninstall: the service is unloaded and the identity deleted; the results stay.
Uninstall ==
  /\ "uninstall" \in Faults /\ agent.config # None
  /\ agent' = [Stopped(agent) EXCEPT !.config = None, !.key = FALSE]
  /\ late' = IF agent.pc = "posting" THEN late \cup Carried ELSE late
  /\ UNCHANGED <<enrollment, device, command, due, token, relay, results, crashes, losses>>

AgentStep ==
  \/ Start \/ NoKey \/ CycleStarts
  \/ Flush \/ (\E c \in Commands : ServerTakesRow(c)) \/ UploadRefused \/ UploadAnswered
  \/ Poll \/ BatchDone \/ Refuse \/ BeginOperation \/ OperationEnds
  \/ SeesRevoked \/ WipeConfig \/ ClearResults

Next ==
  \/ \E d \in Devices : CreateEnrollment(d) \/ EnrollmentLapses(d) \/ RevokeDevice(d) \/ Register(d)
  \/ \E d \in Devices, c \in Commands : EnqueueCommand(d, c)
  \/ \E c \in Commands : LeaseLapses(c) \/ CommandExpires(c)
  \/ \E t \in Tokens : \/ \E d \in Devices : CreateToken(t, d)
                       \/ RevokeToken(t) \/ RelayResolves(t) \/ RelayRefuses(t)
                       \/ \E c \in Commands : RelayEnqueues(t, c)
  \/ AgentStep \/ UploadLost \/ RequestLost \/ Crash \/ Uninstall
  \/ \E r \in late : ServerTakesLateRow(r)

Spec == Init /\ [][Next]_vars

\* The service manager restarts the agent, the agent keeps taking steps, and only
\* finitely many of its requests are lost.  A heartbeat falls due every 30 seconds
\* whatever its cycles run into, so it cannot for ever miss that it is revoked.
FairSpec == Spec /\ WF_vars(AgentStep) /\ SF_vars(SeesRevoked)

(***************************************************************************)
(* Properties.                                                             *)
(***************************************************************************)
\* Revocation is complete: no command of a revoked device is live and no relay
\* token of it works, whatever enqueue, lease, result or token request raced it.
RevokedIsQuiet ==
  \A d \in Devices : device[d] = "revoked" =>
    /\ \A c \in Commands : command[c].device = d => command[c].state \notin Live
    /\ \A t \in Tokens : token[t].device = d => token[t].state = "revoked"

\* A running agent only holds results of the device it signs as, across revocation,
\* uninstall, re-enrollment and a crash between removing the identity and the rows.
OwnResults ==
  agent.pc \notin {"down", "wiping"} => \A i \in DOMAIN results : command[results[i].id].device = agent.config

\* The result the server recorded is the one the enrolled agent has on disk, so a
\* retry of an upload can never conflict with it.
DoneIsSaved ==
  \A c \in Commands : command[c].state = "done" /\ command[c].device = agent.config =>
    Saved(c) /\ BodyOf(c) = command[c].result

\* No command reaches the agent a second time once its result is on disk: a cycle polls
\* only after every saved result was acknowledged, however many leases lapse, answers get
\* lost and crashes happen.  So an operation that left a result is never started again.
DeliveredIsNew == \A c \in agent.batch \cup ({agent.running} \ {None}) : ~Saved(c)

\* A done or expired command never changes again.
ResultIsFinal ==
  [][\A c \in Commands : command[c].state \in {"done", "expired"} => command'[c] = command[c]]_vars

\* The next upload cannot be acknowledged: a row of it belongs to a command that ended
\* another way, or its rows together are too large.
Blocked ==
  \/ ~Fits(PendingRows)
  \/ \E c \in PendingRows : ~Accepts(agent.config, c, BodyOf(c))

\* An enrolled agent polls again and again, or there is a moment from which the first rows
\* of its table can never be acknowledged; no lost answer, late row, lapsed lease or crash
\* stops its polls in another way, and no row blocks it only for a time.
PollsUnlessBlocked == []<>(agent.pc \in {"poll", "down"}) \/ <>[]Blocked

\* An enrolled agent keeps polling ("Polls and heartbeats continue", the agent's README).
PollsContinue == []<>(agent.pc \in {"poll", "down"})

\* A revoked device's agent loses the power to sign as that device, whatever rows it is
\* stuck on and wherever it crashes while it removes the identity.
RevokedIsWiped == \A d \in Devices : []<>(device[d] = "revoked" => agent.config # d \/ ~agent.key)

\* It also forgets which device it was ("Revocation from any signed endpoint removes the
\* seed and config", the agent's README).
RevokedIsForgotten == \A d \in Devices : device[d] = "revoked" ~> agent.config # d
=============================================================================
