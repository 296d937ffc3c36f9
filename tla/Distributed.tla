---------------------------- MODULE Distributed ----------------------------
(***************************************************************************)
(* tailgov_d: a driver that runs one coordinator process and, when that    *)
(* has exited, a second one; workers that report over a connection each,   *)
(* and that connect again for as long as nobody shuts them down.           *)
(*                                                                         *)
(* The governor inside the coordinator is Evidence.  The two coordinators  *)
(* are one program of blocking calls, and at is the call it is at; a       *)
(* connection is named by its worker, which has one at a time.  What TCP   *)
(* does: a closed connection delivers what was sent on it before, and a    *)
(* worker may connect as soon as the coordinator listens, before it        *)
(* accepts.  Scenarios C and E, which use governors of their own, and the  *)
(* file between save and load are left to Interventions, Selection and     *)
(* Persistence.                                                            *)
(***************************************************************************)
EXTENDS Naturals, Sequences, FiniteSets

CONSTANTS
  ObjectiveIds, Policies, Workers, Boots, Events, MaxEpoch, MaxNow,
  ReportSize,   \* completions in a report: 200
  Policy,       \* the policy of make_gov
  Pid           \* the process identity of the second worker A

(* run_worker drops the connection on a report of more than 100000. *)
ASSUME ReportAssumption == ReportSize \in 1..100000

VARIABLES
  epoch, pol, worker_boots, now, shutting_down, windows, seen,
  revalidate_needed, last_state, recover_streak,
  at,         \* the call of Program the driver is at
  left,       \* the completions req_report has yet to receive
  ok,         \* no check of the current scenario has failed
  passed,     \* the scenarios recorded as passed
  sock,       \* the coordinator's sockets: the worker each leads to, or Nobody
  listening,
  backlog,    \* connections to be accepted
  worker,     \* the worker processes
  conn,       \* "none", "open" or "closed" by the coordinator
  inbox,      \* messages on their way to each worker
  replies     \* messages on their way to the coordinator from each worker

E == INSTANCE Evidence

governor == <<epoch, pol, worker_boots, now, shutting_down, windows, seen,
              revalidate_needed, last_state, recover_streak>>
network == <<listening, backlog, conn>>
vars == <<governor, at, left, ok, passed, sock, worker, network, inbox, replies>>

(* The processes that are ever spawned, by name and boot. *)
A1 == [name |-> "A", boot |-> 1]
B1 == [name |-> "B", boot |-> 1]
A2 == [name |-> "A", boot |-> 2]
Processes == {A1, B1, A2}
Nobody == [name |-> "", boot |-> 0]

WorkerId(p) == IF p.name = "A" THEN 100 ELSE 200

(* The n-th completion of a worker. *)
Completion(p, n, e, latency) ==
  [request |-> WorkerId(p) * 1000000 + n,
   class |-> 0, worker |-> p.name, boot |-> p.boot, epoch |-> e,
   authoritative |-> TRUE, latency |-> latency, phase_sum |-> latency,
   captured |-> 0]

(* mk_stale: a completion of epoch 1 that no worker has sent; freshA. *)
Stale(p) == [Completion(p, 0, 1, 0) EXCEPT !.request = 111000 + WorkerId(p)]
Fresh == [Stale(A2) EXCEPT !.request = 999999 + Pid]

Acceptable(ev) == E!Admissible(ev) /\ ev.request \notin seen

-----------------------------------------------------------------------------
(* The program: calls that may block, with the socket they use, if any,    *)
(* and an argument.                                                        *)
Call(op, k, arg) == <<[op |-> op, sock |-> k, arg |-> arg]>>
Do(op, k) == Call(op, k, 0)
Check(op, arg) == Call(op, "-", arg)

(* req_report *)
Report(k, latency) == Call("report", k, latency) \o Do("latency", k)

(* send_intervention *)
Intervene(k) == Do("intervene", k) \o Do("ack", k)

(* run_coordinator, up to the point where it knows who has connected. *)
First ==
  Check("spawn", A1) \o Check("spawn", B1) \o Do("accept", "a")
    \o Do("accept", "b") \o Do("hello", "a") \o Do("hello", "b")
    \o Check("scenarios", 0)

Good == E!TailStates \ {"VIOLATING", "SEVERE"}

ScenarioA ==
  Check("record", "HELLO") \o Report("a", 2) \o Report("b", 13)
    \o Check("evaluate", {"VIOLATING"}) \o Intervene("b") \o Report("b", 2)
    \o Check("evaluate", Good) \o Check("record", "A")

ScenarioB ==
  Do("kill", "a") \o Check("refused", Stale(A1)) \o Check("accepted", Stale(A2))
    \o Check("record", "B")

(* The rest of run_coordinator: worker A again with another boot, save and *)
(* exit.                                                                   *)
Rest ==
  Check("spawn", A2) \o Do("accept", "a2") \o Do("hello", "a2")
    \o Check("accepted", Fresh) \o Check("record", "FRESH") \o Check("exit", 0)

(* run_coordinator_resume, up to the point where it knows who came back. *)
Second ==
  Check("load", 0) \o Do("accept", "a") \o Do("hello", "a") \o Do("accept", "b")
    \o Do("hello", "b") \o Check("assign", 0)

(* The rest of it; a call on a socket that leads to nobody is skipped. *)
Resumed ==
  Check("evaluate", {"REVALIDATION_REQUIRED"}) \o Check("refused", Stale(B1))
    \o Do("set_epoch", "a") \o Do("set_epoch", "b")
    \o Report("a", 4) \o Report("b", 4)
    \o Check("evaluate", E!TailStates \ {"REVALIDATION_REQUIRED"})
    \o Check("record", "D") \o Do("shutdown", "a") \o Do("shutdown", "b")
    \o Check("exit", 0)

Program == First \o ScenarioA \o ScenarioB \o Rest \o Second \o Resumed

AtScenarioB == Len(First \o ScenarioA) + 1
AtRest == Len(First \o ScenarioA \o ScenarioB) + 1
Restart == Len(First \o ScenarioA \o ScenarioB \o Rest) + 1
Done == Len(Program) + 1

-----------------------------------------------------------------------------
Init ==
  /\ epoch = 1 /\ pol = Policy /\ now = 0 /\ shutting_down = FALSE
  /\ worker_boots = [w \in Workers |-> 1]
  /\ windows = [k \in {} |-> 0] /\ seen = {}
  /\ revalidate_needed = [o \in ObjectiveIds |-> FALSE]
  /\ last_state = [o \in ObjectiveIds |-> "HEALTHY"]
  /\ recover_streak = [o \in ObjectiveIds |-> 0]
  /\ at = 1 /\ left = 0 /\ ok = TRUE /\ passed = {}
  /\ sock = [k \in {"a", "b", "a2"} |-> Nobody]
  /\ listening = TRUE /\ backlog = <<>>
  /\ worker = [p \in Processes |-> [pc |-> "unborn", epoch |-> 1, counter |-> 0,
                                    owed |-> 0, latency |-> 0]]
  /\ conn = [p \in Processes |-> "none"]
  /\ inbox = [p \in Processes |-> <<>>]
  /\ replies = [p \in Processes |-> <<>>]

(* The coordinator is at a call op; its argument; who the call is with. *)
At(op) == at # Done /\ Program[at].op = op
Arg == Program[at].arg
Socket == Program[at].sock
Peer == sock[Socket]

Go == at' = at + 1 /\ UNCHANGED <<left, ok>>

(* A check of a scenario.  scenario_a and scenario_b return at the first   *)
(* that fails; the resumed coordinator goes on to the end.                 *)
Proceed(good) ==
  /\ ok' = (ok /\ good)
  /\ IF good \/ at >= Restart THEN at' = at + 1
     ELSE \E r \in at..Len(Program) :
            /\ Program[r].op = "record"
            /\ \A i \in at..r-1 : Program[i].op # "record"
            /\ at' = r
  /\ UNCHANGED left

-----------------------------------------------------------------------------
(* The coordinator's calls. *)
Spawn ==
  /\ At("spawn") /\ Go
  /\ worker' = [worker EXCEPT ![Arg].pc = "connecting"]
  /\ UNCHANGED <<governor, passed, sock, network, inbox, replies>>

Accept ==
  /\ At("accept") /\ Go
  /\ backlog # <<>>
  /\ sock' = [sock EXCEPT ![Socket] = Head(backlog)]
  /\ backlog' = Tail(backlog)
  /\ UNCHANGED <<governor, passed, worker, listening, conn, inbox, replies>>

(* The next message of the connection is of this type; RepliesMatch says   *)
(* that it never is of another.                                            *)
Receive(type) ==
  /\ Peer # Nobody
  /\ replies[Peer] # <<>>
  /\ Head(replies[Peer]).type = type
  /\ replies' = [replies EXCEPT ![Peer] = Tail(@)]

(* read_hello.  The new worker A is registered with its new boot. *)
Hello ==
  /\ At("hello") /\ Go
  /\ Receive("HELLO")
  /\ IF Socket = "a2" THEN E!RegisterWorker("A", 2) ELSE UNCHANGED governor
  /\ UNCHANGED <<passed, sock, worker, network, inbox>>

(* Workers are told apart by the order in which they were accepted: a name *)
(* that does not fit skips the scenarios which need it.                    *)
Scenarios ==
  /\ At("scenarios")
  /\ at' = IF sock["a"].name # "A" THEN AtRest
           ELSE IF sock["b"].name # "B" THEN AtScenarioB
           ELSE at + 1
  /\ UNCHANGED <<governor, left, ok, passed, sock, worker, network, inbox, replies>>

Send(type, value) ==
  /\ Peer # Nobody
  /\ inbox' = [inbox EXCEPT ![Peer] = Append(@, [type |-> type, value |-> value])]

Tell ==
  /\ \/ At("report") /\ Send("REPORT", Arg) /\ left' = ReportSize
     \/ At("intervene") /\ Send("INTERVENTION", 0) /\ UNCHANGED left
     \/ At("set_epoch") /\ Send("SET_EPOCH", epoch) /\ UNCHANGED left
     \/ At("shutdown") /\ Send("SHUTDOWN", 0) /\ UNCHANGED left
  /\ at' = at + 1
  /\ UNCHANGED <<governor, ok, passed, sock, worker, network, replies>>

(* What the resumed coordinator does with a worker that is not there. *)
Skip ==
  /\ \E op \in {"report", "latency", "set_epoch", "shutdown"} : At(op)
  /\ Peer = Nobody
  /\ Go
  /\ UNCHANGED <<governor, passed, sock, worker, network, inbox, replies>>

(* A completion counts as received whether or not it is accepted. *)
Latency ==
  /\ At("latency")
  /\ Receive("LATENCY")
  /\ left' = left - 1
  /\ at' = IF left = 1 THEN at + 1 ELSE at
  /\ LET ev == Head(replies[Peer]).event
     IN IF Acceptable(ev) THEN E!Ingest(ev) ELSE UNCHANGED governor
  /\ UNCHANGED <<ok, passed, sock, worker, network, inbox>>

(* Mutated form: the acknowledgement is not waited for. *)
Ack_NoWait ==
  /\ At("ack") /\ Go
  /\ UNCHANGED <<governor, passed, sock, worker, network, inbox, replies>>

Ack ==
  /\ At("ack") /\ Go
  /\ Receive("INTERVENTION_ACK")
  /\ UNCHANGED <<governor, passed, sock, worker, network, inbox>>

Evaluate ==
  /\ At("evaluate")
  /\ \E o \in ObjectiveIds : E!Evaluate(o) /\ Proceed(last_state'[o] \in Arg)
  /\ UNCHANGED <<passed, sock, worker, network, inbox, replies>>

(* TerminateProcess, and the connection is closed; worker A is registered  *)
(* with the boot it will come back with.                                   *)
Kill ==
  /\ At("kill") /\ Go
  /\ worker' = [worker EXCEPT ![A1].pc = "killed"]
  /\ conn' = [conn EXCEPT ![Peer] = "closed"]
  /\ E!RegisterWorker("A", 2)
  /\ UNCHANGED <<passed, sock, listening, backlog, inbox, replies>>

Refused ==
  /\ At("refused")
  /\ Proceed(~E!Admissible(Arg))
  /\ UNCHANGED <<governor, passed, sock, worker, network, inbox, replies>>

Accepted ==
  /\ At("accepted")
  /\ Proceed(Acceptable(Arg))
  /\ IF Acceptable(Arg) THEN E!Ingest(Arg) ELSE UNCHANGED governor
  /\ UNCHANGED <<passed, sock, worker, network, inbox, replies>>

RecordLine ==
  /\ At("record")
  /\ passed' = IF ok THEN passed \cup {Arg} ELSE passed
  /\ ok' = TRUE
  /\ at' = at + 1
  /\ UNCHANGED <<governor, left, sock, worker, network, inbox, replies>>

(* The process ends and its connections with it, the accepted ones and     *)
(* those that wait; the driver starts the next one.                        *)
Exit ==
  /\ At("exit") /\ Go
  /\ sock' = [k \in DOMAIN sock |-> Nobody]
  /\ listening' = FALSE
  /\ backlog' = <<>>
  /\ conn' = [p \in Processes |-> IF conn[p] = "open" THEN "closed" ELSE conn[p]]
  /\ UNCHANGED <<governor, passed, worker, inbox, replies>>

(* load of what was saved, advance_epoch, listen. *)
Load ==
  /\ At("load") /\ Go
  /\ epoch' = 2
  /\ worker_boots' = [w \in {} |-> 0]
  /\ windows' = [k \in {} |-> 0] /\ seen' = {}
  /\ revalidate_needed' = [o \in ObjectiveIds |-> o \in DOMAIN pol]
  /\ last_state' = [o \in ObjectiveIds |-> "HEALTHY"]
  /\ recover_streak' = [o \in ObjectiveIds |-> 0]
  /\ listening' = TRUE
  /\ UNCHANGED <<pol, now, shutting_down, passed, sock, worker, backlog, conn,
                 inbox, replies>>

(* Mutated form: who came first is taken for worker A, as in run_coordinator. *)
Named_ByOrder(name) == IF name = "A" THEN sock["a"] ELSE sock["b"]

(* The connection of the worker with this name, of two the later. *)
Named(name) ==
  IF sock["b"].name = name THEN sock["b"]
  ELSE IF sock["a"].name = name THEN sock["a"]
  ELSE Nobody

(* The workers that are back are registered; D cannot pass without B. *)
Assign ==
  /\ At("assign")
  /\ Proceed(Named("B") # Nobody)
  /\ sock' = [sock EXCEPT !["a"] = Named("A"), !["b"] = Named("B")]
  /\ worker_boots' = [n \in {n \in Workers : Named(n) # Nobody} |-> Named(n).boot]
  /\ UNCHANGED <<epoch, pol, now, shutting_down, windows, seen, revalidate_needed,
                 last_state, recover_streak, passed, worker, network, inbox,
                 replies>>

Coordinator ==
  \/ Spawn \/ Accept \/ Hello \/ Scenarios \/ Tell \/ Skip \/ Latency \/ Ack
  \/ Evaluate \/ Kill \/ Refused \/ Accepted \/ RecordLine \/ Exit \/ Load \/ Assign

-----------------------------------------------------------------------------
(* The loop of a worker process. *)
coordinator == <<governor, at, left, ok, passed, sock, listening>>

Connect(p) ==
  /\ worker[p].pc = "connecting"
  /\ listening
  /\ worker' = [worker EXCEPT ![p].pc = "greeting"]
  /\ backlog' = Append(backlog, p)
  /\ conn' = [conn EXCEPT ![p] = "open"]
  /\ inbox' = [inbox EXCEPT ![p] = <<>>]
  /\ replies' = [replies EXCEPT ![p] = <<>>]
  /\ UNCHANGED coordinator

Reply(p, msg) == replies' = [replies EXCEPT ![p] = Append(@, msg)]

Greet(p) ==
  /\ worker[p].pc = "greeting"
  /\ conn[p] = "open"
  /\ worker' = [worker EXCEPT ![p].pc = "serving"]
  /\ Reply(p, [type |-> "HELLO", name |-> p.name])
  /\ UNCHANGED <<coordinator, backlog, conn, inbox>>

(* Mutated form: a worker that loses its coordinator gives up. *)
Lose_GiveUp(p) ==
  /\ worker[p].pc \in {"greeting", "serving"}
  /\ conn[p] = "closed"
  /\ inbox[p] = <<>>
  /\ worker' = [worker EXCEPT ![p].pc = "exited"]
  /\ UNCHANGED <<coordinator, backlog, conn, inbox, replies>>

(* The connection is lost once what it still held has been read.  The      *)
(* epoch and the counter survive.                                          *)
Lose(p) ==
  /\ worker[p].pc \in {"greeting", "serving"}
  /\ conn[p] = "closed"
  /\ inbox[p] = <<>>
  /\ worker' = [worker EXCEPT ![p].pc = "connecting", ![p].owed = 0]
  /\ UNCHANGED <<coordinator, backlog, conn, inbox, replies>>

(* Mutated form: a worker that is shut down looks for a coordinator again. *)
Obey_Reconnects(p) ==
  LET msg == Head(inbox[p])
  IN CASE msg.type = "SHUTDOWN" ->
            /\ worker' = [worker EXCEPT ![p].pc = "connecting"]
            /\ UNCHANGED replies
       [] msg.type = "SET_EPOCH" ->
            /\ worker' = [worker EXCEPT ![p].epoch = msg.value]
            /\ UNCHANGED replies
       [] msg.type = "REPORT" ->
            /\ worker' = [worker EXCEPT ![p].owed = ReportSize,
                                        ![p].latency = msg.value]
            /\ UNCHANGED replies
       [] msg.type = "INTERVENTION" ->
            /\ Reply(p, [type |-> "INTERVENTION_ACK"])
            /\ UNCHANGED worker

(* What a worker does with a message. *)
Obey(p) ==
  LET msg == Head(inbox[p])
  IN CASE msg.type = "SHUTDOWN" ->
            /\ worker' = [worker EXCEPT ![p].pc = "exited"]
            /\ UNCHANGED replies
       [] msg.type = "SET_EPOCH" ->
            /\ worker' = [worker EXCEPT ![p].epoch = msg.value]
            /\ UNCHANGED replies
       [] msg.type = "REPORT" ->
            /\ worker' = [worker EXCEPT ![p].owed = ReportSize,
                                        ![p].latency = msg.value]
            /\ UNCHANGED replies
       [] msg.type = "INTERVENTION" ->
            /\ Reply(p, [type |-> "INTERVENTION_ACK"])
            /\ UNCHANGED worker

Serve(p) ==
  /\ worker[p].pc = "serving"
  /\ worker[p].owed = 0
  /\ inbox[p] # <<>>
  /\ Obey(p)
  /\ inbox' = [inbox EXCEPT ![p] = Tail(@)]
  /\ UNCHANGED <<coordinator, backlog, conn>>

(* Mutated form: the requests of a report are counted from 0 each time. *)
Publish_CountAgain(p) ==
  /\ worker[p].pc = "serving"
  /\ worker[p].owed > 0
  /\ Reply(p, [type |-> "LATENCY",
               event |-> Completion(p, ReportSize - worker[p].owed,
                                    worker[p].epoch, worker[p].latency)])
  /\ worker' = [worker EXCEPT ![p].owed = @ - 1]
  /\ UNCHANGED <<coordinator, backlog, conn, inbox>>

(* The next completion of the report that is owed. *)
Publish(p) ==
  /\ worker[p].pc = "serving"
  /\ worker[p].owed > 0
  /\ Reply(p, [type |-> "LATENCY",
               event |-> Completion(p, worker[p].counter, worker[p].epoch,
                                    worker[p].latency)])
  /\ worker' = [worker EXCEPT ![p].owed = @ - 1, ![p].counter = @ + 1]
  /\ UNCHANGED <<coordinator, backlog, conn, inbox>>

Worker(p) == Connect(p) \/ Greet(p) \/ Lose(p) \/ Serve(p) \/ Publish(p)

Next == Coordinator \/ \E p \in Processes : Worker(p)

(* Every process runs: nobody but scenario B kills one, and a blocking     *)
(* call returns when what it waits for has arrived.                        *)
Fairness == WF_vars(Coordinator) /\ \A p \in Processes : WF_vars(Worker(p))

Spec == Init /\ [][Next]_vars /\ Fairness

-----------------------------------------------------------------------------
Stopped(p) == worker[p].pc \in {"unborn", "killed", "exited"}

(* The driver comes to its end: whatever order the workers connect in,     *)
(* before and after the restart, no call of either coordinator waits for   *)
(* ever (run_driver, accept and recv against run_worker).                  *)
DriverFinishes == <>(at = Done)

(* All scenarios pass: when the two workers connected in the order they    *)
(* were spawned in, the kill, the new boot and the restart go as scenarios *)
(* A, B and D say, however their reconnections are ordered.                *)
ProofPasses ==
  at = Done /\ "HELLO" \in passed => {"A", "B", "FRESH", "D"} \subseteq passed

(* No worker is left behind: then also every worker is killed or shut      *)
(* down, although it reconnects to whoever listens (run_worker, SHUTDOWN). *)
NobodyLeftBehind ==
  "HELLO" \in passed ~> [](at = Done /\ \A p \in Processes : Stopped(p))

(* What a call reads from its socket. *)
Reads == [hello |-> "HELLO", latency |-> "LATENCY", ack |-> "INTERVENTION_ACK"]

(* Request and reply stay in step on every connection: what has arrived    *)
(* for the coordinator is all of the kind that the next call on that       *)
(* socket reads, and no more than it reads, so that no reply is taken for  *)
(* another (req_report, send_intervention, read_hello).                    *)
RepliesMatch ==
  \A k \in DOMAIN sock :
    sock[k] # Nobody /\ ~Stopped(sock[k]) /\ replies[sock[k]] # <<>> =>
      \E c \in at..Len(Program) :
        /\ Program[c].sock = k
        /\ \A i \in at..c-1 : Program[i].sock # k
        /\ Program[c].op \in DOMAIN Reads
        /\ Len(replies[sock[k]]) <= IF Program[c].op = "latency" THEN left ELSE 1
        /\ \A i \in DOMAIN replies[sock[k]] :
             replies[sock[k]][i].type = Reads[Program[c].op]

(* No report is lost as a duplicate: a completion on its way to the        *)
(* coordinator is new to it, although an incarnation restarts its counter, *)
(* a survivor keeps it, and both send under one name (the counter of       *)
(* run_worker, seen).                                                      *)
ReportsAreNew ==
  \A p \in Processes : \A i \in DOMAIN replies[p] :
    replies[p][i].type = "LATENCY" => replies[p][i].event.request \notin seen
=============================================================================
