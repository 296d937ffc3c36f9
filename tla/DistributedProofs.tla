------------------------- MODULE DistributedProofs -------------------------
(***************************************************************************)
(* Theorems about the coordinators and workers of tailgov_d: on every      *)
(* connection requests and replies stay in step, and no completion that is *)
(* reported has been counted before, for every size of a report, whatever  *)
(* the governor is given as policy, and in whatever order the workers      *)
(* connect, lose their connection and connect again.                       *)
(***************************************************************************)
EXTENDS Distributed, Integers, SequenceTheorems, TLAPS

Sockets == {"a", "b", "a2"}
PCs == {"unborn", "connecting", "greeting", "serving", "killed", "exited"}

(* Messages to a worker and from it. *)
Order ==
  [type : {"REPORT", "INTERVENTION", "SET_EPOCH", "SHUTDOWN"}, value : Nat]
Hail == [type : {"HELLO"}, name : {"A", "B"}]
Measurement ==
  [type : {"LATENCY"},
   event : [request : Nat, class : Nat, worker : {"A", "B"}, boot : Nat,
            epoch : Nat, authoritative : BOOLEAN, latency : Nat,
            phase_sum : Nat, captured : Nat]]
Receipt == [type : {"INTERVENTION_ACK"}]

TypeOK ==
  /\ epoch \in Nat
  /\ at \in 1..49
  /\ left \in Nat
  /\ sock \in [Sockets -> Processes \cup {Nobody}]
  /\ backlog \in Seq(Processes)
  /\ worker \in [Processes -> [pc : PCs, epoch : Nat, counter : Nat, owed : Nat,
                               latency : Nat]]
  /\ conn \in [Processes -> {"none", "open", "closed"}]
  /\ inbox \in [Processes -> Seq(Order)]
  /\ replies \in [Processes -> Seq(Hail \cup Measurement \cup Receipt)]

(* Where the program is. *)
AtLatency(k) == CASE k = "a" -> at \in {10, 41}
                  [] k = "b" -> at \in {12, 17, 43}
                  [] OTHER -> FALSE
AtAck(k) == k = "b" /\ at = 15

(* k leads to a worker whose hello is to be read, or has been. *)
HelloDue(k) == CASE k = "a" -> at \in {4, 5, 32}
                 [] k = "b" -> at \in {5, 6, 34}
                 [] OTHER -> at = 26
Opened(k) == CASE k = "a" -> at \in 4..29 \/ at \in 32..48
               [] k = "b" -> at \in 5..29 \/ at \in 34..48
               [] OTHER -> at \in 26..29

-----------------------------------------------------------------------------
(* The coordinator's sockets: when they lead to somebody, that they lead   *)
(* to different workers, and what the coordinator takes them for.          *)
SocketsOK ==
  /\ \A k \in Sockets :
       /\ sock[k] # Nobody => Opened(k)
       /\ Opened(k) /\ (at <= 29 \/ HelloDue(k)) => sock[k] # Nobody
  /\ \A k, l \in Sockets : sock[k] = sock[l] /\ sock[k] # Nobody => k = l
  /\ at \in 8..23 => sock["a"] = A1
  /\ at \in 8..19 => sock["b"] = B1
  /\ at \in 36..48 =>
       /\ sock["a"] # Nobody => sock["a"].name = "A"
       /\ sock["b"] # Nobody => sock["b"].name = "B"

(* Processes that are spawned later are unborn.                            *)
Born ==
  /\ at <= 1 => worker[A1].pc = "unborn"
  /\ at <= 2 => worker[B1].pc = "unborn"
  /\ at <= 24 => worker[A2].pc = "unborn"

Backlogged(p) == \E i \in DOMAIN backlog : backlog[i] = p
OnSocket(p) == \E k \in Sockets : sock[k] = p

(* Nothing was asked of p, and of what p sent only its hello is unread. *)
Unread(p) ==
  /\ conn[p] = "open"
  /\ inbox[p] = <<>>
  /\ worker[p].owed = 0
  /\ \/ worker[p].pc = "greeting" /\ replies[p] = <<>>
     \/ /\ worker[p].pc = "serving"
        /\ Len(replies[p]) = 1 /\ replies[p][1].type = "HELLO"

(* The connection of p: new, waiting, accepted, or gone. *)
Connected(p) ==
  /\ worker[p].pc \in {"unborn", "connecting"} => ~OnSocket(p) /\ ~Backlogged(p)
  /\ worker[p].pc = "greeting" => inbox[p] = <<>> /\ replies[p] = <<>>
  /\ Backlogged(p) => Unread(p) /\ ~OnSocket(p)
  /\ \A k \in Sockets : sock[k] = p =>
       IF HelloDue(k) THEN Unread(p)
       ELSE Stopped(p) \/ (worker[p].pc = "serving" /\ conn[p] = "open")

BacklogOK ==
  \A i, j \in DOMAIN backlog : backlog[i] = backlog[j] => i = j

-----------------------------------------------------------------------------
(* What is under way between p and the coordinator.  Most of the time that *)
(* is at most a hello and orders that nobody answers.                      *)
Silent(p) ==
  /\ worker[p].owed = 0
  /\ \A i \in DOMAIN inbox[p] : inbox[p][i].type \in {"SET_EPOCH", "SHUTDOWN"}

Quiet(p) ==
  /\ Silent(p)
  /\ Len(replies[p]) <= 1
  /\ \A i \in DOMAIN replies[p] : replies[p][i].type = "HELLO"
  /\ \A k \in Sockets : sock[k] = p /\ ~HelloDue(k) => replies[p] = <<>>

(* An order of this type is the last that p will come to. *)
Ordered(p, type) ==
  /\ worker[p].owed = 0
  /\ replies[p] = <<>>
  /\ inbox[p] # <<>>
  /\ inbox[p][Len(inbox[p])].type = type
  /\ \A i \in 1..Len(inbox[p])-1 : inbox[p][i].type \in {"SET_EPOCH", "SHUTDOWN"}

(* The n-th completion of p, as the governor knows it. *)
Number(p, n) == WorkerId(p) * 1000000 + n

(* p is asked for a report: it has not come to that yet, or what it has    *)
(* sent and what it owes add up to what is left to receive, numbered       *)
(* without a gap.                                                          *)
Reporting(p) ==
  \/ Ordered(p, "REPORT") /\ left = ReportSize
  \/ /\ inbox[p] = <<>>
     /\ Len(replies[p]) + worker[p].owed = left
     /\ Len(replies[p]) <= worker[p].counter
     /\ \A i \in DOMAIN replies[p] :
          /\ replies[p][i].type = "LATENCY"
          /\ replies[p][i].event.request + Len(replies[p]) + 1
               = Number(p, worker[p].counter) + i

Acknowledging(p) ==
  \/ Ordered(p, "INTERVENTION")
  \/ /\ worker[p].owed = 0
     /\ inbox[p] = <<>>
     /\ Len(replies[p]) = 1 /\ replies[p][1].type = "INTERVENTION_ACK"

Asked(p) == \E k \in Sockets : sock[k] = p /\ AtLatency(k)
Warned(p) == \E k \in Sockets : sock[k] = p /\ AtAck(k)

Exchange(p) ==
  /\ Asked(p) => Reporting(p)
  /\ Warned(p) => Acknowledging(p)
  /\ ~Asked(p) /\ ~Warned(p) => Quiet(p)

-----------------------------------------------------------------------------
(* Completions p has numbered and those of them that were received; there  *)
(* are never so many that the numbers of A reach those of B.               *)
Budget(p) ==
  worker[p].counter
    + (IF Asked(p) THEN IF Ordered(p, "REPORT") THEN left ELSE worker[p].owed
       ELSE 0) <= 100000 * at

Received(p) ==
  IF Asked(p) THEN worker[p].counter - Len(replies[p]) ELSE worker[p].counter

ProcessOK(p) == Connected(p) /\ Exchange(p) /\ Budget(p)

(* What the governor has seen, as long as reports are asked for. *)
SeenOK ==
  /\ at \in 1..9 \/ at \in 31..40 => seen = {}
  /\ at \in 10..19 \/ at \in 41..44 =>
       \A r \in seen : \E p \in Processes :
         /\ sock["a"] = p \/ sock["b"] = p
         /\ \E n \in 0..Received(p)-1 : r = Number(p, n)

Inv ==
  /\ TypeOK
  /\ SocketsOK /\ Born /\ BacklogOK
  /\ \A p \in Processes : ProcessOK(p)
  /\ SeenOK

-----------------------------------------------------------------------------
(* The program as a table: what is called at each position, on which       *)
(* socket.                                                                 *)
Ops ==
  <<"spawn", "spawn", "accept", "accept", "hello", "hello",
    "scenarios", "record", "report", "latency", "report", "latency",
    "evaluate", "intervene", "ack", "report", "latency", "evaluate",
    "record", "kill", "refused", "accepted", "record", "spawn",
    "accept", "hello", "accepted", "record", "exit", "load", "accept",
    "hello", "accept", "hello", "assign", "evaluate", "refused",
    "set_epoch", "set_epoch", "report", "latency", "report", "latency",
    "evaluate", "record", "shutdown", "shutdown", "exit">>

Socks ==
  <<"-", "-", "a", "b", "a", "b", "-", "-", "a", "a", "b", "b", "-",
    "b", "b", "b", "b", "-", "-", "a", "-", "-", "-", "-", "a2", "a2",
    "-", "-", "-", "-", "a", "a", "b", "b", "-", "-", "-", "a", "b",
    "a", "a", "b", "b", "-", "-", "a", "b", "-">>

LEMMA Table ==
  /\ Len(Program) = 48 /\ Done = 49
  /\ AtScenarioB = 20 /\ AtRest = 24 /\ Restart = 30
  /\ \A i \in 1..48 : Program[i].op = Ops[i] /\ Program[i].sock = Socks[i]
  /\ Program[1].arg = A1 /\ Program[2].arg = B1 /\ Program[24].arg = A2
  /\ \A i \in {9, 11, 16, 40, 42} : Program[i].arg \in Nat
  BY DEF Program, First, ScenarioA, ScenarioB, Rest, Second, Resumed, Check, Do, Call,
         Report, Intervene, Ops, Socks, AtScenarioB, AtRest, Restart, Done

(* Where a call op on socket k can be. *)
Row(i, op, k) ==
  /\ i \in 1..48
  /\ op = "spawn" => i \in {1, 2, 24}
  /\ op = "accept" => \/ k = "a" /\ i \in {3, 31}
                      \/ k = "b" /\ i \in {4, 33}
                      \/ k = "a2" /\ i = 25
  /\ op = "hello" => \/ k = "a" /\ i \in {5, 32}
                     \/ k = "b" /\ i \in {6, 34}
                     \/ k = "a2" /\ i = 26
  /\ op = "scenarios" => i = 7
  /\ op = "record" => i \in {8, 19, 23, 28, 45}
  /\ op = "report" => \/ k = "a" /\ i \in {9, 40}
                      \/ k = "b" /\ i \in {11, 16, 42}
  /\ op = "latency" => \/ k = "a" /\ i \in {10, 41}
                       \/ k = "b" /\ i \in {12, 17, 43}
  /\ op = "intervene" => k = "b" /\ i = 14
  /\ op = "ack" => k = "b" /\ i = 15
  /\ op = "evaluate" => i \in {13, 18, 36, 44}
  /\ op = "kill" => k = "a" /\ i = 20
  /\ op = "refused" => i \in {21, 37}
  /\ op = "accepted" => i \in {22, 27}
  /\ op = "exit" => i \in {29, 48}
  /\ op = "load" => i = 30
  /\ op = "assign" => i = 35
  /\ op = "set_epoch" => \/ k = "a" /\ i = 38
                         \/ k = "b" /\ i = 39
  /\ op = "shutdown" => \/ k = "a" /\ i = 46
                        \/ k = "b" /\ i = 47

LEMMA Rows == \A i \in 1..48 : Row(i, Ops[i], Socks[i])
  BY DEF Row, Ops, Socks

LEMMA Calls ==
  ASSUME at \in 1..49, NEW op, At(op)
  PROVE  Row(at, op, Socket)
<1>1. at \in 1..48 /\ Ops[at] = op /\ Socket = Socks[at]
  BY Table DEF At, Socket
<1> QED
  BY <1>1, Rows

LEMMA Arguments ==
  ASSUME at \in 1..49
  PROVE  /\ At("spawn") => \/ at = 1 /\ Arg = A1
                           \/ at = 2 /\ Arg = B1
                           \/ at = 24 /\ Arg = A2
         /\ At("report") => Arg \in Nat
<1>1. At("spawn") => at \in {1, 2, 24}
  BY Calls DEF Row
<1>2. At("report") => at \in {9, 11, 16, 40, 42}
  BY Calls DEF Row
<1> QED
  BY <1>1, <1>2, Table DEF Arg

(* The record a failed check of run_coordinator goes on with. *)
LEMMA Fails ==
  ASSUME at \in {13, 18, 21, 22, 27}, NEW r \in at..Len(Program),
         Program[r].op = "record",
         \A i \in at..r-1 : Program[i].op # "record"
  PROVE  \/ at \in {13, 18} /\ r = 19
         \/ at \in {21, 22} /\ r = 23
         \/ at = 27 /\ r = 28
<1>1. r \in 1..48 /\ at \in Nat
  BY Table
<1>2. r \in {8, 19, 23, 28, 45}
  BY <1>1, Table, Rows DEF Row
<1>3. Program[19].op = "record" /\ Program[23].op = "record" /\ Program[28].op = "record"
  BY Table DEF Ops
<1>4. \A i \in {19, 23, 28} : ~(i \in at..r-1)
  BY <1>3
<1> QED
  BY <1>1, <1>2, <1>4

-----------------------------------------------------------------------------
LEMMA Cast ==
  /\ A1 \in Processes /\ B1 \in Processes /\ A2 \in Processes
  /\ A1 # B1 /\ A1 # A2 /\ B1 # A2
  /\ Nobody \notin Processes
<1>1. A1.name = "A" /\ A2.name = "A" /\ B1.name = "B" /\ Nobody.name = ""
  BY DEF A1, B1, A2, Nobody
<1>2. A1.boot = 1 /\ A2.boot = 2
  BY DEF A1, A2
<1>3. A1 # B1 /\ B1 # A2
  BY <1>1
<1>4. A1 # A2
  BY <1>2
<1>5. A1 # Nobody /\ B1 # Nobody /\ A2 # Nobody
  BY <1>1
<1>6. Nobody \notin Processes
  BY <1>5 DEF Processes
<1>7. A1 \in Processes /\ B1 \in Processes /\ A2 \in Processes
  BY DEF Processes
<1> QED
  BY <1>3, <1>4, <1>6, <1>7

LEMMA Names ==
  \A p \in Processes :
    /\ p = A1 \/ p = B1 \/ p = A2
    /\ p.name = "A" <=> p # B1
    /\ p.name = "B" <=> p = B1
    /\ p.boot \in Nat
<1>1. A1.name = "A" /\ A2.name = "A" /\ B1.name = "B"
  BY DEF A1, B1, A2
<1>2. A1.boot = 1 /\ A2.boot = 2 /\ B1.boot = 1
  BY DEF A1, B1, A2
<1> QED
  BY <1>1, <1>2 DEF Processes

(* A process is unaffected by a step that leaves alone what it is, has and *)
(* is waited for with.                                                     *)
LEMMA Bystander ==
  ASSUME NEW q \in Processes, TypeOK, TypeOK',
         ProcessOK(q),
         worker'[q] = worker[q], conn'[q] = conn[q], inbox'[q] = inbox[q],
         replies'[q] = replies[q],
         at <= at', Asked(q) => left' = left,
         Backlogged(q)' => Backlogged(q),
         \A k \in Sockets :
           /\ sock'[k] = q <=> sock[k] = q
           /\ sock[k] = q => /\ HelloDue(k)' <=> HelloDue(k)
                             /\ AtLatency(k)' <=> AtLatency(k)
                             /\ AtAck(k)' <=> AtAck(k)
  PROVE  ProcessOK(q)' /\ Received(q)' = Received(q)
<1> USE DEF ProcessOK
<1>1. OnSocket(q)' <=> OnSocket(q)
  BY DEF OnSocket
<1>2. (Asked(q)' <=> Asked(q)) /\ (Warned(q)' <=> Warned(q))
  BY DEF Asked, Warned
<1>3. (Stopped(q)' <=> Stopped(q)) /\ (Unread(q)' <=> Unread(q))
  BY DEF Stopped, Unread
<1>4. Connected(q)'
  BY <1>1, <1>3 DEF Connected
<1>5. \A t : Ordered(q, t)' <=> Ordered(q, t)
  BY DEF Ordered
<1>6. Asked(q) => Reporting(q)'
  BY <1>5 DEF Reporting, Exchange
<1>7. Warned(q) => Acknowledging(q)'
  BY <1>5 DEF Acknowledging, Exchange
<1>8. ~Asked(q) /\ ~Warned(q) => Quiet(q)'
  BY DEF Quiet, Exchange, Silent
<1>9. Exchange(q)'
  BY <1>2, <1>6, <1>7, <1>8 DEF Exchange
<1>10. 100000 * at <= 100000 * at'
  <2>1. PICK i \in Int : at = i
    BY DEF TypeOK
  <2>2. PICK j \in Int : at' = j
    BY DEF TypeOK
  <2> QED
    BY <2>1, <2>2
<1>11. Budget(q)'
  <2>1. worker[q].counter \in Nat /\ worker[q].owed \in Nat /\ left \in Nat
    BY DEF TypeOK
  <2>2. at \in Nat /\ at' \in Nat
    BY DEF TypeOK
  <2> QED
    BY <1>2, <1>5, <1>10, <2>1, <2>2 DEF Budget
<1>12. Received(q)' = Received(q)
  BY <1>2 DEF Received
<1> QED
  BY <1>4, <1>9, <1>11, <1>12

(* What the governor's operations do to what matters here. *)
LEMMA GovernorFrame ==
  /\ UNCHANGED governor => UNCHANGED <<epoch, seen>>
  /\ \A w, b : E!RegisterWorker(w, b) => UNCHANGED <<epoch, seen>>
  /\ \A o : E!Evaluate(o) => UNCHANGED <<epoch, seen>>
  /\ \A ev : E!Ingest(ev) => epoch' = epoch /\ seen' = seen \cup {ev.request}
<1>1. UNCHANGED governor => UNCHANGED <<epoch, seen>>
  BY DEF governor
<1>2. ASSUME NEW w, NEW b, E!RegisterWorker(w, b)
      PROVE  UNCHANGED <<epoch, seen>>
  BY <1>2 DEF E!RegisterWorker, E!evidence
<1>3. ASSUME NEW o, E!Evaluate(o)
      PROVE  UNCHANGED <<epoch, seen>>
  BY <1>3 DEF E!Evaluate, E!EvaluateEach, E!context
<1>4. ASSUME NEW ev, E!Ingest(ev)
      PROVE  epoch' = epoch /\ seen' = seen \cup {ev.request}
  BY <1>4 DEF E!Ingest, E!context
<1> QED
  BY <1>1, <1>2, <1>3, <1>4

(* What has been seen stays accounted for, by reports that go on.          *)
LEMMA SeenKept ==
  ASSUME TypeOK, SeenOK, seen' = seen, sock' = sock,
         \A p \in Processes : Received(p)' = Received(p),
         at' \in 1..9 \/ at' \in 31..40 => at \in 1..9 \/ at \in 31..40,
         at' \in 10..19 \/ at' \in 41..44 => at \in 1..19 \/ at \in 31..44
  PROVE  SeenOK'
<1>1. CASE seen = {}
  BY <1>1 DEF SeenOK
<1>2. CASE seen # {}
  <2>1. ~(at \in 1..9 \/ at \in 31..40)
    BY <1>2 DEF SeenOK
  <2>2. ~(at' \in 1..9 \/ at' \in 31..40)
    BY <2>1
  <2>3. ASSUME at' \in 10..19 \/ at' \in 41..44, NEW r \in seen'
        PROVE  (\E p \in Processes :
                  /\ sock["a"] = p \/ sock["b"] = p
                  /\ \E n \in 0..Received(p)-1 : r = Number(p, n))'
    <3>1. at \in 10..19 \/ at \in 41..44
      BY <2>1, <2>3 DEF TypeOK
    <3>2. PICK p \in Processes :
            /\ sock["a"] = p \/ sock["b"] = p
            /\ \E n \in 0..Received(p)-1 : r = Number(p, n)
      BY <2>3, <3>1 DEF SeenOK
    <3>3. \E n \in 0..Received(p)'-1 : r = Number(p, n)
      BY <3>2
    <3> QED
      BY <3>2, <3>3
  <2> QED
    BY <2>2, <2>3 DEF SeenOK
<1> QED
  BY <1>1, <1>2

(* A process without a connection to the coordinator.                      *)
LEMMA Offstage ==
  ASSUME NEW p \in Processes, TypeOK, TypeOK', ProcessOK(p), ~OnSocket(p),
         ~OnSocket(p)', ~Backlogged(p)', at <= at', worker'[p].pc # "greeting",
         worker'[p].counter = worker[p].counter, worker'[p].owed = 0,
         replies'[p] = replies[p], inbox'[p] = inbox[p]
  PROVE  ProcessOK(p)' /\ Received(p)' = Received(p)
<1>1. Connected(p)'
  BY DEF Connected, OnSocket
<1>2. ~Asked(p) /\ ~Warned(p) /\ ~Asked(p)' /\ ~Warned(p)'
  BY DEF Asked, Warned, OnSocket
<1>3. Exchange(p)'
  BY <1>2 DEF ProcessOK, Exchange, Quiet, Silent, OnSocket
<1>4. 100000 * at <= 100000 * at'
  <2>1. PICK i \in Int : at = i
    BY DEF TypeOK
  <2>2. PICK j \in Int : at' = j
    BY DEF TypeOK
  <2> QED
    BY <2>1, <2>2
<1>5. Budget(p)'
  <2>1. worker[p].counter \in Nat /\ at \in Nat /\ at' \in Nat
    BY DEF TypeOK
  <2>2. worker[p].owed \in Nat
    BY DEF TypeOK
  <2> QED
    BY <1>2, <1>4, <2>1, <2>2 DEF Budget, ProcessOK
<1>6. Received(p)' = Received(p)
  BY <1>2 DEF Received
<1> QED
  BY <1>1, <1>3, <1>5, <1>6 DEF ProcessOK

LEMMA InitInv == Init => Inv
<1> SUFFICES ASSUME Init PROVE Inv
  OBVIOUS
<1> USE DEF Init
<1>1. TypeOK
  <2>1. worker \in [Processes -> [pc : PCs, epoch : Nat, counter : Nat, owed : Nat,
                                  latency : Nat]]
    BY DEF PCs
  <2>2. inbox \in [Processes -> Seq(Order)]
    OBVIOUS
  <2>3. replies \in [Processes -> Seq(Hail \cup Measurement \cup Receipt)]
    OBVIOUS
  <2>4. sock \in [Sockets -> Processes \cup {Nobody}]
    BY DEF Sockets
  <2>5. /\ epoch \in Nat /\ at \in 1..49 /\ left \in Nat
        /\ backlog \in Seq(Processes)
        /\ conn \in [Processes -> {"none", "open", "closed"}]
    OBVIOUS
  <2> QED
    BY <2>1, <2>2, <2>3, <2>4, <2>5 DEF TypeOK
<1>2. \A k \in Sockets : sock[k] = Nobody /\ ~Opened(k) /\ ~HelloDue(k)
  BY DEF Sockets, Opened, HelloDue
<1>3. SocketsOK
  BY <1>2 DEF SocketsOK
<1>4. Born
  BY Cast DEF Born
<1>5. BacklogOK /\ SeenOK
  BY DEF BacklogOK, SeenOK
<1>6. ASSUME NEW p \in Processes
      PROVE  ProcessOK(p)
  <2>1. ~OnSocket(p) /\ ~Backlogged(p)
    <3>1. ~OnSocket(p)
      BY <1>2, Cast DEF OnSocket
    <3>2. backlog = <<>>
      OBVIOUS
    <3> QED
      BY <3>1, <3>2 DEF Backlogged
  <2>2. worker[p].pc = "unborn" /\ worker[p].owed = 0 /\ worker[p].counter = 0
    OBVIOUS
  <2>3. Connected(p)
    BY <2>1, <2>2 DEF Connected, OnSocket
  <2>4. ~Asked(p) /\ ~Warned(p)
    BY <2>1 DEF Asked, Warned, OnSocket
  <2>5. Exchange(p)
    BY <2>2, <2>4 DEF Exchange, Quiet, Silent
  <2> QED
    BY <2>2, <2>3, <2>4, <2>5 DEF ProcessOK, Budget
<1> QED
  BY <1>1, <1>3, <1>4, <1>5, <1>6 DEF Inv

-----------------------------------------------------------------------------

LEMMA SpawnInv ==
  ASSUME Inv, Spawn
  PROVE  Inv'
<1>1. at \in {1, 2, 24}
  BY Calls DEF Inv, TypeOK, Spawn, Row
<1>2. /\ at' = at + 1
      /\ UNCHANGED <<left, sock, backlog, conn, inbox, replies, epoch, seen>>
  BY GovernorFrame DEF Spawn, Go, network
<1>3. \/ at = 1 /\ Arg = A1
      \/ at = 2 /\ Arg = B1
      \/ at = 24 /\ Arg = A2
  BY Arguments DEF Spawn, Inv, TypeOK
<1>4. Arg \in Processes /\ worker[Arg].pc = "unborn"
  <2>1. CASE at = 1 /\ Arg = A1
    BY <2>1, Cast DEF Inv, Born
  <2>2. CASE at = 2 /\ Arg = B1
    BY <2>2, Cast DEF Inv, Born
  <2>3. CASE at = 24 /\ Arg = A2
    BY <2>3, Cast DEF Inv, Born
  <2> QED
    BY <1>3, <2>1, <2>2, <2>3
<1>5. TypeOK'
  <2>1. worker' \in [Processes -> [pc : PCs, epoch : Nat, counter : Nat,
                                   owed : Nat, latency : Nat]]
    <3>1. PICK p \in Processes : p = Arg
      BY <1>4
    <3>2. worker' = [worker EXCEPT ![p].pc = "connecting"] /\ "connecting" \in PCs
      BY <3>1 DEF Spawn, PCs
    <3> QED
      BY <3>2 DEF Inv, TypeOK
  <2> QED
    BY <1>1, <1>2, <2>1 DEF Inv, TypeOK
<1>6. \A k \in Sockets : /\ Opened(k)' <=> Opened(k)
                         /\ HelloDue(k)' <=> HelloDue(k)
                         /\ ~AtLatency(k) /\ ~AtLatency(k)' /\ ~AtAck(k) /\ ~AtAck(k)'
  BY <1>1, <1>2 DEF Sockets, Opened, HelloDue, AtLatency, AtAck
<1>7. SocketsOK'
  BY <1>1, <1>2, <1>6 DEF Inv, SocketsOK
<1>8. /\ \A p \in Processes : p # Arg => worker'[p] = worker[p]
      /\ worker'[Arg].pc = "connecting" /\ worker'[Arg].owed = worker[Arg].owed
      /\ worker'[Arg].counter = worker[Arg].counter
  BY <1>4 DEF Spawn, Inv, TypeOK
<1>9. Born'
  <2>1. at = 1 => worker'[B1] = worker[B1] /\ worker'[A2] = worker[A2]
    BY <1>3, <1>8, Cast
  <2>2. at = 2 => worker'[A2] = worker[A2]
    BY <1>3, <1>8, Cast
  <2> QED
    BY <1>1, <1>2, <2>1, <2>2 DEF Inv, Born
<1>10. BacklogOK'
  BY <1>2 DEF Inv, BacklogOK
<1>11. at <= at'
  BY <1>1, <1>2
<1>12. ASSUME NEW p \in Processes
       PROVE  ProcessOK(p)' /\ Received(p)' = Received(p)
  <2>1. Backlogged(p)' <=> Backlogged(p)
    BY <1>2 DEF Backlogged
  <2>2. CASE p # Arg
    BY <1>2, <1>5, <1>6, <1>8, <1>11, <2>1, <2>2, Bystander DEF Inv
  <2>3. CASE p = Arg
    <3>1. ~OnSocket(p) /\ ~Backlogged(p)
      BY <1>4, <2>3 DEF Inv, ProcessOK, Connected
    <3>2. ~OnSocket(p)'
      BY <1>2, <3>1 DEF OnSocket
    <3>3. worker[p].owed = 0
      BY <3>1 DEF Inv, ProcessOK, Exchange, Asked, Warned, OnSocket, Quiet, Silent
    <3> QED
      BY <1>2, <1>5, <1>8, <1>11, <2>1, <2>3, <3>1, <3>2, <3>3, Offstage DEF Inv
  <2> QED
    BY <2>2, <2>3
<1>13. SeenOK'
  BY <1>1, <1>2, <1>12, SeenKept DEF Inv
<1> QED
  BY <1>5, <1>7, <1>9, <1>10, <1>12, <1>13 DEF Inv

-----------------------------------------------------------------------------
(* Calls of the coordinator that send and receive nothing.                 *)
LEMMA Aside ==
  ASSUME Inv, UNCHANGED <<sock, worker, backlog, conn, inbox, replies>>,
         epoch' \in Nat, left' \in Nat, at' \in 1..49, at <= at',
         \A k \in Sockets : sock[k] # Nobody =>
           /\ HelloDue(k)' <=> HelloDue(k)
           /\ ~AtLatency(k) /\ ~AtLatency(k)' /\ ~AtAck(k) /\ ~AtAck(k)'
  PROVE  /\ TypeOK' /\ Born' /\ BacklogOK'
         /\ \A p \in Processes : ProcessOK(p)' /\ Received(p)' = Received(p)
<1>1. TypeOK'
  BY DEF Inv, TypeOK
<1>2. Born'
  <2>1. PICK i \in Int : at = i
    BY DEF Inv, TypeOK
  <2>2. PICK j \in Int : at' = j
    OBVIOUS
  <2> QED
    BY <2>1, <2>2 DEF Inv, Born
<1>3. BacklogOK'
  BY DEF Inv, BacklogOK
<1>4. ASSUME NEW p \in Processes
      PROVE  ProcessOK(p)' /\ Received(p)' = Received(p)
  <2>1. Backlogged(p)' <=> Backlogged(p)
    BY DEF Backlogged
  <2>2. ~Asked(p)
    BY Cast DEF Asked
  <2>3. \A k \in Sockets :
          /\ sock'[k] = p <=> sock[k] = p
          /\ sock[k] = p => /\ HelloDue(k)' <=> HelloDue(k)
                            /\ AtLatency(k)' <=> AtLatency(k)
                            /\ AtAck(k)' <=> AtAck(k)
    BY Cast
  <2> QED
    BY <1>1, <2>1, <2>2, <2>3, Bystander DEF Inv
<1> QED
  BY <1>1, <1>2, <1>3, <1>4

LEMMA SocketsKept ==
  ASSUME SocketsOK, sock' = sock, at' \in Int,
         \A k \in Sockets : (Opened(k)' <=> Opened(k)) /\ (HelloDue(k)' => HelloDue(k)),
         at' <= 29 => at <= 29,
         at' \in 8..23 => at \in 8..23, at' \in 8..19 => at \in 8..19,
         at' \in 36..48 => at \in 36..48
  PROVE  SocketsOK'
  BY DEF SocketsOK

(* A check or a record: the next call, or a record further on.             *)
LEMMA Checks ==
  ASSUME Inv, UNCHANGED <<sock, worker, backlog, conn, inbox, replies>>,
         epoch' \in Nat, left' = left, seen' = seen \/ at \in {22, 27},
         \/ /\ at \in {8, 13, 18, 19, 21, 22, 23, 27, 28, 36, 37, 44, 45}
            /\ at' = at + 1
         \/ at \in {13, 18} /\ at' = 19
         \/ at \in {21, 22} /\ at' = 23
         \/ at = 27 /\ at' = 28
  PROVE  Inv'
<1> left' \in Nat
  BY DEF Inv, TypeOK
<1>1. /\ at' \in 1..49 /\ at <= at'
      /\ at' <= 29 <=> at <= 29
      /\ at' \in 8..23 => at \in 8..23
      /\ at' \in 8..19 => at \in 8..19
      /\ at' \in 36..48 => at \in 36..48
      /\ ~(at' \in 1..8) /\ ~(at' \in 31..36)
      /\ at' = 9 => at = 8
      /\ at' \in 37..40 => at \in 31..40
      /\ at' \in 10..19 \/ at' \in 41..44 => at \in 1..19 \/ at \in 31..44
      /\ at \in {22, 27} => at' \in {23, 28}
  <2> DEFINE Fits(i, j) ==
        /\ j \in 1..49 /\ i <= j
        /\ j <= 29 <=> i <= 29
        /\ j \in 8..23 => i \in 8..23
        /\ j \in 8..19 => i \in 8..19
        /\ j \in 36..48 => i \in 36..48
        /\ ~(j \in 1..8) /\ ~(j \in 31..36)
        /\ j = 9 => i = 8
        /\ j \in 37..40 => i \in 31..40
        /\ j \in 10..19 \/ j \in 41..44 => i \in 1..19 \/ i \in 31..44
        /\ i \in {22, 27} => j \in {23, 28}
  <2>1. \A i \in {8, 13, 18, 19, 21, 22, 23, 27, 28, 36, 37, 44, 45} : Fits(i, i + 1)
    OBVIOUS
  <2>2. Fits(13, 19) /\ Fits(18, 19) /\ Fits(21, 23) /\ Fits(22, 23) /\ Fits(27, 28)
    OBVIOUS
  <2>3. Fits(at, at')
    BY <2>1, <2>2
  <2> QED
    BY <2>3
<1>2. \A k \in Sockets :
        /\ Opened(k)' <=> Opened(k)
        /\ HelloDue(k)' <=> HelloDue(k)
        /\ ~AtLatency(k) /\ ~AtLatency(k)' /\ ~AtAck(k) /\ ~AtAck(k)'
  BY DEF Sockets, Opened, HelloDue, AtLatency, AtAck
<1>3. /\ TypeOK' /\ Born' /\ BacklogOK'
      /\ \A p \in Processes : ProcessOK(p)' /\ Received(p)' = Received(p)
  BY <1>1, <1>2, Aside
<1>4. SocketsOK'
  BY <1>1, <1>2, SocketsKept DEF Inv
<1>5. SeenOK'
  <2>1. CASE seen' = seen
    <3>1. at' \in 1..9 \/ at' \in 31..40 => at \in 1..9 \/ at \in 31..40
      BY <1>1
    <3> QED
      BY <1>1, <1>3, <2>1, <3>1, SeenKept DEF Inv
  <2>2. CASE at \in {22, 27}
    BY <1>1, <2>2 DEF SeenOK
  <2> QED
    BY <2>1, <2>2
<1> QED
  BY <1>3, <1>4, <1>5 DEF Inv

LEMMA ProceedTo ==
  ASSUME at \in {13, 18, 21, 22, 27, 36, 37, 44}, NEW good, Proceed(good)
  PROVE  /\ left' = left
         /\ \/ at' = at + 1
            \/ at \in {13, 18} /\ at' = 19
            \/ at \in {21, 22} /\ at' = 23
            \/ at = 27 /\ at' = 28
<1>1. CASE good \/ at >= Restart
  BY <1>1 DEF Proceed
<1>2. CASE ~(good \/ at >= Restart)
  <2>1. at \in {13, 18, 21, 22, 27}
    BY <1>2, Table
  <2>2. PICK r \in at..Len(Program) :
          /\ Program[r].op = "record"
          /\ \A i \in at..r-1 : Program[i].op # "record"
          /\ at' = r
    BY <1>2 DEF Proceed
  <2>3. \/ at \in {13, 18} /\ r = 19
        \/ at \in {21, 22} /\ r = 23
        \/ at = 27 /\ r = 28
    BY <2>1, <2>2, Fails
  <2> QED
    BY <2>2, <2>3 DEF Proceed
<1> QED
  BY <1>1, <1>2

LEMMA CheckInv ==
  ASSUME Inv, Evaluate \/ Refused \/ Accepted \/ RecordLine
  PROVE  Inv'
<1>1. epoch \in Nat
  BY DEF Inv, TypeOK
<1>2. CASE Evaluate
  <2>1. at \in {13, 18, 36, 44}
    BY <1>2, Calls DEF Inv, TypeOK, Evaluate, Row
  <2>2. UNCHANGED <<sock, worker, backlog, conn, inbox, replies>>
    BY <1>2 DEF Evaluate, network
  <2>3. PICK o \in ObjectiveIds : E!Evaluate(o) /\ Proceed(last_state'[o] \in Arg)
    BY <1>2 DEF Evaluate
  <2>4. epoch' = epoch /\ seen' = seen
    BY <2>3, GovernorFrame
  <2> QED
    BY <1>1, <2>1, <2>2, <2>3, <2>4, ProceedTo, Checks
<1>3. CASE Refused
  <2>1. at \in {21, 37}
    BY <1>3, Calls DEF Inv, TypeOK, Refused, Row
  <2>2. UNCHANGED <<sock, worker, backlog, conn, inbox, replies, epoch, seen>>
    BY <1>3, GovernorFrame DEF Refused, network
  <2>3. Proceed(~E!Admissible(Arg))
    BY <1>3 DEF Refused
  <2> QED
    BY <1>1, <2>1, <2>2, <2>3, ProceedTo, Checks
<1>4. CASE Accepted
  <2>1. at \in {22, 27}
    BY <1>4, Calls DEF Inv, TypeOK, Accepted, Row
  <2>2. UNCHANGED <<sock, worker, backlog, conn, inbox, replies, epoch>>
    BY <1>4, GovernorFrame DEF Accepted, network
  <2>3. Proceed(Acceptable(Arg))
    BY <1>4 DEF Accepted
  <2> QED
    BY <1>1, <2>1, <2>2, <2>3, ProceedTo, Checks
<1>5. CASE RecordLine
  <2>1. at \in {8, 19, 23, 28, 45}
    BY <1>5, Calls DEF Inv, TypeOK, RecordLine, Row
  <2>2. /\ UNCHANGED <<sock, worker, backlog, conn, inbox, replies, epoch, seen, left>>
        /\ at' = at + 1
    BY <1>5, GovernorFrame DEF RecordLine, network
  <2> QED
    BY <1>1, <2>1, <2>2, Checks
<1> QED
  BY <1>2, <1>3, <1>4, <1>5

LEMMA LoadInv ==
  ASSUME Inv, Load
  PROVE  Inv'
<1>1. at = 30
  BY Calls DEF Inv, TypeOK, Load, Row
<1>2. /\ at' = 31 /\ left' = left /\ epoch' = 2 /\ seen' = {}
      /\ UNCHANGED <<sock, worker, backlog, conn, inbox, replies>>
  BY <1>1 DEF Load, Go
<1>3. left' \in Nat /\ epoch' \in Nat
  BY <1>2 DEF Inv, TypeOK
<1>4. \A k \in Sockets :
        /\ ~Opened(k)' /\ ~Opened(k) /\ ~HelloDue(k)' /\ ~HelloDue(k)
        /\ ~AtLatency(k) /\ ~AtLatency(k)' /\ ~AtAck(k) /\ ~AtAck(k)'
  BY <1>1, <1>2 DEF Sockets, Opened, HelloDue, AtLatency, AtAck
<1>5. /\ TypeOK' /\ Born' /\ BacklogOK'
      /\ \A p \in Processes : ProcessOK(p)' /\ Received(p)' = Received(p)
  BY <1>1, <1>2, <1>3, <1>4, Aside
<1>6. SocketsOK'
  BY <1>1, <1>2, <1>4, SocketsKept DEF Inv
<1>7. SeenOK'
  BY <1>2 DEF SeenOK
<1> QED
  BY <1>5, <1>6, <1>7 DEF Inv

LEMMA SkipInv ==
  ASSUME Inv, Skip
  PROVE  Inv'
<1>1. /\ \/ Socket = "a" /\ at \in {9, 10, 38, 40, 41, 46}
         \/ Socket = "b" /\ at \in {11, 12, 16, 17, 39, 42, 43, 47}
      /\ sock[Socket] = Nobody
  BY Calls DEF Inv, TypeOK, Skip, Row, Peer
<1>2. /\ at' = at + 1 /\ left' = left /\ epoch' = epoch /\ seen' = seen
      /\ UNCHANGED <<sock, worker, backlog, conn, inbox, replies>>
  BY GovernorFrame DEF Skip, Go, network
<1>3. /\ left' \in Nat /\ epoch' \in Nat /\ at' \in 1..49 /\ at <= at'
  BY <1>1, <1>2 DEF Inv, TypeOK
<1>4. \A k \in Sockets :
        /\ Opened(k)' <=> Opened(k)
        /\ ~HelloDue(k)' /\ ~HelloDue(k)
        /\ k # Socket =>
             ~AtLatency(k) /\ ~AtLatency(k)' /\ ~AtAck(k) /\ ~AtAck(k)'
  BY <1>1, <1>2 DEF Sockets, Opened, HelloDue, AtLatency, AtAck
<1>5. /\ TypeOK' /\ Born' /\ BacklogOK'
      /\ \A p \in Processes : ProcessOK(p)' /\ Received(p)' = Received(p)
  BY <1>1, <1>2, <1>3, <1>4, Aside
<1>6. SocketsOK'
  BY <1>1, <1>2, <1>3, <1>4, SocketsKept DEF Inv
<1>7. SeenOK'
  BY <1>1, <1>2, <1>5, SeenKept DEF Inv
<1> QED
  BY <1>5, <1>6, <1>7 DEF Inv

LEMMA ScenariosInv ==
  ASSUME Inv, Scenarios
  PROVE  Inv'
<1>1. at = 7
  BY Calls DEF Inv, TypeOK, Scenarios, Row
<1>2. /\ left' = left /\ epoch' = epoch /\ seen' = seen
      /\ UNCHANGED <<sock, worker, backlog, conn, inbox, replies>>
  BY GovernorFrame DEF Scenarios, network
<1>3. at' = IF sock["a"].name # "A" THEN 24
            ELSE IF sock["b"].name # "B" THEN 20 ELSE 8
  BY <1>1, Table DEF Scenarios
<1>4. left' \in Nat /\ epoch' \in Nat /\ at' \in {8, 20, 24} /\ at <= at'
  BY <1>1, <1>2, <1>3 DEF Inv, TypeOK
<1>5. \A k \in Sockets :
        /\ Opened(k)' <=> Opened(k)
        /\ ~HelloDue(k)' /\ ~HelloDue(k)
        /\ ~AtLatency(k) /\ ~AtLatency(k)' /\ ~AtAck(k) /\ ~AtAck(k)'
  BY <1>1, <1>4 DEF Sockets, Opened, HelloDue, AtLatency, AtAck
<1>6. /\ TypeOK' /\ Born' /\ BacklogOK'
      /\ \A p \in Processes : ProcessOK(p)' /\ Received(p)' = Received(p)
  BY <1>1, <1>2, <1>4, <1>5, Aside
<1>7. \A k \in Sockets : sock[k] # Nobody => sock[k] \in {A1, B1}
  <2>1. ASSUME NEW k \in Sockets, sock[k] = A2 PROVE FALSE
    <3>1. worker[A2].pc = "unborn"
      BY <1>1 DEF Inv, Born
    <3>2. ~OnSocket(A2)
      BY <3>1, Cast DEF Inv, ProcessOK, Connected
    <3> QED
      BY <2>1, <3>2 DEF OnSocket
  <2>2. \A k \in Sockets : sock[k] \in Processes \cup {Nobody}
    BY DEF Inv, TypeOK
  <2> QED
    BY <2>1, <2>2, Names
<1>8. sock["a"] \in {A1, B1} /\ sock["b"] \in {A1, B1}
  <2>1. Opened("a") /\ Opened("b") /\ at <= 29 /\ "a" \in Sockets /\ "b" \in Sockets
    BY <1>1 DEF Opened, Sockets
  <2> QED
    BY <1>7, <2>1 DEF Inv, SocketsOK
<1>9. /\ at' \in 8..23 => sock["a"] = A1
      /\ at' \in 8..19 => sock["b"] = B1
  BY <1>3, <1>8, Names, Cast
<1>10. SocketsOK'
  <2>1. at <= 29 /\ at' <= 29 /\ ~(at' \in 36..48)
    BY <1>1, <1>4
  <2> QED
    BY <1>2, <1>5, <1>9, <2>1 DEF Inv, SocketsOK
<1>11. SeenOK'
  BY <1>1, <1>2, <1>4, <1>6, SeenKept, SMTT(30) DEF Inv
<1> QED
  BY <1>6, <1>10, <1>11 DEF Inv

-----------------------------------------------------------------------------
(* What a report may be (run_worker, count > 100000).                       *)
LEMMA SizeOfReport == ReportSize \in Nat /\ ReportSize <= 100000
  BY ReportAssumption, SMTT(60)

(* What is left of a queue, and what a message added to it makes of it.    *)
LEMMA Tails ==
  ASSUME NEW S, NEW s \in Seq(S), s # <<>>
  PROVE  /\ Head(s) \in S /\ Head(s) = s[1] /\ 1 \in DOMAIN s
         /\ Tail(s) \in Seq(S) /\ Len(Tail(s)) = Len(s) - 1 /\ Len(s) \in Nat
         /\ DOMAIN s = 1..Len(s)
         /\ \A i \in DOMAIN Tail(s) :
              i \in Nat \ {0} /\ i + 1 \in DOMAIN s /\ Tail(s)[i] = s[i+1]
  OBVIOUS

LEMMA Appended ==
  ASSUME NEW S, NEW s \in Seq(S), NEW e \in S
  PROVE  /\ Append(s, e) \in Seq(S) /\ Append(s, e) # <<>>
         /\ Len(Append(s, e)) = Len(s) + 1 /\ Len(s) \in Nat
         /\ Append(s, e)[Len(Append(s, e))] = e
         /\ DOMAIN Append(s, e) = 1..Len(s) + 1 /\ DOMAIN s = 1..Len(s)
         /\ \A i \in 1..Len(Append(s, e))-1 : i \in DOMAIN s /\ Append(s, e)[i] = s[i]
         /\ \A i \in DOMAIN Append(s, e) :
              (i \in DOMAIN s /\ Append(s, e)[i] = s[i]) \/ Append(s, e)[i] = e
  OBVIOUS

LEMMA LastOne ==
  ASSUME NEW S, NEW s \in Seq(S), Len(s) = 1
  PROVE  Tail(s) = <<>>
<1>1. s # <<>>
  OBVIOUS
<1>2. Tail(s) \in Seq(S) /\ Len(Tail(s)) = 0
  BY <1>1, Tails
<1> QED
  BY <1>2, EmptySeq

(* Of a process that has only sent its hello nothing else is under way.    *)
LEMMA OnlyHello ==
  ASSUME NEW p \in Processes, TypeOK, Unread(p)
  PROVE  /\ Silent(p)
         /\ Len(replies[p]) <= 1
         /\ \A i \in DOMAIN replies[p] : replies[p][i].type = "HELLO"
<1>1. inbox[p] = <<>> /\ worker[p].owed = 0
  BY DEF Unread
<1>2. replies[p] \in Seq(Hail \cup Measurement \cup Receipt)
  BY DEF TypeOK
<1>3. CASE replies[p] = <<>>
  BY <1>1, <1>3 DEF Silent
<1>4. CASE Len(replies[p]) = 1 /\ replies[p][1].type = "HELLO"
  BY <1>1, <1>2, <1>4 DEF Silent
<1> QED
  BY <1>3, <1>4 DEF Unread

LEMMA BornKept ==
  ASSUME TypeOK, TypeOK', at <= at', Born,
         \A p \in Processes : worker[p].pc = "unborn" => worker'[p].pc = "unborn"
  PROVE  Born'
<1>1. PICK i \in Int : at = i
  BY DEF TypeOK
<1>2. PICK j \in Int : at' = j
  BY DEF TypeOK
<1> QED
  BY <1>1, <1>2, Cast DEF Born

LEMMA BudgetKept ==
  ASSUME NEW p \in Processes, TypeOK, TypeOK', Budget(p), at <= at',
         worker'[p].counter = worker[p].counter, ~Asked(p)'
  PROVE  Budget(p)'
<1>1. worker[p].counter \in Nat /\ worker[p].owed \in Nat /\ left \in Nat
  BY DEF TypeOK
<1>2. PICK i \in Int : at = i
  BY DEF TypeOK
<1>3. PICK j \in Int : at' = j
  BY DEF TypeOK
<1>4. worker[p].counter <= 100000 * at
  BY <1>1, <1>2 DEF Budget
<1>5. worker'[p].counter <= 100000 * at'
  BY <1>1, <1>2, <1>3, <1>4
<1> QED
  BY <1>1, <1>5 DEF Budget

LEMMA AcceptInv ==
  ASSUME Inv, Accept
  PROVE  Inv'
<1>1. PICK k \in Sockets :
        /\ k = Socket
        /\ \/ k = "a" /\ at \in {3, 31}
           \/ k = "b" /\ at \in {4, 33}
           \/ k = "a2" /\ at = 25
  BY Calls DEF Inv, TypeOK, Accept, Row, Sockets
<1>2. PICK p : p = Head(backlog)
  OBVIOUS
<1>0. /\ at' = at + 1 /\ left' = left /\ epoch' = epoch /\ seen' = seen
      /\ UNCHANGED <<worker, conn, inbox, replies>>
      /\ backlog # <<>> /\ backlog' = Tail(backlog)
      /\ sock' = [sock EXCEPT ![k] = p]
  BY <1>1, <1>2, GovernorFrame DEF Accept, Go
<1>3. /\ at' \in 1..49 /\ at <= at' /\ at' \in {4, 5, 26, 32, 34}
      /\ (at' <= 29 => at <= 29)
      /\ ~(at' \in 8..23) /\ ~(at' \in 8..19) /\ ~(at' \in 36..48)
  <2>1. \A i \in {3, 4, 25, 31, 33} :
          /\ i + 1 \in 1..49 /\ i <= i + 1 /\ i + 1 \in {4, 5, 26, 32, 34}
          /\ (i + 1 <= 29 => i <= 29)
          /\ ~(i + 1 \in 8..23) /\ ~(i + 1 \in 8..19) /\ ~(i + 1 \in 36..48)
    OBVIOUS
  <2>2. at \in {3, 4, 25, 31, 33}
    BY <1>1
  <2> QED
    BY <1>0, <2>1, <2>2
<1>4. /\ p \in Processes /\ p = backlog[1] /\ 1 \in DOMAIN backlog
      /\ backlog' \in Seq(Processes)
      /\ \A i \in DOMAIN backlog' :
           /\ i \in Nat \ {0} /\ i + 1 \in DOMAIN backlog
           /\ backlog'[i] = backlog[i+1]
  BY <1>0, <1>2, Tails DEF Inv, TypeOK
<1>5. TypeOK'
  <2>1. sock' \in [Sockets -> Processes \cup {Nobody}]
    BY <1>0, <1>1, <1>4 DEF Inv, TypeOK
  <2> QED
    BY <1>0, <1>3, <1>4, <2>1 DEF Inv, TypeOK
<1>6. Unread(p) /\ ~OnSocket(p) /\ ~Backlogged(p)'
  <2>1. Backlogged(p)
    BY <1>4 DEF Backlogged
  <2>2. Unread(p) /\ ~OnSocket(p)
    BY <1>4, <2>1 DEF Inv, ProcessOK, Connected
  <2>3. ASSUME NEW i \in DOMAIN backlog', backlog'[i] = p
        PROVE  FALSE
    <3>1. backlog[i+1] = backlog[1] /\ i + 1 \in DOMAIN backlog /\ i \in Nat \ {0}
      BY <1>4, <2>3
    <3>2. i + 1 = 1
      BY <1>4, <3>1 DEF Inv, BacklogOK
    <3> QED
      BY <3>1, <3>2
  <2> QED
    BY <2>2, <2>3 DEF Backlogged
<1>7. /\ ~Opened(k) /\ Opened(k)' /\ HelloDue(k)' /\ sock[k] = Nobody
      /\ \A l \in Sockets : l # k => /\ Opened(l)' <=> Opened(l)
                                     /\ HelloDue(l)' <=> HelloDue(l)
      /\ \A l \in Sockets :
           ~AtLatency(l) /\ ~AtLatency(l)' /\ ~AtAck(l) /\ ~AtAck(l)'
  <2>1. /\ ~Opened(k) /\ Opened(k)' /\ HelloDue(k)'
        /\ \A l \in Sockets : l # k => /\ Opened(l)' <=> Opened(l)
                                       /\ HelloDue(l)' <=> HelloDue(l)
        /\ \A l \in Sockets :
             ~AtLatency(l) /\ ~AtLatency(l)' /\ ~AtAck(l) /\ ~AtAck(l)'
    <3>1. CASE k = "a" /\ at = 3 /\ at' = 4
      BY <3>1 DEF Sockets, Opened, HelloDue, AtLatency, AtAck
    <3>2. CASE k = "a" /\ at = 31 /\ at' = 32
      BY <3>2 DEF Sockets, Opened, HelloDue, AtLatency, AtAck
    <3>3. CASE k = "b" /\ at = 4 /\ at' = 5
      BY <3>3 DEF Sockets, Opened, HelloDue, AtLatency, AtAck
    <3>4. CASE k = "b" /\ at = 33 /\ at' = 34
      BY <3>4 DEF Sockets, Opened, HelloDue, AtLatency, AtAck
    <3>5. CASE k = "a2" /\ at = 25 /\ at' = 26
      BY <3>5 DEF Sockets, Opened, HelloDue, AtLatency, AtAck
    <3> QED
      BY <1>0, <1>1, <3>1, <3>2, <3>3, <3>4, <3>5
  <2> QED
    BY <1>1, <2>1 DEF Inv, SocketsOK
<1>8. \A l \in Sockets : sock'[l] = IF l = k THEN p ELSE sock[l]
  BY <1>0, <1>1 DEF Inv, TypeOK
<1>9. SocketsOK'
  <2>2. \A l \in Sockets : sock[l] # p
    BY <1>6 DEF OnSocket
  <2>3. \A l \in Sockets :
          /\ sock'[l] # Nobody => Opened(l)'
          /\ Opened(l)' /\ (at' <= 29 \/ HelloDue(l)') => sock'[l] # Nobody
    <3>1. p # Nobody
      BY <1>4, Cast
    <3>2. ASSUME NEW l \in Sockets, l # k
          PROVE  /\ sock'[l] # Nobody => Opened(l)'
                 /\ Opened(l)' /\ (at' <= 29 \/ HelloDue(l)') => sock'[l] # Nobody
      BY <1>3, <1>7, <1>8, <3>2 DEF Inv, SocketsOK
    <3>3. sock'[k] = p
      BY <1>8
    <3> QED
      BY <1>7, <3>1, <3>2, <3>3
  <2>4. \A l, m \in Sockets : sock'[l] = sock'[m] /\ sock'[l] # Nobody => l = m
    BY <1>8, <2>2 DEF Inv, SocketsOK
  <2> QED
    BY <1>3, <2>3, <2>4 DEF SocketsOK
<1>10. Born'
  BY <1>0, <1>3, <1>5, BornKept DEF Inv
<1>11. BacklogOK'
  <2>1. ASSUME NEW i \in DOMAIN backlog', NEW j \in DOMAIN backlog', backlog'[i] = backlog'[j]
        PROVE  i = j
    <3>1. /\ i \in Nat /\ j \in Nat /\ backlog[i+1] = backlog[j+1]
          /\ i + 1 \in DOMAIN backlog /\ j + 1 \in DOMAIN backlog
      BY <1>4, <2>1
    <3>2. i + 1 = j + 1
      BY <3>1 DEF Inv, BacklogOK
    <3> QED
      BY <3>1, <3>2
  <2> QED
    BY <2>1 DEF BacklogOK
<1>12. ASSUME NEW q \in Processes
       PROVE  ProcessOK(q)' /\ Received(q)' = Received(q)
  <2>1. ~Asked(q) /\ ~Warned(q) /\ ~Asked(q)' /\ ~Warned(q)'
    BY <1>7 DEF Asked, Warned
  <2>2. CASE q # p
    <3>1. Backlogged(q)' => Backlogged(q)
      BY <1>4 DEF Backlogged
    <3>2. \A l \in Sockets :
            /\ sock'[l] = q <=> sock[l] = q
            /\ sock[l] = q => /\ HelloDue(l)' <=> HelloDue(l)
                              /\ AtLatency(l)' <=> AtLatency(l)
                              /\ AtAck(l)' <=> AtAck(l)
      BY <1>7, <1>8, <2>2, Cast
    <3> QED
      BY <1>0, <1>3, <1>5, <2>1, <3>1, <3>2, Bystander DEF Inv
  <2>3. CASE q = p
    <3>1. Unread(q)'
      BY <1>0, <1>6, <2>3 DEF Unread
    <3>2. \A l \in Sockets : sock'[l] = q => l = k
      BY <1>6, <1>8, <2>3 DEF OnSocket
    <3>3. Connected(q)'
      BY <1>6, <1>7, <2>3, <3>1, <3>2 DEF Connected, Unread
    <3>4. Exchange(q)'
      <4>1. /\ Silent(q) /\ Len(replies[q]) <= 1
            /\ \A i \in DOMAIN replies[q] : replies[q][i].type = "HELLO"
        BY <1>6, <2>3, OnlyHello DEF Inv
      <4>2. Quiet(q)'
        BY <1>0, <1>7, <3>2, <4>1 DEF Quiet, Silent
      <4> QED
        BY <2>1, <4>2 DEF Exchange
    <3>5. Budget(q)'
      BY <1>0, <1>3, <1>5, <2>1, BudgetKept DEF Inv, ProcessOK
    <3> QED
      BY <1>0, <2>1, <3>3, <3>4, <3>5 DEF ProcessOK, Received
  <2> QED
    BY <2>2, <2>3
<1>13. SeenOK'
  <2>1. at' \in 1..9 \/ at' \in 31..40 => at \in 1..9 \/ at \in 31..40
    BY <1>0, <1>1
  <2>2. ~(at' \in 10..19 \/ at' \in 41..44)
    BY <1>3
  <2> QED
    BY <1>0, <2>1, <2>2 DEF Inv, SeenOK
<1> QED
  BY <1>5, <1>9, <1>10, <1>11, <1>12, <1>13 DEF Inv

-----------------------------------------------------------------------------
(* A process that stays on its socket after its hello has been read.       *)
LEMMA Attached ==
  ASSUME Inv, NEW k \in Sockets, NEW p \in Processes, sock[k] = p,
         sock' = sock, backlog' = backlog, ~HelloDue(k)',
         worker'[p].pc \in {"serving", "killed", "exited"},
         worker'[p].pc = "serving" => conn'[p] = "open"
  PROVE  Connected(p)'
<1>1. OnSocket(p) /\ Connected(p)
  BY DEF OnSocket, Inv, ProcessOK
<1>2. ~Backlogged(p)'
  BY <1>1 DEF Connected, Backlogged
<1>3. \A l \in Sockets : sock[l] = p => l = k
  BY Cast DEF Inv, SocketsOK
<1> QED
  BY <1>2, <1>3 DEF Connected, Stopped

(* It has been greeted before.                                             *)
LEMMA Greeted ==
  ASSUME Inv, NEW k \in Sockets, NEW p \in Processes, sock[k] = p, ~HelloDue(k)
  PROVE  /\ worker[p].pc \in {"serving", "killed", "exited"}
         /\ worker[p].pc = "serving" => conn[p] = "open"
<1>1. OnSocket(p) /\ Connected(p)
  BY DEF OnSocket, Inv, ProcessOK
<1> QED
  BY <1>1 DEF Connected, Stopped

(* A process whose last reply the coordinator has read.                    *)
LEMMA Answered ==
  ASSUME Inv, TypeOK', NEW k \in Sockets, NEW p \in Processes, sock[k] = p,
         UNCHANGED <<sock, worker, conn, inbox, backlog>>, at <= at',
         replies'[p] = <<>>, inbox[p] = <<>>, worker[p].owed = 0,
         worker[p].pc \in {"serving", "killed", "exited"},
         worker[p].pc = "serving" => conn[p] = "open",
         ~HelloDue(k)',
         \A l \in Sockets : ~AtLatency(l)' /\ ~AtAck(l)'
  PROVE  ProcessOK(p)'
<1>1. Connected(p)'
  BY Attached
<1>2. ~Asked(p)' /\ ~Warned(p)'
  BY DEF Asked, Warned
<1>3. Exchange(p)'
  BY <1>2 DEF Exchange, Quiet, Silent
<1>4. Budget(p)'
  BY <1>2, BudgetKept DEF Inv, ProcessOK
<1> QED
  BY <1>1, <1>3, <1>4 DEF ProcessOK

(* What Receive does.                                                      *)
LEMMA Receiving ==
  ASSUME Inv, Socket \in Sockets, NEW type, Receive(type)
  PROVE  /\ Peer \in Processes /\ replies[Peer] # <<>>
         /\ replies[Peer][1].type = type
         /\ replies' \in [Processes -> Seq(Hail \cup Measurement \cup Receipt)]
         /\ replies'[Peer] = Tail(replies[Peer])
         /\ \A q \in Processes : q # Peer => replies'[q] = replies[q]
<1>1. Peer \in Processes
  BY DEF Inv, TypeOK, Receive, Peer
<1>2. replies[Peer] \in Seq(Hail \cup Measurement \cup Receipt) /\ replies[Peer] # <<>>
  BY <1>1 DEF Inv, TypeOK, Receive
<1>3. /\ Head(replies[Peer]) = replies[Peer][1]
      /\ Tail(replies[Peer]) \in Seq(Hail \cup Measurement \cup Receipt)
  BY <1>2, Tails
<1> QED
  BY <1>1, <1>2, <1>3 DEF Inv, TypeOK, Receive

LEMMA HelloInv ==
  ASSUME Inv, Hello
  PROVE  Inv'
<1>1. PICK k \in Sockets :
        /\ k = Socket
        /\ \/ k = "a" /\ at \in {5, 32}
           \/ k = "b" /\ at \in {6, 34}
           \/ k = "a2" /\ at = 26
  BY Calls DEF Inv, TypeOK, Hello, Row, Sockets
<1>2. PICK p \in Processes : p = Peer
  BY <1>1, Receiving DEF Hello
<1>3. /\ at' = at + 1 /\ left' = left /\ epoch' = epoch /\ seen' = seen
      /\ UNCHANGED <<sock, worker, backlog, conn, inbox>>
  BY GovernorFrame DEF Hello, Go, network
<1>4. /\ replies[p] # <<>>
      /\ replies' \in [Processes -> Seq(Hail \cup Measurement \cup Receipt)]
      /\ replies'[p] = Tail(replies[p])
      /\ \A q \in Processes : q # p => replies'[q] = replies[q]
  BY <1>1, <1>2, Receiving DEF Hello
<1>5. /\ at' \in 1..49 /\ at <= at'
      /\ (at' <= 29 => at <= 29)
      /\ ~(at' \in 8..23) /\ ~(at' \in 8..19) /\ ~(at' \in 36..48)
      /\ ~(at' \in 10..19 \/ at' \in 41..44)
      /\ at' \in 1..9 \/ at' \in 31..40 => at \in 1..9 \/ at \in 31..40
  <2>1. \A i \in {5, 6, 26, 32, 34} :
          /\ i + 1 \in 1..49 /\ i <= i + 1
          /\ (i + 1 <= 29 => i <= 29)
          /\ ~(i + 1 \in 8..23) /\ ~(i + 1 \in 8..19) /\ ~(i + 1 \in 36..48)
          /\ ~(i + 1 \in 10..19 \/ i + 1 \in 41..44)
          /\ i + 1 \in 1..9 \/ i + 1 \in 31..40 => i \in 1..9 \/ i \in 31..40
    OBVIOUS
  <2>2. at \in {5, 6, 26, 32, 34}
    BY <1>1
  <2> QED
    BY <1>3, <2>1, <2>2
<1>6. TypeOK'
  BY <1>3, <1>4, <1>5 DEF Inv, TypeOK
<1>7. /\ HelloDue(k) /\ ~HelloDue(k)'
      /\ \A l \in Sockets : l # k => (HelloDue(l)' <=> HelloDue(l))
      /\ \A l \in Sockets :
           /\ Opened(l)' <=> Opened(l)
           /\ ~AtLatency(l) /\ ~AtLatency(l)' /\ ~AtAck(l) /\ ~AtAck(l)'
  <2>1. CASE k = "a" /\ at = 5 /\ at' = 6
    BY <2>1 DEF Sockets, Opened, HelloDue, AtLatency, AtAck
  <2>2. CASE k = "a" /\ at = 32 /\ at' = 33
    BY <2>2 DEF Sockets, Opened, HelloDue, AtLatency, AtAck
  <2>3. CASE k = "b" /\ at = 6 /\ at' = 7
    BY <2>3 DEF Sockets, Opened, HelloDue, AtLatency, AtAck
  <2>4. CASE k = "b" /\ at = 34 /\ at' = 35
    BY <2>4 DEF Sockets, Opened, HelloDue, AtLatency, AtAck
  <2>5. CASE k = "a2" /\ at = 26 /\ at' = 27
    BY <2>5 DEF Sockets, Opened, HelloDue, AtLatency, AtAck
  <2> QED
    BY <1>1, <1>3, <2>1, <2>2, <2>3, <2>4, <2>5
<1>8. SocketsOK'
  <2>1. \A l \in Sockets : (Opened(l)' <=> Opened(l)) /\ (HelloDue(l)' => HelloDue(l))
    BY <1>7
  <2> QED
    BY <1>3, <1>5, <2>1, SocketsKept DEF Inv
<1>9. Born' /\ BacklogOK'
  BY <1>3, <1>5, <1>6, BornKept DEF Inv, BacklogOK
<1>10. sock[k] = p
  BY <1>1, <1>2 DEF Peer
<1>11. ASSUME NEW q \in Processes
       PROVE  ProcessOK(q)' /\ Received(q)' = Received(q)
  <2>1. ~Asked(q) /\ ~Warned(q) /\ ~Asked(q)' /\ ~Warned(q)'
    BY <1>7 DEF Asked, Warned
  <2>2. Received(q)' = Received(q) /\ Received(q) \in Nat
    BY <1>3, <2>1 DEF Received, Inv, TypeOK
  <2>3. CASE q # p
    <3>1. Backlogged(q)' => Backlogged(q)
      BY <1>3 DEF Backlogged
    <3>2. \A l \in Sockets :
            /\ sock'[l] = q <=> sock[l] = q
            /\ sock[l] = q => /\ HelloDue(l)' <=> HelloDue(l)
                              /\ AtLatency(l)' <=> AtLatency(l)
                              /\ AtAck(l)' <=> AtAck(l)
      BY <1>3, <1>7, <1>10, <2>3
    <3> QED
      BY <1>3, <1>4, <1>5, <1>6, <2>1, <2>2, <2>3, <3>1, <3>2, Bystander DEF Inv
  <2>4. CASE q = p
    <3>1. Unread(p)
      BY <1>7, <1>10 DEF Inv, ProcessOK, Connected
    <3>2. Len(replies[p]) = 1 /\ worker[p].pc = "serving"
      BY <1>4, <3>1 DEF Unread
    <3>3. replies'[p] = <<>>
      <4>1. replies[p] \in Seq(Hail \cup Measurement \cup Receipt)
        BY DEF Inv, TypeOK
      <4> QED
        BY <1>4, <3>2, <4>1, LastOne
    <3>4. inbox[p] = <<>> /\ worker[p].owed = 0 /\ conn[p] = "open"
      BY <3>1 DEF Unread
    <3> QED
      BY <1>3, <1>5, <1>6, <1>7, <1>10, <2>2, <2>4, <3>2, <3>3, <3>4, Answered
  <2> QED
    BY <2>3, <2>4
<1>12. SeenOK'
  BY <1>3, <1>5 DEF Inv, SeenOK
<1> QED
  BY <1>6, <1>8, <1>9, <1>11, <1>12 DEF Inv

LEMMA AckInv ==
  ASSUME Inv, Ack
  PROVE  Inv'
<1>1. Socket = "b" /\ at = 15 /\ Socket \in Sockets
  BY Calls DEF Inv, TypeOK, Ack, Row, Sockets
<1>2. PICK p \in Processes : p = Peer
  BY <1>1, Receiving DEF Ack
<1>3. /\ at' = 16 /\ left' = left /\ epoch' = epoch /\ seen' = seen
      /\ UNCHANGED <<sock, worker, backlog, conn, inbox>>
  BY <1>1, GovernorFrame DEF Ack, Go, network
<1>4. /\ replies[p] # <<>>
      /\ replies' \in [Processes -> Seq(Hail \cup Measurement \cup Receipt)]
      /\ replies'[p] = Tail(replies[p])
      /\ \A q \in Processes : q # p => replies'[q] = replies[q]
  BY <1>1, <1>2, Receiving DEF Ack
<1>5. sock["b"] = p /\ "b" \in Sockets
  BY <1>1, <1>2 DEF Peer, Sockets
<1>6. TypeOK'
  <2>1. at' \in 1..49
    BY <1>3
  <2>2. /\ epoch' \in Nat /\ left' \in Nat
        /\ sock' \in [Sockets -> Processes \cup {Nobody}]
        /\ backlog' \in Seq(Processes)
        /\ worker' \in [Processes -> [pc : PCs, epoch : Nat, counter : Nat,
                                      owed : Nat, latency : Nat]]
        /\ conn' \in [Processes -> {"none", "open", "closed"}]
        /\ inbox' \in [Processes -> Seq(Order)]
    BY <1>3 DEF Inv, TypeOK
  <2> QED
    BY <1>4, <2>1, <2>2 DEF TypeOK
<1>7. /\ \A l \in Sockets :
           /\ Opened(l)' <=> Opened(l)
           /\ ~HelloDue(l) /\ ~HelloDue(l)'
           /\ ~AtLatency(l) /\ ~AtLatency(l)' /\ ~AtAck(l)'
      /\ \A l \in Sockets : AtAck(l) <=> l = "b"
  BY <1>1, <1>3 DEF Sockets, Opened, HelloDue, AtLatency, AtAck
<1>8. SocketsOK'
  BY <1>1, <1>3, <1>7, SocketsKept DEF Inv
<1>9. Born' /\ BacklogOK'
  BY <1>1, <1>3, <1>6, BornKept DEF Inv, BacklogOK
<1>10. ASSUME NEW q \in Processes
       PROVE  ProcessOK(q)' /\ Received(q)' = Received(q)
  <2>1. ~Asked(q) /\ ~Asked(q)'
    BY <1>7 DEF Asked
  <2>2. Received(q)' = Received(q)
    BY <1>3, <2>1 DEF Received
  <2>3. CASE q # p
    <3>1. Backlogged(q)' => Backlogged(q)
      BY <1>3 DEF Backlogged
    <3>2. \A l \in Sockets :
            /\ sock'[l] = q <=> sock[l] = q
            /\ sock[l] = q => /\ HelloDue(l)' <=> HelloDue(l)
                              /\ AtLatency(l)' <=> AtLatency(l)
                              /\ AtAck(l)' <=> AtAck(l)
      BY <1>3, <1>5, <1>7, <2>3
    <3> QED
      BY <1>1, <1>3, <1>4, <1>6, <2>1, <2>3, <3>1, <3>2, Bystander DEF Inv
  <2>4. CASE q = p
    <3>1. Warned(p)
      BY <1>5, <1>7 DEF Warned
    <3>2. Acknowledging(p)
      BY <3>1 DEF Inv, ProcessOK, Exchange
    <3>3. Len(replies[p]) = 1 /\ inbox[p] = <<>> /\ worker[p].owed = 0
      BY <1>4, <3>2 DEF Acknowledging, Ordered
    <3>4. replies'[p] = <<>>
      <4>1. replies[p] \in Seq(Hail \cup Measurement \cup Receipt)
        BY DEF Inv, TypeOK
      <4> QED
        BY <1>4, <3>3, <4>1, LastOne
    <3>5. /\ worker[p].pc \in {"serving", "killed", "exited"}
          /\ worker[p].pc = "serving" => conn[p] = "open"
      BY <1>5, <1>7, Greeted
    <3> QED
      BY <1>1, <1>3, <1>5, <1>6, <1>7, <2>2, <2>4, <3>3, <3>4, <3>5, Answered
  <2> QED
    BY <2>3, <2>4
<1>11. SeenOK'
  BY <1>1, <1>3, <1>10, SeenKept DEF Inv
<1> QED
  BY <1>6, <1>8, <1>9, <1>10, <1>11 DEF Inv

LEMMA TellInv ==
  ASSUME Inv, Tell
  PROVE  Inv'
<1>1. PICK k \in Sockets :
        /\ k = Socket
        /\ \/ /\ \/ k = "a" /\ at \in {9, 40}
                 \/ k = "b" /\ at \in {11, 16, 42}
              /\ At("report") /\ Send("REPORT", Arg) /\ left' = ReportSize
           \/ k = "b" /\ at = 14 /\ Send("INTERVENTION", 0) /\ left' = left
           \/ /\ \/ k = "a" /\ at \in {38, 46}
                 \/ k = "b" /\ at \in {39, 47}
              /\ Send("SET_EPOCH", epoch) \/ Send("SHUTDOWN", 0)
              /\ left' = left
  <2>1. At("report") => \/ Socket = "a" /\ at \in {9, 40}
                        \/ Socket = "b" /\ at \in {11, 16, 42}
    BY Calls DEF Inv, TypeOK, Row
  <2>2. At("intervene") => Socket = "b" /\ at = 14
    BY Calls DEF Inv, TypeOK, Row
  <2>3. /\ At("set_epoch") => \/ Socket = "a" /\ at = 38
                              \/ Socket = "b" /\ at = 39
        /\ At("shutdown") => \/ Socket = "a" /\ at = 46
                             \/ Socket = "b" /\ at = 47
    BY Calls DEF Inv, TypeOK, Row
  <2>4. /\ At("report") \/ At("intervene") \/ At("set_epoch") \/ At("shutdown")
        /\ At("report") => Send("REPORT", Arg) /\ left' = ReportSize
        /\ At("intervene") => Send("INTERVENTION", 0) /\ left' = left
        /\ At("set_epoch") => Send("SET_EPOCH", epoch) /\ left' = left
        /\ At("shutdown") => Send("SHUTDOWN", 0) /\ left' = left
    BY Table DEF Tell, At
  <2> QED
    BY <2>1, <2>2, <2>3, <2>4 DEF Sockets
<1>2. /\ at' = at + 1 /\ epoch' = epoch /\ seen' = seen
      /\ UNCHANGED <<sock, worker, backlog, conn, replies>>
  BY GovernorFrame DEF Tell, network
<1>3. PICK m \in Order :
        /\ \/ /\ m.type = "REPORT" /\ left' = ReportSize
              /\ \/ k = "a" /\ at \in {9, 40}
                 \/ k = "b" /\ at \in {11, 16, 42}
           \/ m.type = "INTERVENTION" /\ left' = left /\ k = "b" /\ at = 14
           \/ /\ m.type \in {"SET_EPOCH", "SHUTDOWN"} /\ left' = left
              /\ \/ k = "a" /\ at \in {38, 46}
                 \/ k = "b" /\ at \in {39, 47}
        /\ Peer # Nobody
        /\ inbox' = [inbox EXCEPT ![Peer] = Append(@, m)]
  <2>1. \A t \in {"REPORT", "INTERVENTION", "SET_EPOCH", "SHUTDOWN"}, v \in Nat :
          /\ [type |-> t, value |-> v] \in Order
          /\ [type |-> t, value |-> v].type = t
    BY DEF Order
  <2>2. epoch \in Nat /\ (At("report") => Arg \in Nat)
    BY Arguments DEF Inv, TypeOK
  <2> QED
    BY <1>1, <2>1, <2>2 DEF Send
<1>4. PICK p \in Processes : p = Peer /\ sock[k] = p
  BY <1>1, <1>3 DEF Inv, TypeOK, Peer
<1>5. at \in {9, 11, 14, 16, 38, 39, 40, 42, 46, 47}
  BY <1>3
<1>6. /\ at' \in 1..49 /\ at <= at'
      /\ at' <= 29 => at <= 29
      /\ at' \in 8..23 => at \in 8..23
      /\ at' \in 8..19 => at \in 8..19
      /\ at' \in 36..48 => at \in 36..48
      /\ at' \in 1..9 \/ at' \in 31..40 => at \in 1..9 \/ at \in 31..40
      /\ at' \in 10..19 \/ at' \in 41..44 => at \in 1..19 \/ at \in 31..44
  <2>1. \A i \in {9, 11, 14, 16, 38, 39, 40, 42, 46, 47} :
          /\ i + 1 \in 1..49 /\ i <= i + 1
          /\ i + 1 <= 29 => i <= 29
          /\ i + 1 \in 8..23 => i \in 8..23
          /\ i + 1 \in 8..19 => i \in 8..19
          /\ i + 1 \in 36..48 => i \in 36..48
          /\ i + 1 \in 1..9 \/ i + 1 \in 31..40 => i \in 1..9 \/ i \in 31..40
          /\ i + 1 \in 10..19 \/ i + 1 \in 41..44 => i \in 1..19 \/ i \in 31..44
    OBVIOUS
  <2> QED
    BY <1>2, <1>5, <2>1
<1>7. /\ inbox[p] \in Seq(Order)
      /\ inbox' \in [Processes -> Seq(Order)]
      /\ inbox'[p] = Append(inbox[p], m)
      /\ \A q \in Processes : q # p => inbox'[q] = inbox[q]
  <2>1. inbox \in [Processes -> Seq(Order)]
    BY DEF Inv, TypeOK
  <2>2. inbox' = [inbox EXCEPT ![p] = Append(inbox[p], m)]
    BY <1>3, <1>4
  <2> QED
    BY <2>1, <2>2
<1>8. TypeOK'
  <2>1. left' = ReportSize \/ left' = left
    BY <1>3
  <2>2. left \in Nat
    BY DEF Inv, TypeOK
  <2>3. left' \in Nat
    BY <2>1, <2>2, SizeOfReport
  <2>4. /\ epoch' \in Nat
        /\ sock' \in [Sockets -> Processes \cup {Nobody}]
        /\ backlog' \in Seq(Processes)
        /\ worker' \in [Processes -> [pc : PCs, epoch : Nat, counter : Nat,
                                      owed : Nat, latency : Nat]]
        /\ conn' \in [Processes -> {"none", "open", "closed"}]
        /\ replies' \in [Processes -> Seq(Hail \cup Measurement \cup Receipt)]
    BY <1>2 DEF Inv, TypeOK
  <2> QED
    BY <1>6, <1>7, <2>3, <2>4 DEF TypeOK
<1>9. /\ \A l \in Sockets :
           /\ Opened(l)' <=> Opened(l)
           /\ ~HelloDue(l) /\ ~HelloDue(l)' /\ ~AtLatency(l) /\ ~AtAck(l)
           /\ AtLatency(l)' <=> l = k /\ m.type = "REPORT"
           /\ AtAck(l)' <=> l = k /\ m.type = "INTERVENTION"
  <2>1. \A l \in Sockets :
          /\ Opened(l)' <=> Opened(l)
          /\ ~HelloDue(l) /\ ~HelloDue(l)' /\ ~AtLatency(l) /\ ~AtAck(l)
    BY <1>2, <1>5 DEF Sockets, Opened, HelloDue, AtLatency, AtAck
  <2>2. CASE k = "a" /\ at \in {9, 40} /\ m.type = "REPORT"
    <3>1. at' \in {10, 41}
      BY <1>2, <2>2
    <3> QED
      BY <2>1, <2>2, <3>1 DEF Sockets, AtLatency, AtAck
  <2>3. CASE k = "b" /\ at \in {11, 16, 42} /\ m.type = "REPORT"
    <3>1. at' \in {12, 17, 43}
      BY <1>2, <2>3
    <3> QED
      BY <2>1, <2>3, <3>1 DEF Sockets, AtLatency, AtAck
  <2>4. CASE k = "b" /\ at = 14 /\ m.type = "INTERVENTION"
    <3>1. at' = 15
      BY <1>2, <2>4
    <3> QED
      BY <2>1, <2>4, <3>1 DEF Sockets, AtLatency, AtAck
  <2>5. CASE at \in {38, 39, 46, 47} /\ m.type \in {"SET_EPOCH", "SHUTDOWN"}
    <3>1. at' \in {39, 40, 47, 48}
      BY <1>2, <2>5
    <3> QED
      BY <2>1, <2>5, <3>1 DEF Sockets, AtLatency, AtAck
  <2> QED
    BY <1>3, <2>2, <2>3, <2>4, <2>5
<1>10. SocketsOK'
  <2>1. \A l \in Sockets : (Opened(l)' <=> Opened(l)) /\ (HelloDue(l)' => HelloDue(l))
    BY <1>9
  <2> QED
    BY <1>2, <1>6, <2>1, SocketsKept DEF Inv
<1>11. Born' /\ BacklogOK'
  BY <1>2, <1>6, <1>8, BornKept DEF Inv, BacklogOK
<1>12. /\ Silent(p) /\ replies[p] = <<>>
       /\ worker[p].owed \in Nat /\ worker[p].counter \in Nat
       /\ Budget(p)
       /\ ~Asked(p) /\ ~Warned(p)
  <2>1. ~Asked(p) /\ ~Warned(p)
    BY <1>9 DEF Asked, Warned
  <2>2. Quiet(p) /\ Budget(p)
    BY <2>1 DEF Inv, ProcessOK, Exchange
  <2> QED
    BY <1>4, <1>9, <2>1, <2>2 DEF Quiet, Inv, TypeOK
<1>13. ASSUME NEW q \in Processes
       PROVE  ProcessOK(q)' /\ Received(q)' = Received(q)
  <2>1. ~Asked(q)
    BY <1>9 DEF Asked
  <2>2. CASE q # p
    <3>1. Backlogged(q)' => Backlogged(q)
      BY <1>2 DEF Backlogged
    <3>2. \A l \in Sockets :
            /\ sock'[l] = q <=> sock[l] = q
            /\ sock[l] = q => /\ HelloDue(l)' <=> HelloDue(l)
                              /\ AtLatency(l)' <=> AtLatency(l)
                              /\ AtAck(l)' <=> AtAck(l)
      BY <1>2, <1>4, <1>9, <2>2
    <3> QED
      BY <1>2, <1>6, <1>7, <1>8, <2>1, <2>2, <3>1, <3>2, Bystander DEF Inv
  <2>3. CASE q = p
    <3>1. Connected(p)'
      BY <1>2, <1>4, <1>9, Attached, Greeted
    <3>2. (Asked(p)' <=> m.type = "REPORT") /\ (Warned(p)' <=> m.type = "INTERVENTION")
      BY <1>2, <1>4, <1>9, Cast DEF Asked, Warned, Inv, SocketsOK
    <3>3. /\ inbox'[p] # <<>> /\ inbox'[p][Len(inbox'[p])] = m
          /\ \A i \in 1..Len(inbox'[p])-1 : inbox'[p][i].type \in {"SET_EPOCH", "SHUTDOWN"}
          /\ \A i \in DOMAIN inbox'[p] :
               inbox'[p][i].type \in {"SET_EPOCH", "SHUTDOWN"} \/ inbox'[p][i] = m
      BY <1>7, <1>12, Appended DEF Silent
    <3>4. worker'[p].owed = 0 /\ replies'[p] = <<>>
      BY <1>2, <1>12 DEF Silent
    <3>5. Ordered(p, m.type)'
      BY <3>3, <3>4 DEF Ordered
    <3>6. m.type \in {"SET_EPOCH", "SHUTDOWN"} => Quiet(p)'
      BY <3>3, <3>4 DEF Quiet, Silent
    <3>7. m.type = "REPORT" => Reporting(p)'
      BY <1>3, <3>5 DEF Reporting
    <3>8. m.type = "INTERVENTION" => Acknowledging(p)'
      BY <3>5 DEF Acknowledging
    <3>9. Exchange(p)'
      BY <1>3, <3>2, <3>6, <3>7, <3>8 DEF Exchange
    <3>10. Budget(p)'
      <4>1. CASE m.type = "REPORT"
        <5>1. worker'[p].counter <= 100000 * at /\ worker'[p].counter \in Nat
          BY <1>2, <1>12 DEF Budget
        <5>2. at \in Int /\ left' \in Nat /\ left' <= 100000
          <6>1. left' = ReportSize
            BY <1>3, <4>1
          <6> QED
            BY <1>5, <6>1, SizeOfReport
        <5>3. \A c, l \in Nat : \A i \in Int :
                c <= 100000 * i /\ l <= 100000 => c + l <= 100000 * (i + 1)
          OBVIOUS
        <5>4. worker'[p].counter + left' <= 100000 * (at + 1)
          BY <5>1, <5>2, <5>3
        <5> QED
          BY <1>2, <3>2, <3>5, <4>1, <5>4 DEF Budget
      <4>2. CASE m.type # "REPORT"
        BY <1>2, <1>6, <1>8, <1>12, <3>2, <4>2, BudgetKept DEF Inv
      <4> QED
        BY <4>1, <4>2
    <3>11. Received(p)' = Received(p)
      BY <1>2, <1>12, <3>4 DEF Received
    <3> QED
      BY <2>3, <3>1, <3>9, <3>10, <3>11 DEF ProcessOK
  <2> QED
    BY <2>2, <2>3
<1>14. SeenOK'
  BY <1>2, <1>6, <1>13, SeenKept DEF Inv
<1> QED
  BY <1>8, <1>10, <1>11, <1>13, <1>14 DEF Inv

LEMMA Requests ==
  ASSUME TypeOK, NEW p \in Processes, NEW i \in DOMAIN replies[p],
         replies[p][i].type = "LATENCY"
  PROVE  replies[p][i].event.request \in Nat
<1>1. replies[p] \in Seq(Hail \cup Measurement \cup Receipt)
  BY DEF TypeOK
<1>2. \A x \in Hail \cup Receipt : x.type # "LATENCY"
  BY DEF Hail, Receipt
<1>3. \A x \in Measurement : x.event.request \in Nat
  BY DEF Measurement
<1> QED
  BY <1>1, <1>2, <1>3

LEMMA LatencyInv ==
  ASSUME Inv, Latency
  PROVE  Inv'
<1>1. PICK k \in Sockets :
        /\ k = Socket
        /\ \/ k = "a" /\ at \in {10, 41}
           \/ k = "b" /\ at \in {12, 17, 43}
  BY Calls DEF Inv, TypeOK, Latency, Row, Sockets
<1>2. PICK p \in Processes : p = Peer /\ sock[k] = p
  BY <1>1, Receiving DEF Latency, Peer
<1>3. /\ at' = (IF left = 1 THEN at + 1 ELSE at) /\ left' = left - 1 /\ epoch' = epoch
      /\ seen' \subseteq seen \cup {Head(replies[p]).event.request}
      /\ UNCHANGED <<sock, worker, backlog, conn, inbox>>
  BY <1>2, GovernorFrame DEF Latency, network
<1>4. /\ replies[p] # <<>>
      /\ replies' \in [Processes -> Seq(Hail \cup Measurement \cup Receipt)]
      /\ replies'[p] = Tail(replies[p])
      /\ \A q \in Processes : q # p => replies'[q] = replies[q]
  BY <1>1, <1>2, Receiving DEF Latency
<1>5. /\ AtLatency(k) /\ ~HelloDue(k) /\ ~HelloDue(k)' /\ (AtLatency(k)' <=> at' = at)
      /\ \A l \in Sockets :
           /\ Opened(l)' <=> Opened(l)
           /\ ~HelloDue(l) /\ ~HelloDue(l)'
           /\ ~AtAck(l) /\ ~AtAck(l)'
           /\ l # k => ~AtLatency(l) /\ ~AtLatency(l)'
  <2>1. CASE at' = at
    BY <1>1, <2>1 DEF Sockets, Opened, HelloDue, AtLatency, AtAck
  <2>2. CASE at' = at + 1
    BY <1>1, <2>2 DEF Sockets, Opened, HelloDue, AtLatency, AtAck
  <2> QED
    BY <1>3, <2>1, <2>2
<1>6. /\ at' \in 1..49 /\ at <= at'
      /\ at' <= 29 => at <= 29
      /\ at' \in 8..23 => at \in 8..23
      /\ at' \in 8..19 => at \in 8..19
      /\ at' \in 36..48 => at \in 36..48
      /\ at \in 10..19 \/ at \in 41..44
      /\ ~(at' \in 1..9) /\ ~(at' \in 31..40)
  <2>1. \A i \in {10, 12, 17, 41, 43} : \A j \in {i, i + 1} :
          /\ j \in 1..49 /\ i <= j
          /\ j <= 29 => i <= 29
          /\ j \in 8..23 => i \in 8..23
          /\ j \in 8..19 => i \in 8..19
          /\ j \in 36..48 => i \in 36..48
          /\ i \in 10..19 \/ i \in 41..44
          /\ ~(j \in 1..9) /\ ~(j \in 31..40)
    OBVIOUS
  <2>2. at \in {10, 12, 17, 41, 43} /\ at' \in {at, at + 1}
    BY <1>1, <1>3
  <2> QED
    BY <2>1, <2>2
<1>7. Asked(p) /\ ~Warned(p) /\ ~Warned(p)' /\ (Asked(p)' <=> left # 1)
  <2>1. at' = at <=> left # 1
    BY <1>3 DEF Inv, TypeOK
  <2> QED
    BY <1>2, <1>3, <1>5, <2>1 DEF Asked, Warned
<1>8. /\ inbox[p] = <<>>
      /\ Len(replies[p]) + worker[p].owed = left
      /\ Len(replies[p]) <= worker[p].counter
      /\ \A i \in DOMAIN replies[p] :
           /\ replies[p][i].type = "LATENCY"
           /\ replies[p][i].event.request + Len(replies[p]) + 1
                = Number(p, worker[p].counter) + i
  <2>1. Reporting(p)
    BY <1>7 DEF Inv, ProcessOK, Exchange
  <2> QED
    BY <1>4, <2>1 DEF Reporting, Ordered
<1>9. /\ Head(replies[p]) = replies[p][1] /\ 1 \in DOMAIN replies[p]
      /\ Len(replies[p]) \in Nat \ {0} /\ Len(replies'[p]) = Len(replies[p]) - 1
      /\ \A i \in DOMAIN replies'[p] :
           i \in Nat \ {0} /\ i + 1 \in DOMAIN replies[p] /\ replies'[p][i] = replies[p][i+1]
  <2>1. replies[p] \in Seq(Hail \cup Measurement \cup Receipt)
    BY DEF Inv, TypeOK
  <2> QED
    BY <1>4, <2>1, Tails, EmptySeq
<1>10. /\ worker[p].owed \in Nat /\ worker[p].counter \in Nat /\ left \in Nat \ {0}
       /\ WorkerId(p) \in Nat
       /\ \A m \in Measurement : m.event.request \in Nat
  <2>1. worker[p].owed \in Nat /\ worker[p].counter \in Nat
    BY DEF Inv, TypeOK
  <2> QED
    BY <1>8, <1>9, <2>1 DEF WorkerId, Measurement
<1>a. \A i \in DOMAIN replies[p] : replies[p][i].event.request \in Nat
  BY <1>8, Requests DEF Inv
<1>b. Len(replies[p]) + worker[p].owed = left /\ Len(replies[p]) <= worker[p].counter
  BY <1>8
<1>c. Len(replies[p]) \in Nat \ {0} /\ Len(replies'[p]) = Len(replies[p]) - 1
  BY <1>9
<1>d. worker[p].owed \in Nat /\ worker[p].counter \in Nat
  BY <1>10
<1>e. /\ Len(replies'[p]) + worker'[p].owed = left'
      /\ Len(replies'[p]) <= worker'[p].counter
      /\ left = 1 => Len(replies[p]) = 1 /\ worker[p].owed = 0
      /\ worker[p].counter - Len(replies[p]) \in Nat
      /\ worker[p].counter - Len(replies'[p]) = worker[p].counter - Len(replies[p]) + 1
  <2>1. PICK n \in Nat \ {0} : n = Len(replies[p])
    BY <1>c
  <2>2. PICK o \in Nat : o = worker[p].owed
    BY <1>d
  <2>3. PICK c \in Nat : c = worker[p].counter
    BY <1>d
  <2>4. n + o = left /\ n <= c
    BY <1>b, <2>1, <2>2, <2>3
  <2>5. /\ n - 1 + o = left - 1 /\ n - 1 <= c
        /\ left = 1 => n = 1 /\ o = 0
        /\ c - n \in Nat /\ c - (n - 1) = c - n + 1
    BY <2>4
  <2>6. left' = left - 1 /\ worker'[p].owed = o /\ worker'[p].counter = c /\ Len(replies'[p]) = n - 1
    BY <1>c, <1>3, <2>1, <2>2, <2>3
  <2> QED
    BY <2>1, <2>2, <2>3, <2>5, <2>6
<1>11. TypeOK'
  <2>1. left' \in Nat
    BY <1>3, <1>10
  <2> QED
    BY <1>3, <1>4, <1>6, <2>1 DEF Inv, TypeOK
<1>12. SocketsOK'
  <2>1. \A l \in Sockets : (Opened(l)' <=> Opened(l)) /\ (HelloDue(l)' => HelloDue(l))
    BY <1>5
  <2> QED
    BY <1>3, <1>6, <2>1, SocketsKept DEF Inv
<1>13. Born' /\ BacklogOK'
  BY <1>3, <1>6, <1>11, BornKept DEF Inv, BacklogOK
<1>14. ASSUME NEW q \in Processes, q # p
       PROVE  ProcessOK(q)' /\ Received(q)' = Received(q)
  <2>1. ~Asked(q)
    BY <1>2, <1>5, <1>14 DEF Asked
  <2>2. Backlogged(q)' => Backlogged(q)
    BY <1>3 DEF Backlogged
  <2>3. \A l \in Sockets :
          /\ sock'[l] = q <=> sock[l] = q
          /\ sock[l] = q => /\ HelloDue(l)' <=> HelloDue(l)
                            /\ AtLatency(l)' <=> AtLatency(l)
                            /\ AtAck(l)' <=> AtAck(l)
    BY <1>2, <1>3, <1>5, <1>14
  <2> QED
    BY <1>3, <1>4, <1>6, <1>11, <1>14, <2>1, <2>2, <2>3, Bystander DEF Inv
<1>15. Received(p)' = Received(p) + 1 /\ Received(p) \in Nat
  <2>1. Received(p) = worker[p].counter - Len(replies[p])
    BY <1>7 DEF Received
  <2>2. Received(p)' = IF left # 1 THEN worker[p].counter - Len(replies'[p]) ELSE worker[p].counter
    BY <1>3, <1>7 DEF Received
  <2>3. left = 1 => worker[p].counter = worker[p].counter - Len(replies[p]) + 1
    <3>1. PICK c \in Nat : c = worker[p].counter
      BY <1>d
    <3>2. c = c - 1 + 1
      OBVIOUS
    <3> QED
      BY <1>e, <3>1, <3>2
  <2> QED
    BY <1>e, <2>1, <2>2, <2>3
<1>16. ProcessOK(p)'
  <2>1. /\ worker[p].pc \in {"serving", "killed", "exited"}
        /\ worker[p].pc = "serving" => conn[p] = "open"
    BY <1>2, <1>5, Greeted
  <2>2. CASE left = 1
    <3>1. Len(replies[p]) = 1 /\ worker[p].owed = 0
      BY <1>e, <2>2
    <3>2. replies'[p] = <<>>
      <4>1. replies[p] \in Seq(Hail \cup Measurement \cup Receipt)
        BY DEF Inv, TypeOK
      <4> QED
        BY <1>4, <3>1, <4>1, LastOne
    <3>3. \A l \in Sockets : ~AtLatency(l)' /\ ~AtAck(l)'
      BY <1>2, <1>3, <1>5, <1>7, <2>2 DEF Asked
    <3> QED
      BY <1>2, <1>3, <1>5, <1>6, <1>8, <1>11, <2>1, <3>1, <3>2, <3>3, Answered
  <2>3. CASE left # 1
    <3>1. Connected(p)'
      BY <1>2, <1>3, <1>5, <2>1, Attached
    <3>2. Reporting(p)'
      <4>1. inbox'[p] = <<>>
        BY <1>3, <1>8
      <4>3. ASSUME NEW i \in DOMAIN replies'[p]
            PROVE  /\ replies'[p][i].type = "LATENCY"
                   /\ replies'[p][i].event.request + Len(replies'[p]) + 1
                        = Number(p, worker'[p].counter) + i
        <5>1. /\ i \in Nat /\ i + 1 \in DOMAIN replies[p]
              /\ replies'[p][i] = replies[p][i+1]
          BY <1>9
        <5>2. PICK r \in Nat : r = replies[p][i+1].event.request
          BY <1>a, <5>1
        <5>3. PICK n \in Nat : n = Len(replies[p])
          BY <1>c
        <5>4. r + n + 1 = Number(p, worker[p].counter) + (i + 1)
          BY <1>8, <5>1, <5>2, <5>3
        <5>5. PICK c \in Nat : c = Number(p, worker[p].counter)
          BY <1>10 DEF Number
        <5>6. r + (n - 1) + 1 = c + i
          BY <5>1, <5>4, <5>5
        <5>7. Len(replies'[p]) = n - 1
          BY <1>c, <5>3
        <5>8. replies'[p][i].event.request = r /\ Number(p, worker'[p].counter) = c
          BY <1>3, <5>1, <5>2, <5>5
        <5>9. replies'[p][i].type = "LATENCY"
          BY <1>8, <5>1
        <5> QED
          BY <5>6, <5>7, <5>8, <5>9
      <4> QED
        BY <1>e, <4>1, <4>3 DEF Reporting
    <3>3. Budget(p)'
      BY <1>3, <1>7, <1>8, <2>3 DEF Inv, ProcessOK, Budget, Ordered
    <3> QED
      BY <1>7, <2>3, <3>1, <3>2, <3>3 DEF ProcessOK, Exchange
  <2> QED
    BY <2>2, <2>3
<1>17. SeenOK'
  <2>1. Head(replies[p]).event.request = Number(p, Received(p))
    <3>1. PICK r \in Nat : r = replies[p][1].event.request
      BY <1>a, <1>9
    <3>2. PICK n \in Nat : n = Len(replies[p])
      BY <1>c
    <3>3. PICK c \in Nat : c = worker[p].counter
      BY <1>d
    <3>4. PICK w \in Nat : w = WorkerId(p) * 1000000
      BY <1>10
    <3>5. r + n + 1 = w + c + 1
      BY <1>8, <1>9, <3>1, <3>2, <3>3, <3>4 DEF Number
    <3>6. r = w + (c - n)
      BY <3>5
    <3>7. Received(p) = c - n
      BY <1>7, <3>2, <3>3 DEF Received
    <3>8. Number(p, Received(p)) = w + Received(p)
      BY <3>4 DEF Number
    <3>9. Head(replies[p]).event.request = r
      BY <1>9, <3>1
    <3> QED
      BY <3>6, <3>7, <3>8, <3>9
  <2>2. \A q \in Processes : \A n \in 0..Received(q)-1 : n \in 0..Received(q)'-1
    BY <1>14, <1>15
  <2>3. Received(p) \in 0..Received(p)'-1
    BY <1>15
  <2>4. ASSUME NEW r \in seen'
        PROVE  (\E q \in Processes :
                  /\ sock["a"] = q \/ sock["b"] = q
                  /\ \E n \in 0..Received(q)-1 : r = Number(q, n))'
    <3>1. CASE r \in seen
      <4>1. PICK q \in Processes :
              /\ sock["a"] = q \/ sock["b"] = q
              /\ \E n \in 0..Received(q)-1 : r = Number(q, n)
        BY <1>6, <3>1 DEF Inv, SeenOK
      <4>2. \E n \in 0..Received(q)'-1 : r = Number(q, n)
        BY <2>2, <4>1
      <4> QED
        BY <1>3, <4>1, <4>2
    <3>2. CASE r = Number(p, Received(p))
      <4>1. \E n \in 0..Received(p)'-1 : r = Number(p, n)
        BY <2>3, <3>2
      <4>2. sock'["a"] = p \/ sock'["b"] = p
        BY <1>1, <1>2, <1>3
      <4> QED
        BY <4>1, <4>2
    <3> QED
      BY <1>3, <2>1, <2>4, <3>1, <3>2
  <2> QED
    BY <1>6, <2>4 DEF SeenOK
<1> QED
  BY <1>11, <1>12, <1>13, <1>14, <1>16, <1>17 DEF Inv

-----------------------------------------------------------------------------
LEMMA KillInv ==
  ASSUME Inv, Kill
  PROVE  Inv'
<1>1. /\ at = 20 /\ Socket = "a" /\ Peer = A1 /\ sock["a"] = A1
      /\ A1 \in Processes /\ "a" \in Sockets
  <2>1. at = 20 /\ Socket = "a"
    BY Calls DEF Inv, TypeOK, Kill, Row
  <2>2. sock["a"] = A1
    BY <2>1 DEF Inv, SocketsOK
  <2> QED
    BY <2>1, <2>2, Cast DEF Peer, Sockets
<1>2. /\ at' = 21 /\ left' = left /\ epoch' = epoch
      /\ UNCHANGED <<sock, backlog, inbox, replies>>
  BY <1>1, GovernorFrame DEF Kill, Go
<1>3. /\ worker' \in [Processes -> [pc : PCs, epoch : Nat, counter : Nat,
                                    owed : Nat, latency : Nat]]
      /\ worker'[A1].pc = "killed" /\ worker'[A1].owed = worker[A1].owed
      /\ worker'[A1].counter = worker[A1].counter
      /\ \A q \in Processes : q # A1 => worker'[q] = worker[q]
  <2>1. PICK p \in Processes : p = A1
    BY <1>1
  <2>2. worker' = [worker EXCEPT ![p].pc = "killed"] /\ "killed" \in PCs
    BY <2>1 DEF Kill, PCs
  <2>3. worker \in [Processes -> [pc : PCs, epoch : Nat, counter : Nat,
                                 owed : Nat, latency : Nat]]
    BY DEF Inv, TypeOK
  <2>4. /\ worker' \in [Processes -> [pc : PCs, epoch : Nat, counter : Nat,
                                      owed : Nat, latency : Nat]]
        /\ worker'[p].pc = "killed" /\ worker'[p].owed = worker[p].owed
        /\ worker'[p].counter = worker[p].counter
        /\ \A q \in Processes : q # p => worker'[q] = worker[q]
    BY <2>2, <2>3
  <2> QED
    BY <2>1, <2>4
<1>4. /\ conn' \in [Processes -> {"none", "open", "closed"}]
      /\ \A q \in Processes : q # A1 => conn'[q] = conn[q]
  BY <1>1 DEF Kill, Inv, TypeOK
<1>5. TypeOK'
  <2>1. /\ epoch' \in Nat /\ left' \in Nat /\ at' \in 1..49
        /\ sock' \in [Sockets -> Processes \cup {Nobody}]
        /\ backlog' \in Seq(Processes)
        /\ inbox' \in [Processes -> Seq(Order)]
        /\ replies' \in [Processes -> Seq(Hail \cup Measurement \cup Receipt)]
    BY <1>2 DEF Inv, TypeOK
  <2>2. worker' \in [Processes -> [pc : PCs, epoch : Nat, counter : Nat,
                                  owed : Nat, latency : Nat]]
    BY <1>3
  <2> QED
    BY <1>4, <2>1, <2>2 DEF TypeOK
<1>6. \A l \in Sockets :
        /\ Opened(l)' <=> Opened(l)
        /\ ~HelloDue(l) /\ ~HelloDue(l)'
        /\ ~AtLatency(l) /\ ~AtLatency(l)' /\ ~AtAck(l) /\ ~AtAck(l)'
  BY <1>1, <1>2 DEF Sockets, Opened, HelloDue, AtLatency, AtAck
<1>7. SocketsOK'
  BY <1>1, <1>2, <1>6, SocketsKept DEF Inv
<1>8. \A p \in Processes : ~Asked(p) /\ ~Warned(p) /\ ~Asked(p)' /\ ~Warned(p)'
  BY <1>6 DEF Asked, Warned
<1>9. Born' /\ BacklogOK'
  <2>1. worker[A1].pc # "unborn"
    BY <1>1, <1>6, Greeted
  <2>2. \A p \in Processes : worker[p].pc = "unborn" => worker'[p].pc = "unborn"
    BY <1>3, <2>1
  <2> QED
    BY <1>1, <1>2, <1>5, <2>2, BornKept DEF Inv, BacklogOK
<1>10. ASSUME NEW q \in Processes
       PROVE  ProcessOK(q)'
  <2>1. CASE q # A1
    <3>1. Backlogged(q)' => Backlogged(q)
      BY <1>2 DEF Backlogged
    <3> QED
      BY <1>1, <1>2, <1>3, <1>4, <1>5, <1>6, <1>8, <2>1, <3>1, Bystander DEF Inv
  <2>2. CASE q = A1
    <3>1. Connected(q)'
      BY <1>1, <1>2, <1>3, <1>6, <2>2, Attached
    <3>2. Quiet(q)
      BY <1>8 DEF Inv, ProcessOK, Exchange
    <3>3. Exchange(q)'
      BY <1>2, <1>3, <1>6, <1>8, <2>2, <3>2 DEF Exchange, Quiet, Silent
    <3>4. Budget(q)'
      BY <1>1, <1>2, <1>3, <1>5, <1>8, <2>2, BudgetKept DEF Inv, ProcessOK
    <3> QED
      BY <3>1, <3>3, <3>4 DEF ProcessOK
  <2> QED
    BY <2>1, <2>2
<1>11. SeenOK'
  BY <1>2 DEF SeenOK
<1> QED
  BY <1>5, <1>7, <1>9, <1>10, <1>11 DEF Inv

LEMMA ExitInv ==
  ASSUME Inv, Exit
  PROVE  Inv'
<1>1. at \in {29, 48}
  BY Calls DEF Inv, TypeOK, Exit, Row
<1>2. /\ at' = at + 1 /\ left' = left /\ epoch' = epoch /\ backlog' = <<>>
      /\ UNCHANGED <<worker, inbox, replies>>
  BY GovernorFrame DEF Exit, Go
<1>3. at' \in {30, 49} /\ at <= at' /\ at' \in 1..49
  BY <1>1, <1>2
<1>4. /\ sock' \in [Sockets -> Processes \cup {Nobody}]
      /\ \A k \in Sockets : sock'[k] = Nobody
  BY DEF Exit, Inv, TypeOK
<1>5. conn' \in [Processes -> {"none", "open", "closed"}]
  BY DEF Exit, Inv, TypeOK
<1>6. TypeOK'
  BY <1>2, <1>3, <1>4, <1>5 DEF Inv, TypeOK
<1>7. \A l \in Sockets :
        /\ ~Opened(l)' /\ ~HelloDue(l)'
        /\ ~AtLatency(l) /\ ~AtAck(l)
  BY <1>1, <1>3 DEF Sockets, Opened, HelloDue, AtLatency, AtAck
<1>8. SocketsOK'
  <2>1. ~(at' <= 29) /\ ~(at' \in 8..23) /\ ~(at' \in 8..19)
    BY <1>3
  <2>2. "a" \in Sockets /\ "b" \in Sockets
    BY DEF Sockets
  <2> QED
    BY <1>4, <1>7, <2>1, <2>2 DEF SocketsOK
<1>9. Born' /\ BacklogOK'
  BY <1>2, <1>3, <1>6, BornKept DEF Inv, BacklogOK
<1>10. ASSUME NEW q \in Processes
       PROVE  ProcessOK(q)'
  <2>1. ~OnSocket(q)' /\ ~Backlogged(q)'
    BY <1>2, <1>4, Cast DEF OnSocket, Backlogged
  <2>2. ~Asked(q) /\ ~Warned(q) /\ ~Asked(q)' /\ ~Warned(q)'
    BY <1>7, <2>1 DEF Asked, Warned, OnSocket
  <2>3. Connected(q)'
    BY <1>2, <2>1 DEF Inv, ProcessOK, Connected, OnSocket
  <2>4. Quiet(q)
    BY <2>2 DEF Inv, ProcessOK, Exchange
  <2>5. Exchange(q)'
    BY <1>2, <2>1, <2>2, <2>4 DEF Exchange, Quiet, Silent, OnSocket
  <2>6. Budget(q)'
    BY <1>2, <1>3, <1>6, <2>2, BudgetKept DEF Inv, ProcessOK
  <2> QED
    BY <2>3, <2>5, <2>6 DEF ProcessOK
<1>11. SeenOK'
  BY <1>3 DEF SeenOK
<1> QED
  BY <1>6, <1>8, <1>9, <1>10, <1>11 DEF Inv

LEMMA AssignInv ==
  ASSUME Inv, Assign
  PROVE  Inv'
<1>1. at = 35
  BY Calls DEF Inv, TypeOK, Assign, Row
<1>2. /\ at' = 36 /\ left' = left /\ epoch' = epoch /\ seen' = seen
      /\ UNCHANGED <<worker, backlog, conn, inbox, replies>>
  BY <1>1, Table DEF Assign, Proceed, network
<1>3. \A l \in Sockets :
        /\ Opened(l) <=> l # "a2"
        /\ Opened(l)' <=> l # "a2"
        /\ ~HelloDue(l) /\ ~HelloDue(l)'
        /\ ~AtLatency(l) /\ ~AtLatency(l)' /\ ~AtAck(l) /\ ~AtAck(l)'
  BY <1>1, <1>2 DEF Sockets, Opened, HelloDue, AtLatency, AtAck
<1>4. /\ sock["a"] \in Processes \cup {Nobody} /\ sock["b"] \in Processes \cup {Nobody}
      /\ sock["a2"] = Nobody
  BY <1>3 DEF Inv, TypeOK, SocketsOK, Sockets
<1>5. /\ sock' \in [Sockets -> Processes \cup {Nobody}]
      /\ sock'["a"] = Named("A") /\ sock'["b"] = Named("B") /\ sock'["a2"] = Nobody
  <2>1. /\ Named("A") \in Processes \cup {Nobody}
        /\ Named("B") \in Processes \cup {Nobody}
    BY <1>4 DEF Named
  <2>2. sock' = [sock EXCEPT !["a"] = Named("A"), !["b"] = Named("B")]
    BY DEF Assign
  <2> QED
    BY <1>4, <2>1, <2>2 DEF Inv, TypeOK, Sockets
<1>6. /\ Named("A") # Nobody => Named("A").name = "A"
      /\ Named("B") # Nobody => Named("B").name = "B"
  BY DEF Named
<1>7. \A p \in Processes : OnSocket(p)' => OnSocket(p)
  BY <1>5, Cast DEF OnSocket, Named, Sockets
<1>8. TypeOK'
  BY <1>1, <1>2, <1>5 DEF Inv, TypeOK
<1>9. SocketsOK'
  <2>1. \A k, l \in Sockets : sock'[k] = sock'[l] /\ sock'[k] # Nobody => k = l
    BY <1>5, <1>6 DEF Sockets
  <2>2. ~(at' <= 29) /\ ~(at' \in 8..23) /\ ~(at' \in 8..19)
    BY <1>2
  <2> QED
    BY <1>3, <1>5, <1>6, <2>1, <2>2 DEF SocketsOK
<1>10. Born' /\ BacklogOK'
  BY <1>1, <1>2, <1>8, BornKept DEF Inv, BacklogOK
<1>11. ASSUME NEW q \in Processes
       PROVE  ProcessOK(q)'
  <2>1. ~Asked(q) /\ ~Warned(q) /\ ~Asked(q)' /\ ~Warned(q)'
    BY <1>3 DEF Asked, Warned
  <2>2. Connected(q) /\ Quiet(q)
    BY <2>1 DEF Inv, ProcessOK, Exchange
  <2>3. Connected(q)'
    <3>1. Backlogged(q)' <=> Backlogged(q)
      BY <1>2 DEF Backlogged
    <3>2. OnSocket(q)' => Stopped(q)' \/ (worker'[q].pc = "serving" /\ conn'[q] = "open")
      BY <1>2, <1>3, <1>7, <2>2 DEF Connected, OnSocket, Stopped
    <3>3. Unread(q)' <=> Unread(q)
      BY <1>2 DEF Unread
    <3> QED
      BY <1>2, <1>3, <1>7, <2>2, <3>1, <3>2, <3>3 DEF Connected, OnSocket
  <2>4. Quiet(q)'
    BY <1>2, <1>3, <1>7, <2>2 DEF Quiet, Silent, OnSocket
  <2>5. Exchange(q)'
    BY <2>1, <2>4 DEF Exchange
  <2>6. Budget(q)'
    BY <1>1, <1>2, <1>8, <2>1, BudgetKept DEF Inv, ProcessOK
  <2> QED
    BY <2>3, <2>5, <2>6 DEF ProcessOK
<1>12. SeenOK'
  BY <1>1, <1>2 DEF Inv, SeenOK
<1> QED
  BY <1>8, <1>9, <1>10, <1>11, <1>12 DEF Inv

-----------------------------------------------------------------------------
(* A step of one worker: nobody else and no socket is concerned.           *)
LEMMA WorkerStep ==
  ASSUME Inv, TypeOK', NEW p \in Processes, UNCHANGED coordinator, BacklogOK',
         \A q \in Processes : q # p =>
           /\ worker'[q] = worker[q] /\ conn'[q] = conn[q]
           /\ inbox'[q] = inbox[q] /\ replies'[q] = replies[q]
           /\ Backlogged(q)' => Backlogged(q),
         worker[p].pc # "unborn",
         ProcessOK(p)', Received(p)' = Received(p)
  PROVE  Inv'
<1>1. /\ epoch' = epoch /\ seen' = seen /\ at' = at /\ left' = left
      /\ sock' = sock
  BY GovernorFrame DEF coordinator
<1>2. at <= at'
  <2>1. PICK i \in Int : at = i
    BY DEF Inv, TypeOK
  <2> QED
    BY <1>1, <2>1
<1>3. \A l \in Sockets :
        /\ Opened(l)' <=> Opened(l)
        /\ HelloDue(l)' <=> HelloDue(l)
        /\ AtLatency(l)' <=> AtLatency(l)
        /\ AtAck(l)' <=> AtAck(l)
  BY <1>1 DEF Opened, HelloDue, AtLatency, AtAck
<1>4. SocketsOK'
  BY <1>1, <1>3 DEF Inv, SocketsOK
<1>5. Born'
  <2>1. \A q \in Processes : worker[q].pc = "unborn" => worker'[q].pc = "unborn"
    OBVIOUS
  <2> QED
    BY <1>2, <2>1, BornKept DEF Inv
<1>6. \A q \in Processes : ProcessOK(q)' /\ Received(q)' = Received(q)
  <2>1. ASSUME NEW q \in Processes, q # p
        PROVE  ProcessOK(q)' /\ Received(q)' = Received(q)
    BY <1>1, <1>2, <1>3, <2>1, Bystander DEF Inv
  <2> QED
    BY <2>1
<1>7. SeenOK'
  BY <1>1, <1>6, SeenKept DEF Inv
<1> QED
  BY <1>4, <1>5, <1>6, <1>7 DEF Inv

(* What it leaves alone. *)
LEMMA Stage ==
  ASSUME Inv, UNCHANGED coordinator
  PROVE  /\ at' = at /\ left' = left /\ sock' = sock /\ epoch' = epoch /\ at <= at'
         /\ \A l \in Sockets :
              /\ HelloDue(l)' <=> HelloDue(l)
              /\ HelloDue(l) => ~AtLatency(l) /\ ~AtAck(l)
         /\ \A q : OnSocket(q)' <=> OnSocket(q)
         /\ \A q : Asked(q)' <=> Asked(q)
         /\ \A q : Warned(q)' <=> Warned(q)
         /\ \A q : ~(Asked(q) /\ Warned(q))
         /\ \A q : Asked(q) \/ Warned(q) => \E l \in Sockets : sock[l] = q /\ ~HelloDue(l)
<1>1. at' = at /\ left' = left /\ sock' = sock /\ epoch' = epoch
  BY GovernorFrame DEF coordinator
<1>2. PICK i \in Int : at = i
  BY DEF Inv, TypeOK
<1>3. at <= at'
  BY <1>1, <1>2
<1>4. \A l \in Sockets :
        /\ HelloDue(l)' <=> HelloDue(l)
        /\ AtLatency(l)' <=> AtLatency(l)
        /\ AtAck(l)' <=> AtAck(l)
  BY <1>1 DEF HelloDue, AtLatency, AtAck
<1>5. \A l \in Sockets : HelloDue(l) => ~AtLatency(l) /\ ~AtAck(l)
  BY <1>2 DEF Sockets, HelloDue, AtLatency, AtAck
<1>6. \A l, m \in Sockets : ~(AtLatency(l) /\ AtAck(m))
  BY <1>2 DEF Sockets, AtLatency, AtAck
<1> QED
  BY <1>1, <1>3, <1>4, <1>5, <1>6 DEF OnSocket, Asked, Warned

LEMMA ConnectInv ==
  ASSUME Inv, NEW p \in Processes, Connect(p)
  PROVE  Inv'
<1>1. UNCHANGED coordinator /\ worker[p].pc = "connecting"
  BY DEF Connect
<1>2. /\ worker' \in [Processes -> [pc : PCs, epoch : Nat, counter : Nat,
                                    owed : Nat, latency : Nat]]
      /\ worker'[p].pc = "greeting" /\ worker'[p].owed = worker[p].owed
      /\ worker'[p].counter = worker[p].counter
      /\ \A q \in Processes : q # p => worker'[q] = worker[q]
  BY DEF Connect, Inv, TypeOK, PCs
<1>3. /\ conn' \in [Processes -> {"none", "open", "closed"}]
      /\ conn'[p] = "open"
      /\ \A q \in Processes : q # p => conn'[q] = conn[q]
  BY DEF Connect, Inv, TypeOK
<1>4. /\ inbox' \in [Processes -> Seq(Order)]
      /\ inbox'[p] = <<>>
      /\ \A q \in Processes : q # p => inbox'[q] = inbox[q]
  BY DEF Connect, Inv, TypeOK
<1>5. /\ replies' \in [Processes -> Seq(Hail \cup Measurement \cup Receipt)]
      /\ replies'[p] = <<>>
      /\ \A q \in Processes : q # p => replies'[q] = replies[q]
  <2>1. replies \in [Processes -> Seq(Hail \cup Measurement \cup Receipt)]
    BY DEF Inv, TypeOK
  <2>2. replies' = [replies EXCEPT ![p] = <<>>]
    BY DEF Connect
  <2>3. <<>> \in Seq(Hail \cup Measurement \cup Receipt)
    OBVIOUS
  <2> QED
    BY <2>1, <2>2, <2>3
<1>6. /\ backlog \in Seq(Processes) /\ backlog' \in Seq(Processes)
      /\ Len(backlog) \in Nat
      /\ DOMAIN backlog' = 1..Len(backlog) + 1 /\ DOMAIN backlog = 1..Len(backlog)
      /\ \A i \in DOMAIN backlog' :
           IF i \in DOMAIN backlog THEN backlog'[i] = backlog[i]
           ELSE i = Len(backlog) + 1 /\ backlog'[i] = p
  <2>1. backlog \in Seq(Processes) /\ backlog' = Append(backlog, p)
    BY DEF Connect, Inv, TypeOK
  <2> QED
    BY <2>1
<1>7. TypeOK'
  BY <1>1, <1>2, <1>3, <1>4, <1>5, <1>6, Stage DEF Inv, TypeOK
<1>8. ~OnSocket(p) /\ ~Backlogged(p) /\ ~Asked(p) /\ ~Warned(p) /\ Quiet(p)
  <2>1. ~OnSocket(p) /\ ~Backlogged(p)
    BY <1>1 DEF Inv, ProcessOK, Connected
  <2> QED
    BY <2>1 DEF Inv, ProcessOK, Exchange, Asked, Warned, OnSocket
<1>9. ~OnSocket(p)' /\ ~Asked(p)' /\ ~Warned(p)'
  BY <1>1, <1>8, Stage
<1>10. BacklogOK'
  BY <1>6, <1>8 DEF Inv, BacklogOK, Backlogged
<1>11. \A q \in Processes : q # p => (Backlogged(q)' => Backlogged(q))
  BY <1>6 DEF Backlogged
<1>12. Unread(p)'
  BY <1>2, <1>3, <1>4, <1>5, <1>8 DEF Unread, Quiet, Silent
<1>13. Connected(p)'
  BY <1>2, <1>4, <1>5, <1>9, <1>12 DEF Connected, OnSocket
<1>14. Exchange(p)'
  BY <1>2, <1>4, <1>5, <1>8, <1>9 DEF Exchange, Quiet, Silent
<1>15. Budget(p)'
  BY <1>1, <1>2, <1>7, <1>9, BudgetKept, Stage DEF Inv, ProcessOK
<1>16. Received(p)' = Received(p)
  BY <1>2, <1>8, <1>9 DEF Received
<1> QED
  BY <1>1, <1>2, <1>3, <1>4, <1>5, <1>7, <1>10, <1>11, <1>13, <1>14, <1>15, <1>16,
     WorkerStep DEF ProcessOK

LEMMA GreetInv ==
  ASSUME Inv, NEW p \in Processes, Greet(p)
  PROVE  Inv'
<1>1. /\ UNCHANGED coordinator /\ UNCHANGED <<backlog, conn, inbox>>
      /\ worker[p].pc = "greeting" /\ conn[p] = "open"
  BY DEF Greet
<1>2. /\ worker' \in [Processes -> [pc : PCs, epoch : Nat, counter : Nat,
                                    owed : Nat, latency : Nat]]
      /\ worker'[p].pc = "serving" /\ worker'[p].owed = worker[p].owed
      /\ worker'[p].counter = worker[p].counter
      /\ \A q \in Processes : q # p => worker'[q] = worker[q]
  BY DEF Greet, Inv, TypeOK, PCs
<1>3. inbox[p] = <<>> /\ replies[p] = <<>>
  BY <1>1 DEF Inv, ProcessOK, Connected
<1>4. PICK hello \in Hail :
        hello.type = "HELLO" /\ replies' = [replies EXCEPT ![p] = Append(@, hello)]
  <2>1. [type |-> "HELLO", name |-> p.name] \in Hail
    BY Names DEF Hail
  <2> QED
    BY <2>1 DEF Greet, Reply
<1>5. /\ replies' \in [Processes -> Seq(Hail \cup Measurement \cup Receipt)]
      /\ replies'[p] = <<hello>>
      /\ \A q \in Processes : q # p => replies'[q] = replies[q]
  BY <1>3, <1>4 DEF Inv, TypeOK
<1>6. TypeOK'
  BY <1>1, <1>2, <1>5, Stage DEF Inv, TypeOK
<1>7. \A l \in Sockets : sock[l] = p => HelloDue(l)
  BY <1>1, Greeted
<1>8. ~Asked(p) /\ ~Warned(p) /\ ~Asked(p)' /\ ~Warned(p)' /\ Quiet(p)
  <2>1. ~Asked(p) /\ ~Warned(p) /\ ~Asked(p)' /\ ~Warned(p)'
    BY <1>1, <1>7, Stage
  <2> QED
    BY <2>1 DEF Inv, ProcessOK, Exchange
<1>9. Unread(p)'
  BY <1>1, <1>2, <1>3, <1>4, <1>5, <1>8 DEF Unread, Quiet, Silent
<1>10. /\ Backlogged(p)' => ~OnSocket(p)'
       /\ \A l \in Sockets : sock'[l] = p => HelloDue(l)'
  <2>1. Backlogged(p)' <=> Backlogged(p)
    BY <1>1 DEF Backlogged
  <2>2. Backlogged(p) => ~OnSocket(p)
    BY DEF Inv, ProcessOK, Connected
  <2> QED
    BY <1>1, <1>7, <2>1, <2>2, Stage
<1>11. Connected(p)'
  BY <1>2, <1>9, <1>10 DEF Connected
<1>12. Exchange(p)'
  BY <1>1, <1>2, <1>3, <1>4, <1>5, <1>8, <1>10 DEF Exchange, Quiet, Silent
<1>13. Budget(p)'
  BY <1>1, <1>2, <1>6, <1>8, BudgetKept, Stage DEF Inv, ProcessOK
<1>14. Received(p)' = Received(p)
  BY <1>2, <1>8 DEF Received
<1>15. BacklogOK' /\ \A q \in Processes : Backlogged(q)' => Backlogged(q)
  BY <1>1 DEF Inv, BacklogOK, Backlogged
<1> QED
  BY <1>1, <1>2, <1>5, <1>6, <1>11, <1>12, <1>13, <1>14, <1>15, WorkerStep
     DEF ProcessOK

LEMMA LoseInv ==
  ASSUME Inv, NEW p \in Processes, Lose(p)
  PROVE  Inv'
<1>1. /\ UNCHANGED coordinator /\ UNCHANGED <<backlog, conn, inbox, replies>>
      /\ worker[p].pc \in {"greeting", "serving"} /\ conn[p] = "closed"
  BY DEF Lose
<1>2. /\ worker' \in [Processes -> [pc : PCs, epoch : Nat, counter : Nat,
                                    owed : Nat, latency : Nat]]
      /\ worker'[p].pc = "connecting" /\ worker'[p].owed = 0
      /\ worker'[p].counter = worker[p].counter
      /\ \A q \in Processes : q # p => worker'[q] = worker[q]
  BY DEF Lose, Inv, TypeOK, PCs
<1>3. TypeOK'
  BY <1>1, <1>2, Stage DEF Inv, TypeOK
<1>4. ~OnSocket(p) /\ ~Backlogged(p)
  <2>1. Connected(p)
    BY DEF Inv, ProcessOK
  <2> QED
    BY <1>1, <2>1 DEF Connected, OnSocket, Unread, Stopped
<1>5. ~OnSocket(p)' /\ ~Backlogged(p)'
  BY <1>1, <1>4, Stage DEF Backlogged
<1>6. ProcessOK(p)' /\ Received(p)' = Received(p)
  BY <1>1, <1>2, <1>3, <1>4, <1>5, Offstage, Stage DEF Inv
<1>7. BacklogOK' /\ \A q \in Processes : Backlogged(q)' => Backlogged(q)
  BY <1>1 DEF Inv, BacklogOK, Backlogged
<1> QED
  BY <1>1, <1>2, <1>3, <1>6, <1>7, WorkerStep

(* A worker that serves and has something to do has been greeted.          *)
LEMMA Standing ==
  ASSUME Inv, NEW p \in Processes, UNCHANGED coordinator, UNCHANGED <<backlog, conn>>,
         worker[p].pc = "serving", inbox[p] # <<>> \/ worker[p].owed # 0,
         worker'[p].pc \in {"serving", "exited"}
  PROVE  /\ Connected(p)' /\ BacklogOK'
         /\ \A q \in Processes : Backlogged(q)' => Backlogged(q)
         /\ \A l \in Sockets : sock[l] = p => ~HelloDue(l) /\ ~HelloDue(l)'
<1>1. Connected(p) /\ ~Unread(p)
  BY DEF Inv, ProcessOK, Unread
<1>2. ~Backlogged(p) /\ ~Backlogged(p)'
  BY <1>1 DEF Connected, Backlogged
<1>3. \A l \in Sockets : sock[l] = p => ~HelloDue(l) /\ ~HelloDue(l)'
  BY <1>1, Stage DEF Connected
<1>4. \A l \in Sockets : sock[l] = p => conn[p] = "open"
  BY <1>3, Greeted
<1>5. Connected(p)'
  BY <1>2, <1>3, <1>4, Stage DEF Connected, Stopped
<1> QED
  BY <1>3, <1>5 DEF Inv, BacklogOK, Backlogged

LEMMA ServeInv ==
  ASSUME Inv, NEW p \in Processes, Serve(p)
  PROVE  Inv'
<1>1. /\ UNCHANGED coordinator /\ UNCHANGED <<backlog, conn>>
      /\ worker[p].pc = "serving" /\ worker[p].owed = 0 /\ inbox[p] # <<>>
  BY DEF Serve
<1>2. inbox[p] \in Seq(Order) /\ inbox' = [inbox EXCEPT ![p] = Tail(inbox[p])]
  BY DEF Serve, Inv, TypeOK
<1>3. PICK m \in Order : m = Head(inbox[p]) /\ m = inbox[p][1]
  BY <1>1, <1>2, Tails
<1>4. /\ inbox' \in [Processes -> Seq(Order)]
      /\ inbox'[p] = Tail(inbox[p])
      /\ \A q \in Processes : q # p => inbox'[q] = inbox[q]
  <2>1. Tail(inbox[p]) \in Seq(Order)
    BY <1>1, <1>2, Tails
  <2> QED
    BY <1>2, <2>1 DEF Inv, TypeOK
<1>5. /\ worker' \in [Processes -> [pc : PCs, epoch : Nat, counter : Nat,
                                    owed : Nat, latency : Nat]]
      /\ worker'[p].pc \in {"serving", "exited"}
      /\ worker'[p].counter = worker[p].counter
      /\ worker'[p].owed = IF m.type = "REPORT" THEN ReportSize ELSE 0
      /\ \A q \in Processes : q # p => worker'[q] = worker[q]
      /\ m.type # "INTERVENTION" => replies' = replies
      /\ m.type = "INTERVENTION" =>
           replies' = [replies EXCEPT ![p] = Append(@, [type |-> "INTERVENTION_ACK"])]
  <2>1. \/ /\ m.type = "SHUTDOWN"
           /\ worker' = [worker EXCEPT ![p].pc = "exited"]
           /\ UNCHANGED replies
        \/ /\ m.type = "SET_EPOCH"
           /\ worker' = [worker EXCEPT ![p].epoch = m.value]
           /\ UNCHANGED replies
        \/ /\ m.type = "REPORT"
           /\ worker' = [worker EXCEPT ![p].owed = ReportSize, ![p].latency = m.value]
           /\ UNCHANGED replies
        \/ /\ m.type = "INTERVENTION"
           /\ Reply(p, [type |-> "INTERVENTION_ACK"])
           /\ UNCHANGED worker
    <3>1. m.type \in {"REPORT", "INTERVENTION", "SET_EPOCH", "SHUTDOWN"}
      BY DEF Order
    <3>2. Obey(p)
      BY DEF Serve
    <3> QED
      BY <1>3, <3>1, <3>2 DEF Obey
  <2>2. /\ worker \in [Processes -> [pc : PCs, epoch : Nat, counter : Nat,
                                     owed : Nat, latency : Nat]]
        /\ m.value \in Nat /\ ReportSize \in Nat
        /\ "exited" \in PCs
    <3>1. worker \in [Processes -> [pc : PCs, epoch : Nat, counter : Nat,
                                   owed : Nat, latency : Nat]]
      BY DEF Inv, TypeOK
    <3>2. m.value \in Nat
      BY DEF Order
    <3> QED
      BY <3>1, <3>2, SizeOfReport DEF PCs
  <2>3. CASE m.type = "SHUTDOWN"
    <3>1. worker' = [worker EXCEPT ![p].pc = "exited"] /\ UNCHANGED replies
      BY <2>1, <2>3
    <3> QED
      BY <1>1, <2>2, <2>3, <3>1
  <2>4. CASE m.type = "SET_EPOCH"
    <3>1. worker' = [worker EXCEPT ![p].epoch = m.value] /\ UNCHANGED replies
      BY <2>1, <2>4
    <3> QED
      BY <1>1, <2>2, <2>4, <3>1
  <2>5. CASE m.type = "REPORT"
    <3>1. /\ worker' = [worker EXCEPT ![p].owed = ReportSize, ![p].latency = m.value]
          /\ UNCHANGED replies
      BY <2>1, <2>5
    <3> QED
      BY <1>1, <2>2, <2>5, <3>1
  <2>6. CASE m.type = "INTERVENTION"
    <3>1. Reply(p, [type |-> "INTERVENTION_ACK"]) /\ UNCHANGED worker
      BY <2>1, <2>6
    <3> QED
      BY <1>1, <2>2, <2>6, <3>1 DEF Reply
  <2> QED
    BY <2>1, <2>3, <2>4, <2>5, <2>6
<1>6. /\ replies' \in [Processes -> Seq(Hail \cup Measurement \cup Receipt)]
      /\ \A q \in Processes : q # p => replies'[q] = replies[q]
  <2>1. PICK ack \in Receipt : ack = [type |-> "INTERVENTION_ACK"]
    BY DEF Receipt
  <2>2. replies \in [Processes -> Seq(Hail \cup Measurement \cup Receipt)]
    BY DEF Inv, TypeOK
  <2>3. CASE m.type = "INTERVENTION"
    <3>1. replies' = [replies EXCEPT ![p] = Append(replies[p], ack)]
      BY <1>5, <2>1, <2>3
    <3>2. Append(replies[p], ack) \in Seq(Hail \cup Measurement \cup Receipt)
      BY <2>2
    <3> QED
      BY <2>2, <3>1, <3>2
  <2>4. CASE m.type # "INTERVENTION"
    BY <1>5, <2>2, <2>4
  <2> QED
    BY <2>3, <2>4
<1>7. TypeOK'
  BY <1>1, <1>4, <1>5, <1>6, Stage DEF Inv, TypeOK
<1>8. /\ Connected(p)' /\ BacklogOK'
      /\ \A q \in Processes : Backlogged(q)' => Backlogged(q)
      /\ \A l \in Sockets : sock[l] = p => ~HelloDue(l) /\ ~HelloDue(l)'
  BY <1>1, <1>5, Standing
<1>9. /\ Len(inbox[p]) \in Nat \ {0} /\ Len(inbox'[p]) = Len(inbox[p]) - 1
      /\ DOMAIN inbox[p] = 1..Len(inbox[p])
      /\ \A i \in DOMAIN inbox'[p] :
           /\ i \in Nat \ {0} /\ i + 1 \in DOMAIN inbox[p]
           /\ inbox'[p][i] = inbox[p][i+1]
  BY <1>1, <1>2, <1>4, Tails, EmptySeq
<1>10. /\ Asked(p)' <=> Asked(p)
       /\ Warned(p)' <=> Warned(p)
       /\ ~(Asked(p) /\ Warned(p))
       /\ left' = left /\ at' = at /\ sock' = sock
       /\ Exchange(p) /\ Budget(p)
  BY <1>1, Stage DEF Inv, ProcessOK
<1>11. ASSUME NEW t \in {"REPORT", "INTERVENTION"}, Ordered(p, t)
       PROVE  IF m.type \in {"SET_EPOCH", "SHUTDOWN"} THEN Ordered(p, t)'
              ELSE m.type = t /\ inbox'[p] = <<>>
  <2>1. /\ replies[p] = <<>> /\ inbox[p][Len(inbox[p])].type = t
        /\ \A i \in 1..Len(inbox[p])-1 : inbox[p][i].type \in {"SET_EPOCH", "SHUTDOWN"}
    BY <1>11 DEF Ordered
  <2>2. \/ Len(inbox[p]) = 1
        \/ \E n \in Nat : n > 1 /\ n = Len(inbox[p])
    <3>1. \A n \in Nat \ {0} : n = 1 \/ n > 1
      OBVIOUS
    <3> QED
      BY <1>9, <3>1
  <2>3. CASE Len(inbox[p]) = 1
    <3>1. m.type = t
      BY <1>3, <2>1, <2>3
    <3>2. inbox'[p] = <<>>
      BY <1>2, <1>4, <2>3, LastOne
    <3> QED
      BY <1>11, <3>1, <3>2
  <2>4. CASE \E n \in Nat : n > 1 /\ n = Len(inbox[p])
    <3>1. m.type \in {"SET_EPOCH", "SHUTDOWN"}
      <4>1. PICK n \in Nat : n > 1 /\ n = Len(inbox[p])
        BY <2>4
      <4>2. 1 \in 1..n-1
        BY <4>1
      <4> QED
        BY <1>3, <2>1, <4>1, <4>2
    <3>2. worker'[p].owed = 0 /\ replies'[p] = <<>>
      BY <1>5, <2>1, <3>1
    <3>3. inbox'[p] # <<>> /\ inbox'[p][Len(inbox'[p])].type = t
      <4>1. PICK n \in Nat : n > 1 /\ n = Len(inbox[p])
        BY <2>4
      <4>2. Len(inbox'[p]) = n - 1 /\ n - 1 \in 1..n-1 /\ n - 1 + 1 = n
        BY <1>9, <4>1
      <4>3. DOMAIN inbox'[p] = 1..n-1
        BY <1>4, <4>2
      <4> QED
        BY <1>9, <2>1, <4>1, <4>2, <4>3
    <3>4. \A i \in 1..Len(inbox'[p])-1 : inbox'[p][i].type \in {"SET_EPOCH", "SHUTDOWN"}
      <4>1. PICK n \in Nat \ {0} : n = Len(inbox[p])
        BY <1>9
      <4>2. Len(inbox'[p]) = n - 1 /\ DOMAIN inbox'[p] = 1..n-1
        BY <1>4, <1>9, <4>1
      <4>3. \A i \in 1..n-1-1 : i \in 1..n-1 /\ i + 1 \in 1..n-1
        OBVIOUS
      <4> QED
        BY <1>9, <2>1, <4>1, <4>2, <4>3
    <3> QED
      BY <3>1, <3>2, <3>3, <3>4 DEF Ordered
  <2> QED
    BY <2>2, <2>3, <2>4
<1>12. Exchange(p)'
  <2>1. CASE Asked(p)
    <3>1. Reporting(p) /\ Ordered(p, "REPORT") /\ left = ReportSize
      BY <1>1, <1>10, <2>1 DEF Exchange, Reporting
    <3>2. CASE m.type \in {"SET_EPOCH", "SHUTDOWN"}
      BY <1>10, <1>11, <2>1, <3>1, <3>2 DEF Exchange, Reporting
    <3>3. CASE m.type \notin {"SET_EPOCH", "SHUTDOWN"}
      <4>1. /\ m.type = "REPORT" /\ inbox'[p] = <<>>
            /\ worker'[p].owed = ReportSize /\ replies'[p] = <<>>
            /\ worker'[p].counter \in Nat
        <5>1. m.type = "REPORT" /\ inbox'[p] = <<>>
          BY <1>11, <3>1, <3>3
        <5>2. replies[p] = <<>>
          BY <3>1 DEF Ordered
        <5>3. worker'[p].counter \in Nat
          BY <1>7 DEF TypeOK
        <5> QED
          BY <1>5, <5>1, <5>2, <5>3
      <4>2. Len(replies'[p]) = 0 /\ DOMAIN replies'[p] = {}
        BY <4>1
      <4>3. 0 + ReportSize = ReportSize /\ left' = ReportSize
        <5>1. left' = ReportSize
          BY <1>10, <3>1
        <5> QED
          BY <5>1, SizeOfReport
      <4>4. PICK c \in Nat : c = worker'[p].counter
        BY <4>1
      <4>5. Len(replies'[p]) <= worker'[p].counter
        BY <4>2, <4>4
      <4>6. Reporting(p)'
        BY <4>1, <4>2, <4>3, <4>5 DEF Reporting
      <4> QED
        BY <1>10, <2>1, <4>6 DEF Exchange
    <3> QED
      BY <3>2, <3>3
  <2>2. CASE Warned(p)
    <3>1. Acknowledging(p) /\ Ordered(p, "INTERVENTION")
      BY <1>1, <1>10, <2>2 DEF Exchange, Acknowledging
    <3>2. CASE m.type \in {"SET_EPOCH", "SHUTDOWN"}
      BY <1>10, <1>11, <2>2, <3>1, <3>2 DEF Exchange, Acknowledging
    <3>3. CASE m.type \notin {"SET_EPOCH", "SHUTDOWN"}
      <4>1. m.type = "INTERVENTION" /\ inbox'[p] = <<>> /\ worker'[p].owed = 0
        BY <1>5, <1>11, <3>1, <3>3
      <4>2. Len(replies'[p]) = 1 /\ replies'[p][1].type = "INTERVENTION_ACK"
        <5>1. PICK ack : ack = [type |-> "INTERVENTION_ACK"]
          OBVIOUS
        <5>2. replies'[p] = <<ack>>
          <6>1. replies' = [replies EXCEPT ![p] = Append(replies[p], ack)]
            BY <1>5, <4>1, <5>1
          <6>2. replies[p] = <<>> /\ p \in DOMAIN replies
            BY <3>1 DEF Ordered, Inv, TypeOK
          <6> QED
            BY <6>1, <6>2
        <5> QED
          BY <5>1, <5>2
      <4>3. Acknowledging(p)'
        BY <4>1, <4>2 DEF Acknowledging
      <4> QED
        BY <1>10, <2>2, <4>3 DEF Exchange
    <3> QED
      BY <3>2, <3>3
  <2>3. CASE ~Asked(p) /\ ~Warned(p)
    <3>1. Quiet(p)
      BY <1>10, <2>3 DEF Exchange
    <3>2. m.type \in {"SET_EPOCH", "SHUTDOWN"}
      BY <1>3, <1>9, <3>1 DEF Quiet, Silent
    <3>3. worker'[p].owed = 0 /\ replies'[p] = replies[p]
      BY <1>5, <3>2
    <3>4. \A i \in DOMAIN inbox'[p] : inbox'[p][i].type \in {"SET_EPOCH", "SHUTDOWN"}
      BY <1>9, <3>1 DEF Quiet, Silent
    <3>5. Quiet(p)'
      BY <1>8, <1>10, <3>1, <3>3, <3>4 DEF Quiet, Silent
    <3> QED
      BY <1>10, <2>3, <3>5 DEF Exchange
  <2> QED
    BY <2>1, <2>2, <2>3
<1>13. Budget(p)' /\ Received(p)' = Received(p)
  <2>1. CASE Asked(p)
    <3>1. Ordered(p, "REPORT") /\ left = ReportSize
      BY <1>1, <1>10, <2>1 DEF Exchange, Reporting
    <3>2. \/ m.type \in {"SET_EPOCH", "SHUTDOWN"} /\ Ordered(p, "REPORT")'
          \/ m.type = "REPORT" /\ inbox'[p] = <<>>
      BY <1>11, <3>1
    <3>3. replies'[p] = replies[p]
      BY <1>5, <3>2
    <3>4. IF Ordered(p, "REPORT")' THEN left' = ReportSize ELSE worker'[p].owed = ReportSize
      BY <1>5, <1>10, <3>1, <3>2
    <3>5. Budget(p)'
      BY <1>5, <1>10, <2>1, <3>1, <3>4 DEF Budget
    <3> QED
      BY <1>5, <1>10, <2>1, <3>3, <3>5 DEF Received
  <2>2. CASE ~Asked(p)
    BY <1>5, <1>10, <2>2 DEF Budget, Received
  <2> QED
    BY <2>1, <2>2
<1> QED
  BY <1>1, <1>4, <1>5, <1>6, <1>7, <1>8, <1>12, <1>13, WorkerStep DEF ProcessOK

LEMMA PublishInv ==
  ASSUME Inv, NEW p \in Processes, Publish(p)
  PROVE  Inv'
<1>1. /\ UNCHANGED coordinator /\ UNCHANGED <<backlog, conn, inbox>>
      /\ worker[p].pc = "serving" /\ worker[p].owed > 0
      /\ worker[p].owed \in Nat /\ worker[p].counter \in Nat
  BY DEF Publish, Inv, TypeOK
<1>2. /\ worker' \in [Processes -> [pc : PCs, epoch : Nat, counter : Nat,
                                    owed : Nat, latency : Nat]]
      /\ worker'[p].pc = "serving"
      /\ worker'[p].owed = worker[p].owed - 1
      /\ worker'[p].counter = worker[p].counter + 1
      /\ \A q \in Processes : q # p => worker'[q] = worker[q]
  <2>1. worker[p].owed - 1 \in Nat /\ worker[p].counter + 1 \in Nat
    BY <1>1
  <2> QED
    BY <1>1, <2>1 DEF Publish, Inv, TypeOK
<1>3. PICK m \in Measurement :
        /\ m.type = "LATENCY" /\ m.event.request = Number(p, worker[p].counter)
        /\ replies' = [replies EXCEPT ![p] = Append(replies[p], m)]
  <2>1. PICK ev : ev = Completion(p, worker[p].counter, worker[p].epoch, worker[p].latency)
    OBVIOUS
  <2>2. /\ worker[p].epoch \in Nat /\ worker[p].latency \in Nat
        /\ p.name \in {"A", "B"} /\ p.boot \in Nat
        /\ Number(p, worker[p].counter) \in Nat
    BY <1>1, Names DEF Inv, TypeOK, Number, WorkerId
  <2>3. /\ [type |-> "LATENCY", event |-> ev] \in Measurement
        /\ ev.request = Number(p, worker[p].counter)
    BY <2>1, <2>2 DEF Completion, Number, Measurement
  <2>4. replies' = [replies EXCEPT ![p] = Append(@, [type |-> "LATENCY", event |-> ev])]
    BY <2>1 DEF Publish, Reply
  <2> QED
    BY <2>3, <2>4
<1>4. /\ replies[p] \in Seq(Hail \cup Measurement \cup Receipt)
      /\ replies' \in [Processes -> Seq(Hail \cup Measurement \cup Receipt)]
      /\ replies'[p] = Append(replies[p], m)
      /\ \A q \in Processes : q # p => replies'[q] = replies[q]
  <2>1. replies \in [Processes -> Seq(Hail \cup Measurement \cup Receipt)]
    BY DEF Inv, TypeOK
  <2>2. Append(replies[p], m) \in Seq(Hail \cup Measurement \cup Receipt)
    BY <2>1
  <2> QED
    BY <1>3, <2>1, <2>2
<1>5. TypeOK'
  BY <1>1, <1>2, <1>4, Stage DEF Inv, TypeOK
<1>6. /\ Connected(p)' /\ BacklogOK'
      /\ \A q \in Processes : Backlogged(q)' => Backlogged(q)
  BY <1>1, <1>2, Standing
<1>7. Asked(p) /\ Asked(p)' /\ ~Warned(p)' /\ left' = left /\ at' = at
  <2>1. Warned(p) => worker[p].owed = 0
    BY DEF Inv, ProcessOK, Exchange, Acknowledging, Ordered
  <2>2. ~Asked(p) /\ ~Warned(p) => worker[p].owed = 0
    BY DEF Inv, ProcessOK, Exchange, Quiet, Silent
  <2> QED
    BY <1>1, <2>1, <2>2, Stage
<1>8. /\ inbox[p] = <<>>
      /\ Len(replies[p]) + worker[p].owed = left
      /\ Len(replies[p]) <= worker[p].counter
      /\ \A i \in DOMAIN replies[p] :
           /\ replies[p][i].type = "LATENCY"
           /\ replies[p][i].event.request + Len(replies[p]) + 1
                = Number(p, worker[p].counter) + i
  <2>1. Reporting(p)
    BY <1>7 DEF Inv, ProcessOK, Exchange
  <2> QED
    BY <1>1, <2>1 DEF Reporting, Ordered
<1>9. PICK n \in Nat : n = Len(replies[p])
  BY <1>4
<1>10. PICK o \in Nat : o = worker[p].owed
  BY <1>1
<1>11. PICK c \in Nat : c = worker[p].counter
  BY <1>1
<1>12. PICK w \in Nat : w = WorkerId(p) * 1000000
  BY DEF WorkerId
<1>13. /\ n + o = left /\ n <= c
       /\ Len(replies'[p]) = n + 1 /\ replies'[p] # <<>>
       /\ worker'[p].owed = o - 1 /\ worker'[p].counter = c + 1
       /\ left' = left
  <2>1. n + o = left /\ n <= c
    BY <1>8, <1>9, <1>10, <1>11
  <2>2. /\ m \in Hail \cup Measurement \cup Receipt
        /\ Len(replies'[p]) = Len(replies[p]) + 1 /\ replies'[p] # <<>>
    BY <1>4, Appended
  <2>3. worker'[p].owed = o - 1 /\ worker'[p].counter = c + 1 /\ left' = left
    BY <1>2, <1>7, <1>10, <1>11
  <2> QED
    BY <1>9, <2>1, <2>2, <2>3
<1>14. Number(p, worker[p].counter) = w + c /\ Number(p, worker'[p].counter) = w + c + 1
  BY <1>11, <1>12, <1>13 DEF Number
<1>15. ASSUME NEW i \in DOMAIN replies'[p]
       PROVE  /\ replies'[p][i].type = "LATENCY"
              /\ replies'[p][i].event.request + Len(replies'[p]) + 1
                   = Number(p, worker'[p].counter) + i
  <2>1. /\ DOMAIN replies'[p] = 1..n+1 /\ DOMAIN replies[p] = 1..n
        /\ \A j \in 1..n : replies'[p][j] = replies[p][j]
        /\ replies'[p][n+1] = m
    BY <1>4, <1>9
  <2>2. CASE i \in 1..n
    <3>1. PICK r \in Nat : r = replies[p][i].event.request
      BY <1>8, <2>1, <2>2, Requests DEF Inv
    <3>2. r + n + 1 = w + c + i
      BY <1>8, <1>9, <1>14, <2>1, <2>2, <3>1
    <3>3. r + (n + 1) + 1 = w + c + 1 + i
      BY <2>2, <3>2
    <3>4. replies'[p][i].type = "LATENCY" /\ replies'[p][i].event.request = r
      BY <1>8, <2>1, <2>2, <3>1
    <3> QED
      BY <1>13, <1>14, <3>3, <3>4
  <2>3. CASE i = n + 1
    <3>1. w + c + (n + 1) + 1 = w + c + 1 + (n + 1)
      OBVIOUS
    <3>2. replies'[p][i].type = "LATENCY" /\ replies'[p][i].event.request = w + c
      BY <1>3, <1>14, <2>1, <2>3
    <3> QED
      BY <1>13, <1>14, <2>3, <3>1, <3>2
  <2> QED
    BY <2>1, <2>2, <2>3
<1>16. Reporting(p)'
  <2>1. n + 1 + (o - 1) = n + o /\ n + 1 <= c + 1
    BY <1>13
  <2>2. inbox'[p] = <<>>
    BY <1>1, <1>8
  <2> QED
    BY <1>13, <1>15, <2>1, <2>2 DEF Reporting
<1>17. Budget(p)'
  <2>1. c + o <= 100000 * at
    BY <1>7, <1>8, <1>10, <1>11 DEF Inv, ProcessOK, Budget, Ordered
  <2>2. c + 1 + (o - 1) = c + o
    OBVIOUS
  <2>3. ~Ordered(p, "REPORT")'
    BY <1>13 DEF Ordered
  <2> QED
    BY <1>7, <1>13, <2>1, <2>2, <2>3 DEF Budget
<1>18. Received(p)' = Received(p)
  <2>1. c + 1 - (n + 1) = c - n
    OBVIOUS
  <2>2. Received(p) = c - n
    BY <1>7, <1>9, <1>11 DEF Received
  <2>3. Received(p)' = c + 1 - (n + 1)
    BY <1>7, <1>13 DEF Received
  <2> QED
    BY <2>1, <2>2, <2>3
<1>19. Exchange(p)'
  BY <1>7, <1>16 DEF Exchange
<1> QED
  BY <1>1, <1>2, <1>4, <1>5, <1>6, <1>17, <1>18, <1>19, WorkerStep DEF ProcessOK

-----------------------------------------------------------------------------
LEMMA NextInv ==
  ASSUME Inv, [Next]_vars
  PROVE  Inv'
<1>1. CASE Coordinator
  <2>1. CASE Hello \/ Ack \/ Latency
    BY <2>1, HelloInv, AckInv, LatencyInv
  <2>2. CASE Spawn \/ Accept \/ Scenarios \/ Tell \/ Skip
    BY <2>2, SpawnInv, AcceptInv, ScenariosInv, TellInv, SkipInv
  <2>3. CASE Evaluate \/ Refused \/ Accepted \/ RecordLine
    BY <2>3, CheckInv
  <2>4. CASE Kill \/ Exit \/ Load \/ Assign
    BY <2>4, KillInv, ExitInv, LoadInv, AssignInv
  <2> QED
    BY <1>1, <2>1, <2>2, <2>3, <2>4 DEF Coordinator
<1>2. CASE \E p \in Processes : Worker(p)
  <2>1. PICK p \in Processes : Worker(p)
    BY <1>2
  <2> QED
    BY <2>1, ConnectInv, GreetInv, LoseInv, ServeInv, PublishInv DEF Worker
<1>3. CASE UNCHANGED vars
  <2>1. /\ epoch' = epoch /\ seen' = seen /\ at' = at /\ left' = left
        /\ UNCHANGED <<sock, worker, backlog, conn, inbox, replies>>
    BY <1>3, GovernorFrame DEF vars, network
  <2>2. /\ epoch' \in Nat /\ left' \in Nat /\ at' \in 1..49
    BY <2>1 DEF Inv, TypeOK
  <2>3. TypeOK' /\ SocketsOK' /\ Born' /\ BacklogOK'
    <3>1. TypeOK'
      BY <2>1 DEF Inv, TypeOK
    <3>2. SocketsOK'
      BY <2>1 DEF Inv, SocketsOK, Opened, HelloDue
    <3>3. Born' /\ BacklogOK'
      BY <2>1 DEF Inv, Born, BacklogOK
    <3> QED
      BY <3>1, <3>2, <3>3
  <2>4. at <= at'
    <3>1. PICK i \in Int : at = i
      BY DEF Inv, TypeOK
    <3> QED
      BY <2>1, <3>1
  <2>5. \A p \in Processes : ProcessOK(p)' /\ Received(p)' = Received(p)
    <3>1. \A l \in Sockets :
            /\ HelloDue(l)' <=> HelloDue(l)
            /\ AtLatency(l)' <=> AtLatency(l)
            /\ AtAck(l)' <=> AtAck(l)
      BY <2>1 DEF HelloDue, AtLatency, AtAck
    <3>2. \A p \in Processes : Backlogged(p)' => Backlogged(p)
      BY <2>1 DEF Backlogged
    <3>3. ASSUME NEW p \in Processes
          PROVE  ProcessOK(p)' /\ Received(p)' = Received(p)
      BY <2>1, <2>3, <2>4, <3>1, <3>2, Bystander DEF Inv
    <3> QED
      BY <3>3
  <2>6. SeenOK'
    BY <2>1, <2>5, SeenKept DEF Inv
  <2> QED
    BY <2>3, <2>5, <2>6 DEF Inv
<1> QED
  BY <1>1, <1>2, <1>3 DEF Next

(* What holds between the coordinators and the workers at every moment:    *)
(* where each process and each connection stands, what is under way on it, *)
(* and which completions the governor has seen.                            *)
THEOREM InvHolds == Spec => []Inv
<1>1. Init => Inv
  BY InitInv
<1>2. Inv /\ [Next]_vars => Inv'
  BY NextInv
<1> QED
  BY <1>1, <1>2, PTL DEF Spec

-----------------------------------------------------------------------------
LEMMA InSocket ==
  ASSUME Inv, NEW k \in Sockets, NEW p \in Processes, sock[k] = p
  PROVE  /\ Asked(p) <=> AtLatency(k)
         /\ Warned(p) <=> AtAck(k)
  BY Cast DEF Inv, SocketsOK, Asked, Warned

(* The call that reads next from a socket whose hello is due.              *)
LEMMA HelloCall ==
  ASSUME Inv, NEW k \in Sockets, HelloDue(k)
  PROVE  \E c \in at..Len(Program) :
           /\ Program[c].op = "hello" /\ Program[c].sock = k
           /\ \A i \in at..c-1 : Program[i].sock # k
<1> DEFINE Here(c) == /\ c \in at..48 /\ c \in 1..48
                      /\ Ops[c] = "hello" /\ Socks[c] = k
                      /\ \A i \in at..c-1 : i \in 1..48 /\ Socks[i] # k
<1>1. \E c \in 1..48 : Here(c)
  <2>1. CASE k = "a" /\ at = 4
    <3>1. \A i \in 4..5-1 : i = 4
      OBVIOUS
    <3>2. Here(5)
      BY <2>1, <3>1 DEF Ops, Socks
    <3> QED
      BY <3>2
  <2>2. CASE k = "b" /\ at = 5
    <3>1. \A i \in 5..6-1 : i = 5
      OBVIOUS
    <3>2. Here(6)
      BY <2>2, <3>1 DEF Ops, Socks
    <3> QED
      BY <3>2
  <2>3. CASE \/ k = "a" /\ at \in {5, 32}
             \/ k = "b" /\ at \in {6, 34}
             \/ k = "a2" /\ at = 26
    <3>1. at \in 1..48 /\ \A i \in at..at-1 : FALSE
      BY <2>3
    <3>2. Here(at)
      BY <2>3, <3>1 DEF Ops, Socks
    <3> QED
      BY <3>1, <3>2
  <2> QED
    BY <2>1, <2>2, <2>3 DEF HelloDue, Sockets
<1> QED
  BY <1>1, Table

(* The call the coordinator is at.                                         *)
LEMMA ThisCall ==
  ASSUME Inv, NEW k \in Sockets, AtLatency(k) \/ AtAck(k)
  PROVE  /\ at \in at..Len(Program)
         /\ Program[at].op = IF AtLatency(k) THEN "latency" ELSE "ack"
         /\ Program[at].sock = k
         /\ \A i \in at..at-1 : Program[i].sock # k
<1>1. \/ k = "a" /\ at \in {10, 41}
      \/ k = "b" /\ at \in {12, 15, 17, 43}
  BY DEF Sockets, AtLatency, AtAck
<1>2. at \in 1..48 /\ at \in at..48 /\ \A i \in at..at-1 : FALSE
  BY <1>1
<1>3. Ops[at] = (IF AtLatency(k) THEN "latency" ELSE "ack") /\ Socks[at] = k
  BY <1>1 DEF Ops, Socks, AtLatency, AtAck
<1> QED
  BY <1>2, <1>3, Table

(* Request and reply stay in step on every connection, whatever the size   *)
(* of a report: what has arrived is all of the kind that the next call on  *)
(* that socket reads, and no more than it reads.                           *)
LEMMA InvMatches == Inv => RepliesMatch
<1> SUFFICES ASSUME Inv, NEW k \in DOMAIN sock,
                    sock[k] # Nobody, ~Stopped(sock[k]), replies[sock[k]] # <<>>
             PROVE  \E c \in at..Len(Program) :
                      /\ Program[c].sock = k
                      /\ \A i \in at..c-1 : Program[i].sock # k
                      /\ Program[c].op \in DOMAIN Reads
                      /\ Len(replies[sock[k]])
                           <= IF Program[c].op = "latency" THEN left ELSE 1
                      /\ \A i \in DOMAIN replies[sock[k]] :
                           replies[sock[k]][i].type = Reads[Program[c].op]
  BY DEF RepliesMatch
<1>1. k \in Sockets /\ sock[k] \in Processes
  BY DEF Inv, TypeOK
<1>2. PICK p \in Processes : p = sock[k]
  BY <1>1
<1>3. /\ "hello" \in DOMAIN Reads /\ "latency" \in DOMAIN Reads /\ "ack" \in DOMAIN Reads
      /\ Reads["hello"] = "HELLO" /\ Reads["latency"] = "LATENCY"
      /\ Reads["ack"] = "INTERVENTION_ACK"
  BY DEF Reads
<1>4. /\ replies[p] \in Seq(Hail \cup Measurement \cup Receipt)
      /\ DOMAIN replies[p] = 1..Len(replies[p]) /\ Len(replies[p]) \in Nat
      /\ worker[p].owed \in Nat /\ left \in Nat
  BY DEF Inv, TypeOK
<1>5. CASE HelloDue(k)
  <2>1. /\ Len(replies[p]) <= 1
        /\ \A i \in DOMAIN replies[p] : replies[p][i].type = "HELLO"
    BY <1>1, <1>2, <1>5, OnlyHello DEF Inv, ProcessOK, Connected
  <2>2. PICK c \in at..Len(Program) :
          /\ Program[c].op = "hello" /\ Program[c].sock = k
          /\ \A i \in at..c-1 : Program[i].sock # k
    BY <1>1, <1>5, HelloCall
  <2> QED
    BY <1>2, <1>3, <2>1, <2>2
<1>6. CASE AtLatency(k)
  <2>1. Reporting(p)
    BY <1>1, <1>2, <1>6, InSocket DEF Inv, ProcessOK, Exchange
  <2>2. /\ Len(replies[p]) + worker[p].owed = left
        /\ \A i \in DOMAIN replies[p] : replies[p][i].type = "LATENCY"
    BY <1>2, <2>1 DEF Reporting, Ordered
  <2>3. Len(replies[p]) <= left
    BY <1>4, <2>2
  <2> QED
    BY <1>1, <1>2, <1>3, <1>6, <2>2, <2>3, ThisCall
<1>7. CASE AtAck(k)
  <2>1. Acknowledging(p)
    BY <1>1, <1>2, <1>7, InSocket DEF Inv, ProcessOK, Exchange
  <2>2. Len(replies[p]) = 1 /\ replies[p][1].type = "INTERVENTION_ACK"
    BY <1>2, <2>1 DEF Acknowledging, Ordered
  <2>3. \A i \in DOMAIN replies[p] : replies[p][i].type = "INTERVENTION_ACK"
    BY <1>4, <2>2
  <2>4. ~AtLatency(k)
    BY <1>1, <1>7 DEF Sockets, AtLatency, AtAck
  <2> QED
    BY <1>1, <1>2, <1>3, <1>7, <2>2, <2>3, <2>4, ThisCall
<1>8. CASE ~HelloDue(k) /\ ~AtLatency(k) /\ ~AtAck(k)
  <2>1. Quiet(p)
    BY <1>1, <1>2, <1>8, InSocket DEF Inv, ProcessOK, Exchange
  <2> QED
    BY <1>1, <1>2, <1>8, <2>1 DEF Quiet
<1> QED
  BY <1>5, <1>6, <1>7, <1>8

(* The same for every behaviour of the program (req_report,                *)
(* send_intervention, read_hello).                                         *)
THEOREM RepliesMatchHolds == Spec => []RepliesMatch
<1>1. Inv => RepliesMatch
  BY InvMatches
<1> QED
  BY <1>1, InvHolds, PTL

-----------------------------------------------------------------------------

(* A process never numbers so many completions that its requests could be  *)
(* taken for another's.                                                    *)
LEMMA Bounded ==
  ASSUME Inv, NEW p \in Processes
  PROVE  /\ worker[p].counter \in Nat /\ worker[p].counter <= 4900000
         /\ Received(p) \in Int /\ Received(p) <= worker[p].counter
<1>1. /\ worker[p].counter \in Nat /\ worker[p].owed \in Nat /\ left \in Nat
      /\ at \in 1..49 /\ Budget(p)
  BY DEF Inv, TypeOK, ProcessOK
<1>2. worker[p].counter <= 100000 * at
  BY <1>1 DEF Budget
<1>3. worker[p].counter <= 4900000
  <2>1. \A i \in 1..49 : \A c \in Nat : c <= 100000 * i => c <= 4900000
    OBVIOUS
  <2> QED
    BY <1>1, <1>2, <2>1
<1>4. Received(p) \in Int /\ Received(p) <= worker[p].counter
  <2>1. replies[p] \in Seq(Hail \cup Measurement \cup Receipt)
    BY DEF Inv, TypeOK
  <2>2. PICK n \in Nat : n = Len(replies[p])
    BY <2>1
  <2>3. PICK c \in Nat : c = worker[p].counter
    BY <1>1
  <2> QED
    BY <2>2, <2>3 DEF Received
<1> QED
  BY <1>1, <1>3, <1>4

(* No report is lost as a duplicate, whatever its size: a completion on    *)
(* its way to the coordinator is new to it, although an incarnation counts *)
(* from the start again and a survivor goes on where it was.               *)
LEMMA InvNew == Inv => ReportsAreNew
<1> SUFFICES ASSUME Inv, NEW p \in Processes, NEW i \in DOMAIN replies[p],
                    replies[p][i].type = "LATENCY"
             PROVE  replies[p][i].event.request \notin seen
  BY DEF ReportsAreNew
<1>1. /\ replies[p] \in Seq(Hail \cup Measurement \cup Receipt)
      /\ DOMAIN replies[p] = 1..Len(replies[p])
  BY DEF Inv, TypeOK
<1>2. Asked(p)
  <2>1. CASE Warned(p)
    <3>1. Acknowledging(p)
      BY <2>1 DEF Inv, ProcessOK, Exchange
    <3> QED
      BY <1>1, <3>1 DEF Acknowledging, Ordered
  <2>2. CASE ~Asked(p) /\ ~Warned(p)
    BY <2>2 DEF Inv, ProcessOK, Exchange, Quiet
  <2> QED
    BY <2>1, <2>2
<1>3. PICK k \in {"a", "b"} : sock[k] = p /\ at \in {10, 12, 17, 41, 43}
  BY <1>2 DEF Asked, AtLatency, Sockets
<1>4. PICK n \in Nat : n = Len(replies[p])
  BY <1>1
<1>5. PICK c \in Nat : c = worker[p].counter
  BY Bounded
<1>6. PICK x \in Nat : x = replies[p][i].event.request
  BY Requests DEF Inv
<1>7. x + n + 1 = Number(p, c) + i /\ n <= c /\ i \in 1..n
  <2>1. Reporting(p)
    BY <1>2 DEF Inv, ProcessOK, Exchange
  <2>2. ~Ordered(p, "REPORT")
    BY <1>1 DEF Ordered
  <2> QED
    BY <1>1, <1>4, <1>5, <1>6, <2>1, <2>2 DEF Reporting
<1>8. c <= 4900000 /\ Received(p) = c - n
  BY <1>2, <1>4, <1>5, Bounded DEF Received
<1>9. /\ sock["a"] \in Processes => WorkerId(sock["a"]) = 100
      /\ sock["b"] \in Processes => WorkerId(sock["b"]) = 200
  <2>1. /\ sock["a"] \in Processes => sock["a"].name = "A"
        /\ sock["b"] \in Processes => sock["b"].name = "B"
    <3>1. CASE at \in {10, 12, 17}
      BY <1>3, <3>1, Names, Cast DEF Inv, SocketsOK
    <3>2. CASE at \in {41, 43}
      BY <1>3, <3>2, Cast DEF Inv, SocketsOK
    <3> QED
      BY <1>3, <3>1, <3>2
  <2> QED
    BY <2>1 DEF WorkerId
<1>10. ASSUME NEW q \in Processes, sock["a"] = q \/ sock["b"] = q,
              NEW m \in 0..Received(q)-1
       PROVE  x # Number(q, m)
  <2>1. CASE q = p
    <3>1. PICK w \in Nat : w = WorkerId(p) * 1000000
      BY DEF WorkerId
    <3>2. m \in 0..c-n-1
      BY <1>8, <2>1
    <3>3. x + n + 1 = w + c + i
      BY <1>7, <3>1 DEF Number
    <3>4. x # w + m
      BY <1>7, <3>2, <3>3
    <3> QED
      BY <2>1, <3>1, <3>4 DEF Number
  <2>2. CASE q # p
    <3>1. \/ WorkerId(p) = 100 /\ WorkerId(q) = 200
          \/ WorkerId(p) = 200 /\ WorkerId(q) = 100
      BY <1>3, <1>9, <1>10, <2>2
    <3>2. PICK d \in Nat : d = worker[q].counter /\ d <= 4900000
      BY Bounded
    <3>3. m \in Nat /\ m <= 4900000
      <4>1. PICK r \in Int : r = Received(q) /\ r <= d
        BY <3>2, Bounded
      <4>2. m \in 0..r-1
        BY <4>1
      <4> QED
        BY <3>2, <4>1, <4>2
    <3>4. CASE WorkerId(p) = 100 /\ WorkerId(q) = 200
      <4>1. x + n + 1 = 100000000 + c + i
        BY <1>7, <3>4 DEF Number
      <4>2. x <= 100000000 + c
        BY <1>7, <4>1
      <4>4. x # 200000000 + m
        BY <1>8, <3>3, <4>2
      <4>3. Number(q, m) = 200000000 + m
        BY <3>3, <3>4 DEF Number
      <4> QED
        BY <4>3, <4>4
    <3>5. CASE WorkerId(p) = 200 /\ WorkerId(q) = 100
      <4>1. x + n + 1 = 200000000 + c + i
        BY <1>7, <3>5 DEF Number
      <4>2. x >= 200000000
        BY <1>7, <4>1
      <4>4. x # 100000000 + m
        BY <3>3, <4>2
      <4>3. Number(q, m) = 100000000 + m
        BY <3>3, <3>5 DEF Number
      <4> QED
        BY <4>3, <4>4
    <3> QED
      BY <3>1, <3>4, <3>5
  <2> QED
    BY <2>1, <2>2
<1> QED
  BY <1>3, <1>6, <1>10 DEF Inv, SeenOK

(* The same for every behaviour of the program (run_worker's counter and   *)
(* the governor's seen).                                                   *)
THEOREM ReportsAreNewHolds == Spec => []ReportsAreNew
<1>1. Inv => ReportsAreNew
  BY InvNew
<1> QED
  BY <1>1, InvHolds, PTL

(* The variables of the model hold what the program's can.                 *)
THEOREM TypeCorrect == Spec => []TypeOK
<1>1. Inv => TypeOK
  BY DEF Inv
<1> QED
  BY <1>1, InvHolds, PTL
=============================================================================
