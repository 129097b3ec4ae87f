--------------------------- MODULE DaemonLifecycle ---------------------------
(***************************************************************************)
(* Generations of the qmail daemons.  qmail-start starts qmail-send,       *)
(* qmail-todo and the spawners of one generation together, with pipes of   *)
(* their own, and becomes qmail-send; whoever starts it again when that    *)
(* process ends gets the next generation.  Nothing but lock/sendmutex and  *)
(* the ends of pipes tells the generations of each other.                  *)
(*                                                                         *)
(* A message is only its place here: in todo/, or preprocessed (info/).    *)
(* The spawners of a generation are one process; flight holds the messages *)
(* being delivered by it.                                                  *)
(***************************************************************************)
EXTENDS Integers, Sequences, SequencesExt

CONSTANTS
  Gens,        \* 1 .. number of generations
  Msgs,
  NoMsg,
  Restart,     \* "clean": the next qmail-start waits for every old daemon;
               \* "supervised": it waits for the old qmail-send only;
               \* "double": it does not wait
  MaxCrashes   \* bound on the deaths of daemons

LifecycleAssumption ==
  /\ Gens \subseteq Nat \ {0}
  /\ NoMsg \notin Msgs
  /\ Restart \in {"clean", "supervised", "double"}
  /\ MaxCrashes \in Nat

VARIABLES
  queued,     \* messages with a todo/ file
  info,       \* messages with an info/ file and no todo/ file
  mutex,      \* generation whose qmail-send holds lock/sendmutex, or 0
  send,       \* send[g]: "none", "start", "scan", "up" or "dead"
  seen,       \* seen[g]: what was preprocessed when pqstart() began
  known,      \* known[g]: messages in the priority queues of qmail-send
  flight,     \* flight[g]: messages handed to the spawners
  exitasap,   \* flagexitasap of qmail-send
  todoalive,  \* flagtodoalive of qmail-send
  spawnalive, \* flagspawnalive of qmail-send
  todo,       \* todo[g]: "none", "wait", "run" or "dead"
  handling,   \* handling[g]: message inside todo_do()
  stopasap,   \* flagstopasap of qmail-todo
  cbuf,       \* comm_buf of qmail-todo
  down,       \* pipe from qmail-send to qmail-todo
  up,         \* pipe from qmail-todo to qmail-send
  spawn,      \* spawn[g]: "none", "up" or "dead"
  crashes

queueVars == <<queued, info>>
sendVars  == <<mutex, send, seen, known, flight, exitasap, todoalive, spawnalive>>
todoVars  == <<todo, handling, stopasap, cbuf>>
pipeVars  == <<down, up>>
vars == <<queueVars, sendVars, todoVars, pipeVars, spawn, crashes>>

Reports == [type : {"D"}, msg : Msgs]
Stop == [type |-> "X", msg |-> NoMsg]

TypeOK ==
  /\ queued \subseteq Msgs /\ info \subseteq Msgs
  /\ mutex \in Gens \cup {0}
  /\ send \in [Gens -> {"none", "start", "scan", "up", "dead"}]
  /\ seen \in [Gens -> SUBSET Msgs] /\ known \in [Gens -> SUBSET Msgs]
  /\ flight \in [Gens -> SUBSET Msgs]
  /\ exitasap \in [Gens -> BOOLEAN] /\ todoalive \in [Gens -> BOOLEAN]
  /\ spawnalive \in [Gens -> BOOLEAN]
  /\ todo \in [Gens -> {"none", "wait", "run", "dead"}]
  /\ handling \in [Gens -> Msgs \cup {NoMsg}]
  /\ stopasap \in [Gens -> BOOLEAN]
  /\ cbuf \in [Gens -> Seq(Reports \cup {Stop})]
  /\ down \in [Gens -> Seq({"S", "X"})]
  /\ up \in [Gens -> Seq(Reports \cup {Stop})]
  /\ spawn \in [Gens -> {"none", "up", "dead"}]
  /\ crashes \in 0 .. MaxCrashes

Init ==
  /\ queued = {} /\ info = {} /\ mutex = 0 /\ crashes = 0
  /\ send = [g \in Gens |-> "none"] /\ todo = [g \in Gens |-> "none"]
  /\ spawn = [g \in Gens |-> "none"]
  /\ seen = [g \in Gens |-> {}] /\ known = [g \in Gens |-> {}]
  /\ flight = [g \in Gens |-> {}]
  /\ exitasap = [g \in Gens |-> FALSE] /\ stopasap = [g \in Gens |-> FALSE]
  /\ todoalive = [g \in Gens |-> FALSE] /\ spawnalive = [g \in Gens |-> FALSE]
  /\ handling = [g \in Gens |-> NoMsg]
  /\ cbuf = [g \in Gens |-> <<>>] /\ down = [g \in Gens |-> <<>>]
  /\ up = [g \in Gens |-> <<>>]

-----------------------------------------------------------------------------
(* The environment: qmail-queue, the administrator and whoever restarts.   *)

Inject(m) ==
  /\ m \notin queued \cup info
  /\ \A g \in Gens : m \notin known[g] \cup flight[g] /\ handling[g] # m
  /\ \A g \in Gens : ~ \E i \in 1 .. Len(up[g]) : up[g][i].msg = m
  /\ \A g \in Gens : ~ \E i \in 1 .. Len(cbuf[g]) : cbuf[g][i].msg = m
  /\ queued' = queued \cup {m}
  /\ UNCHANGED <<info, sendVars, todoVars, pipeVars, spawn, crashes>>

(* The previous generation has come to the point where g is started. *)
MayStart(g) ==
  \A h \in Gens : h < g =>
    CASE Restart = "clean"      -> send[h] = "dead" /\ todo[h] = "dead" /\ spawn[h] = "dead"
      [] Restart = "supervised" -> send[h] = "dead"
      [] Restart = "double"     -> send[h] # "none"

QmailStart(g) ==
  /\ send[g] = "none" /\ MayStart(g)
  /\ send' = [send EXCEPT ![g] = "start"]
  /\ todo' = [todo EXCEPT ![g] = "wait"]
  /\ spawn' = [spawn EXCEPT ![g] = "up"]
  /\ UNCHANGED <<queueVars, mutex, seen, known, flight, exitasap, todoalive,
                 spawnalive, handling, stopasap, cbuf, pipeVars, crashes>>

-----------------------------------------------------------------------------
(* qmail-send *)

(* The process is gone: its lock and its ends of the pipes with it. *)
SendGone(g) ==
  /\ send' = [send EXCEPT ![g] = "dead"]
  /\ mutex' = IF mutex = g THEN 0 ELSE mutex

(* A wrong version: a failing lock_exnb() is not noticed. *)
SendLockAnyway(g) ==
  /\ send[g] = "start"
  /\ IF spawn[g] = "up"
     THEN /\ mutex' = g
          /\ send' = [send EXCEPT ![g] = "scan"]
          /\ seen' = [seen EXCEPT ![g] = info]
     ELSE SendGone(g) /\ UNCHANGED seen
  /\ UNCHANGED <<queueVars, known, flight, exitasap, todoalive, spawnalive,
                 todoVars, pipeVars, spawn, crashes>>

SendLock(g) ==
  /\ send[g] = "start"
  /\ IF mutex = 0 /\ spawn[g] = "up"
     THEN /\ mutex' = g
          /\ send' = [send EXCEPT ![g] = "scan"]
          /\ seen' = [seen EXCEPT ![g] = info]
     ELSE SendGone(g) /\ UNCHANGED seen
  /\ UNCHANGED <<queueVars, known, flight, exitasap, todoalive, spawnalive,
                 todoVars, pipeVars, spawn, crashes>>

(* A wrong version: no pqstart(). *)
SendUpUnaware(g) ==
  /\ send[g] = "scan"
  /\ known' = [known EXCEPT ![g] = {}]
  /\ send' = [send EXCEPT ![g] = "up"]
  /\ spawnalive' = [spawnalive EXCEPT ![g] = TRUE]
  /\ IF todo[g] = "dead"
     THEN /\ exitasap' = [exitasap EXCEPT ![g] = TRUE]
          /\ UNCHANGED <<todoalive, down>>
     ELSE /\ todoalive' = [todoalive EXCEPT ![g] = TRUE]
          /\ down' = [down EXCEPT ![g] = Append(@, "S")]
          /\ UNCHANGED exitasap
  /\ UNCHANGED <<queueVars, mutex, seen, flight, todoVars, up, spawn, crashes>>

(* pqstart() ends: readdir shows what was there all the time and may show   *)
(* what came meanwhile.  todo_init() then writes the S, which fails when    *)
(* qmail-todo is gone.                                                      *)
SendUp(g) ==
  /\ send[g] = "scan"
  /\ \E late \in SUBSET (info \ seen[g]) :
       known' = [known EXCEPT ![g] = (seen[g] \cap info) \cup late]
  /\ send' = [send EXCEPT ![g] = "up"]
  /\ spawnalive' = [spawnalive EXCEPT ![g] = TRUE]
  /\ IF todo[g] = "dead"
     THEN /\ exitasap' = [exitasap EXCEPT ![g] = TRUE]
          /\ UNCHANGED <<todoalive, down>>
     ELSE /\ todoalive' = [todoalive EXCEPT ![g] = TRUE]
          /\ down' = [down EXCEPT ![g] = Append(@, "S")]
          /\ UNCHANGED exitasap
  /\ UNCHANGED <<queueVars, mutex, seen, flight, todoVars, up, spawn, crashes>>

SendTerm(g) ==
  /\ send[g] = "up" /\ ~exitasap[g]
  /\ exitasap' = [exitasap EXCEPT ![g] = TRUE]
  /\ UNCHANGED <<queueVars, mutex, send, seen, known, flight, todoalive,
                 spawnalive, todoVars, pipeVars, spawn, crashes>>

(* Each turn of the loop writes another X; one stands for all of them. *)
SendStop(g) ==
  /\ send[g] = "up" /\ exitasap[g] /\ todoalive[g]
  /\ todo[g] # "dead" /\ ~Contains(down[g], "X")
  /\ down' = [down EXCEPT ![g] = Append(@, "X")]
  /\ UNCHANGED <<queueVars, sendVars, todoVars, up, spawn, crashes>>

SendRead(g) ==
  /\ send[g] = "up" /\ todoalive[g] /\ up[g] # <<>>
  /\ up' = [up EXCEPT ![g] = Tail(@)]
  /\ LET report == Head(up[g]) IN
     \/ /\ report.type = "D"
        /\ known' = IF exitasap[g] THEN known
                    ELSE [known EXCEPT ![g] = @ \cup {report.msg}]
        /\ UNCHANGED <<todoalive, exitasap>>
     \/ /\ report = Stop
        /\ todoalive' = [todoalive EXCEPT ![g] = FALSE]
        /\ exitasap' = [exitasap EXCEPT ![g] = TRUE]
        /\ UNCHANGED known
  /\ UNCHANGED <<queueVars, mutex, send, seen, flight, spawnalive, todoVars,
                 down, spawn, crashes>>

SendSeesTodoEnd(g) ==
  /\ send[g] = "up" /\ todoalive[g] /\ up[g] = <<>> /\ todo[g] = "dead"
  /\ todoalive' = [todoalive EXCEPT ![g] = FALSE]
  /\ exitasap' = [exitasap EXCEPT ![g] = TRUE]
  /\ UNCHANGED <<queueVars, mutex, send, seen, known, flight, spawnalive,
                 todoVars, pipeVars, spawn, crashes>>

SendSeesSpawnEnd(g) ==
  /\ send[g] = "up" /\ spawnalive[g] /\ spawn[g] = "dead"
  /\ spawnalive' = [spawnalive EXCEPT ![g] = FALSE]
  /\ exitasap' = [exitasap EXCEPT ![g] = TRUE]
  /\ UNCHANGED <<queueVars, mutex, send, seen, known, flight, todoalive,
                 todoVars, pipeVars, spawn, crashes>>

Deliver(g, m) ==
  /\ send[g] = "up" /\ ~exitasap[g] /\ spawnalive[g]
  /\ m \in known[g] \ flight[g]
  /\ flight' = [flight EXCEPT ![g] = @ \cup {m}]
  /\ UNCHANGED <<queueVars, mutex, send, seen, known, exitasap, todoalive,
                 spawnalive, todoVars, pipeVars, spawn, crashes>>

(* The delivery of m ends; when qmail-send hears of a success the message   *)
(* is eliminated.                                                           *)
DeliveryEnds(g, m, success) ==
  /\ spawn[g] = "up" /\ m \in flight[g]
  /\ flight' = [flight EXCEPT ![g] = @ \ {m}]
  /\ IF success /\ send[g] = "up"
     THEN /\ known' = [known EXCEPT ![g] = @ \ {m}]
          /\ info' = info \ {m}
     ELSE UNCHANGED <<known, info>>
  /\ UNCHANGED <<queued, mutex, send, seen, exitasap, todoalive, spawnalive,
                 todoVars, pipeVars, spawn, crashes>>

(* The condition of the main loop. *)
SendExit(g) ==
  /\ send[g] = "up" /\ exitasap[g] /\ ~todoalive[g]
  /\ flight[g] = {} \/ ~spawnalive[g]
  /\ SendGone(g)
  /\ UNCHANGED <<queueVars, seen, known, flight, exitasap, todoalive,
                 spawnalive, todoVars, pipeVars, spawn, crashes>>

-----------------------------------------------------------------------------
(* qmail-todo *)

(* A wrong version: qmail-todo begins without waiting for the S. *)
TodoStartAtOnce(g) ==
  /\ todo[g] = "wait"
  /\ UNCHANGED down
  /\ todo' = [todo EXCEPT ![g] = "run"]
  /\ UNCHANGED <<queueVars, sendVars, handling, stopasap, cbuf, up, spawn, crashes>>

(* The loop that waits for the S ends after the first read, whatever it    *)
(* returned: "while (r =! 1)" assigns.  An end of file comes when no        *)
(* qmail-send holds the other end.                                          *)
TodoStart(g) ==
  /\ todo[g] = "wait"
  /\ \/ down[g] # <<>> /\ down' = [down EXCEPT ![g] = Tail(@)]
     \/ down[g] = <<>> /\ send[g] = "dead" /\ UNCHANGED down
  /\ todo' = [todo EXCEPT ![g] = "run"]
  /\ UNCHANGED <<queueVars, sendVars, handling, stopasap, cbuf, up, spawn, crashes>>

(* A wrong version: the X is taken for an unknown letter. *)
TodoReadDeaf(g) ==
  /\ todo[g] = "run" /\ handling[g] = NoMsg /\ down[g] # <<>>
  /\ down' = [down EXCEPT ![g] = Tail(@)]
  /\ UNCHANGED <<queueVars, sendVars, todo, handling, stopasap, cbuf, up, spawn, crashes>>

(* comm_do(): an X; an end of file is ignored. *)
TodoRead(g) ==
  /\ todo[g] = "run" /\ handling[g] = NoMsg /\ down[g] # <<>>
  /\ down' = [down EXCEPT ![g] = Tail(@)]
  /\ stopasap' = [stopasap EXCEPT ![g] = @ \/ Head(down[g]) = "X"]
  /\ UNCHANGED <<queueVars, sendVars, todo, handling, cbuf, up, spawn, crashes>>

TodoTake(g, m) ==
  /\ todo[g] = "run" /\ handling[g] = NoMsg /\ ~stopasap[g]
  /\ m \in queued
  /\ handling' = [handling EXCEPT ![g] = m]
  /\ UNCHANGED <<queueVars, sendVars, todo, stopasap, cbuf, pipeVars, spawn, crashes>>

(* todo_do() preprocesses the message and buffers the D, or fails. *)
TodoDone(g) ==
  /\ todo[g] = "run" /\ handling[g] # NoMsg
  /\ handling' = [handling EXCEPT ![g] = NoMsg]
  /\ \/ /\ queued' = queued \ {handling[g]}
        /\ info' = info \cup {handling[g]}
        /\ cbuf' = [cbuf EXCEPT ![g] = Append(@, [type |-> "D", msg |-> handling[g]])]
     \/ UNCHANGED <<queued, info, cbuf>>
  /\ UNCHANGED <<sendVars, todo, stopasap, pipeVars, spawn, crashes>>

(* A wrong version: EPIPE is not told from other errors. *)
TodoWriteOn(g) ==
  /\ todo[g] = "run" /\ handling[g] = NoMsg /\ cbuf[g] # <<>>
  /\ IF send[g] = "dead"
     THEN UNCHANGED <<todo, cbuf, up>>
     ELSE /\ up' = [up EXCEPT ![g] = @ \o cbuf[g]]
          /\ cbuf' = [cbuf EXCEPT ![g] = <<>>]
          /\ UNCHANGED todo
  /\ UNCHANGED <<queueVars, sendVars, handling, stopasap, down, spawn, crashes>>

(* comm_do(): write what is buffered; EPIPE is how qmail-todo learns that   *)
(* qmail-send is gone.                                                      *)
TodoWrite(g) ==
  /\ todo[g] = "run" /\ handling[g] = NoMsg /\ cbuf[g] # <<>>
  /\ IF send[g] = "dead"
     THEN todo' = [todo EXCEPT ![g] = "dead"] /\ UNCHANGED <<cbuf, up>>
     ELSE /\ up' = [up EXCEPT ![g] = @ \o cbuf[g]]
          /\ cbuf' = [cbuf EXCEPT ![g] = <<>>]
          /\ UNCHANGED todo
  /\ UNCHANGED <<queueVars, sendVars, handling, stopasap, down, spawn, crashes>>

(* comm_exit(), again at each turn; one X in the pipe stands for all. *)
TodoStop(g) ==
  /\ todo[g] = "run" /\ handling[g] = NoMsg /\ stopasap[g] /\ cbuf[g] = <<>>
  /\ send[g] = "dead" \/ ~Contains(up[g], Stop)
  /\ cbuf' = [cbuf EXCEPT ![g] = <<Stop>>]
  /\ UNCHANGED <<queueVars, sendVars, todo, handling, stopasap, pipeVars, spawn, crashes>>

-----------------------------------------------------------------------------
(* The spawners, and deaths *)

(* End of file from qmail-send, and every slot is free. *)
SpawnExit(g) ==
  /\ spawn[g] = "up" /\ send[g] = "dead" /\ flight[g] = {}
  /\ spawn' = [spawn EXCEPT ![g] = "dead"]
  /\ UNCHANGED <<queueVars, sendVars, todoVars, pipeVars, crashes>>

Crash == crashes < MaxCrashes /\ crashes' = crashes + 1

SendDies(g) ==
  /\ send[g] \in {"start", "scan", "up"} /\ Crash /\ SendGone(g)
  /\ UNCHANGED <<queueVars, seen, known, flight, exitasap, todoalive,
                 spawnalive, todoVars, pipeVars, spawn>>

TodoDies(g) ==
  /\ todo[g] \in {"wait", "run"} /\ Crash
  /\ todo' = [todo EXCEPT ![g] = "dead"]
  /\ handling' = [handling EXCEPT ![g] = NoMsg]
  /\ UNCHANGED <<queueVars, sendVars, stopasap, cbuf, pipeVars, spawn>>

(* cleandied() of qmail-todo *)
TodoCleanDies(g) ==
  /\ todo[g] = "run" /\ handling[g] = NoMsg /\ ~stopasap[g] /\ Crash
  /\ stopasap' = [stopasap EXCEPT ![g] = TRUE]
  /\ UNCHANGED <<queueVars, sendVars, todo, handling, cbuf, pipeVars, spawn>>

SpawnDies(g) ==
  /\ spawn[g] = "up" /\ Crash
  /\ spawn' = [spawn EXCEPT ![g] = "dead"]
  /\ UNCHANGED <<queueVars, sendVars, todoVars, pipeVars>>

-----------------------------------------------------------------------------
SendTurn(g) ==
  SendStop(g) \/ SendRead(g) \/ SendSeesTodoEnd(g) \/ SendSeesSpawnEnd(g) \/ SendExit(g)

TodoTurn(g) == TodoStart(g) \/ TodoRead(g) \/ TodoDone(g) \/ TodoWrite(g) \/ TodoStop(g)

Next ==
  \/ \E m \in Msgs : Inject(m)
  \/ \E g \in Gens :
       \/ QmailStart(g) \/ SendLock(g) \/ SendUp(g) \/ SendTerm(g)
       \/ SendTurn(g) \/ TodoTurn(g)
       \/ \E m \in Msgs : Deliver(g, m) \/ TodoTake(g, m)
       \/ \E m \in Msgs, success \in BOOLEAN : DeliveryEnds(g, m, success)
       \/ SpawnExit(g)
       \/ SendDies(g) \/ TodoDies(g) \/ TodoCleanDies(g) \/ SpawnDies(g)

Spec == Init /\ [][Next]_vars

(* Processes that run go on, each part of their loops is reached again, and *)
(* a delivery ends.                                                         *)
Fairness ==
  \A g \in Gens :
    /\ WF_vars(SendLock(g)) /\ WF_vars(SendUp(g))
    /\ WF_vars(SendStop(g)) /\ WF_vars(SendRead(g)) /\ WF_vars(SendExit(g))
    /\ WF_vars(SendSeesTodoEnd(g)) /\ WF_vars(SendSeesSpawnEnd(g))
    /\ WF_vars(TodoStart(g)) /\ WF_vars(TodoDone(g))
    /\ SF_vars(TodoRead(g)) /\ SF_vars(TodoWrite(g)) /\ SF_vars(TodoStop(g))
    /\ \A m \in Msgs : WF_vars(\E success \in BOOLEAN : DeliveryEnds(g, m, success))

FairSpec == Spec /\ Fairness

-----------------------------------------------------------------------------
Reported(g, m) ==
  \E i \in 1 .. Len(up[g] \o cbuf[g]) : (up[g] \o cbuf[g])[i] = [type |-> "D", msg |-> m]

(* EXTTODO: qmail-todo transmits the id to qmail-send, which adds the       *)
(* message to its priority queues.  A running qmail-send knows each         *)
(* preprocessed message, or its own qmail-todo is about to tell it.         *)
NobodyForgotten ==
  \A g \in Gens : send[g] = "up" /\ ~exitasap[g] /\ todo[g] # "dead" =>
    \A m \in info : m \in known[g] \/ Reported(g, m)

(* lock/sendmutex: no message is given to the spawners of two generations   *)
(* at once, although the second qmail-start did not wait for the first.     *)
OneDeliverer ==
  \A g, h \in Gens : g # h => flight[g] \cap flight[h] = {}

(* The reports of one message: qmail-send never hears a second D for what   *)
(* it has in its queues already, which would give it two jobs.              *)
ToldOnce ==
  \A g \in Gens : send[g] = "up" /\ ~exitasap[g] => \A m \in known[g] : ~Reported(g, m)

(* A qmail-send that was told to exit does so: its deliveries end, and      *)
(* qmail-todo answers the X or is found dead.                               *)
ShutdownEnds == \A g \in Gens : exitasap[g] ~> send[g] = "dead"

(* A qmail-todo that was told to stop notices the end of its qmail-send.    *)
TodoFollows == \A g \in Gens : send[g] = "dead" /\ stopasap[g] ~> todo[g] = "dead"

=============================================================================
