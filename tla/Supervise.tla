------------------------------- MODULE Supervise -------------------------------
(***************************************************************************)
(* supervise keeps one service, qmail-send or the log of it, as svc told it  *)
(* to.  Commands come one letter at a time through the FIFO supervise/control*)
(* and deaths of the service through SIGCHLD, which is blocked except while  *)
(* supervise waits and is turned into a byte in a pipe to itself.            *)
(***************************************************************************)
EXTENDS Naturals, Sequences

CONSTANTS
  Commands,    \* the letters svc sends
  MaxSvc,      \* bound on the letters sent
  ForkFails    \* whether fork() can fail

SuperviseAssumption ==
  /\ Commands \subseteq {"d", "u", "o", "t", "k", "p", "c", "x"}
  /\ MaxSvc \in Nat /\ ForkFails \in BOOLEAN

VARIABLES
  pc,                                \* "wait", "reap", "read" or "gone"
  want, wantup, flagexit, paused,    \* the flags
  up,                                \* pid # 0
  child,                             \* "none", "running", "stopped" or "zombie"
  term,                              \* SIGTERM is on its way to the child
  sigchld, pipe,                     \* the pending signal; whether selfpipe holds a byte
  fifo, sent,
  status                             \* supervise/status

flags == <<want, wantup, flagexit, paused>>
vars == <<pc, flags, up, child, term, sigchld, pipe, fifo, sent, status>>

(* The file says that a service is paused only if there is one.              *)
Announce == status' = [up |-> up', paused |-> up' /\ paused', want |-> want', wantup |-> wantup']

(* A wrong version: the pause is not forgotten. *)
TryStartPaused ==
  \/ up' = TRUE /\ child' = "running" /\ term' = FALSE /\ UNCHANGED <<paused, pipe>>
  \/ ForkFails /\ pipe' = TRUE /\ up' = FALSE /\ child' = "none" /\ term' = FALSE /\ UNCHANGED paused

TryStart ==
  \/ up' = TRUE /\ child' = "running" /\ term' = FALSE /\ paused' = FALSE /\ UNCHANGED pipe
  \/ ForkFails /\ pipe' = TRUE /\ up' = FALSE /\ child' = "none" /\ term' = FALSE /\ UNCHANGED paused

(* A directory with or without a file "down".                                *)
Init ==
  /\ pc = "wait" /\ want = TRUE /\ wantup \in BOOLEAN /\ flagexit = FALSE /\ paused = FALSE
  /\ \/ wantup /\ up = TRUE /\ child = "running" /\ pipe = FALSE
     \/ (wantup => ForkFails) /\ up = FALSE /\ child = "none" /\ pipe = wantup
  /\ term = FALSE /\ sigchld = FALSE /\ fifo = <<>> /\ sent = 0
  /\ status = [up |-> up, paused |-> FALSE, want |-> want, wantup |-> wantup]

Svc(c) ==
  /\ pc # "gone" /\ sent < MaxSvc
  /\ fifo' = Append(fifo, c) /\ sent' = sent + 1
  /\ UNCHANGED <<pc, flags, up, child, term, sigchld, pipe, status>>

Die == child' = "zombie" /\ sigchld' = TRUE /\ term' = FALSE

(* The service ends when it likes, or by a signal.                           *)
ChildExits ==
  /\ child = "running" /\ Die
  /\ UNCHANGED <<pc, flags, up, pipe, fifo, sent, status>>
ChildObeys == term /\ ChildExits

(* A wrong version: the handler does nothing. *)
SigChldLost ==
  /\ pc = "wait" /\ sigchld
  /\ sigchld' = FALSE /\ pipe' = pipe
  /\ UNCHANGED <<pc, flags, up, child, term, fifo, sent, status>>

(* trigger() runs as soon as the signal is not blocked.                      *)
SigChld ==
  /\ pc = "wait" /\ sigchld
  /\ sigchld' = FALSE /\ pipe' = TRUE
  /\ UNCHANGED <<pc, flags, up, child, term, fifo, sent, status>>

Wake ==
  /\ pc = "wait" /\ ~sigchld /\ (pipe \/ fifo # <<>>)
  /\ pc' = "reap" /\ pipe' = FALSE
  /\ UNCHANGED <<flags, up, child, term, sigchld, fifo, sent, status>>

(* wait_nohang(), and a new start if the service should be up.               *)
Reap ==
  /\ pc = "reap"
  /\ IF child = "zombie"
     THEN IF ~flagexit /\ want /\ wantup
          THEN /\ TryStart /\ pc' = "read"
               /\ UNCHANGED <<want, wantup, flagexit>>
               /\ status' = [up |-> up', paused |-> FALSE, want |-> want, wantup |-> wantup]
          ELSE /\ up' = FALSE /\ child' = "none" /\ pc' = (IF flagexit THEN "gone" ELSE "read")
               /\ UNCHANGED <<flags, term, pipe>> /\ Announce
     ELSE pc' = "read" /\ UNCHANGED <<flags, up, child, term, pipe, status>>
  /\ UNCHANGED <<sigchld, fifo, sent>>

-----------------------------------------------------------------------------
(* One letter *)

Continue == IF child = "stopped" THEN "running" ELSE child
Alive == child \in {"running", "stopped"}

(* A wrong version: a paused service is not woken. *)
DownStopped ==
  /\ want' = TRUE /\ wantup' = FALSE
  /\ term' = (term \/ Alive) /\ child' = child
  /\ paused' = (IF up THEN FALSE ELSE paused)
  /\ UNCHANGED <<up, sigchld, pipe, flagexit>> /\ Announce

Down ==
  /\ want' = TRUE /\ wantup' = FALSE
  /\ term' = (term \/ Alive) /\ child' = Continue
  /\ paused' = (IF up THEN FALSE ELSE paused)
  /\ UNCHANGED <<up, sigchld, pipe, flagexit>> /\ Announce

(* "u" and "o"; a new start announces itself.                                *)
UpOrOnce(once) ==
  /\ want' = ~once /\ wantup' = (~once \/ wantup)
  /\ IF up THEN UNCHANGED <<up, child, term, paused, pipe>> ELSE TryStart
  /\ UNCHANGED <<sigchld, flagexit>> /\ Announce

Term == term' = (term \/ Alive) /\ UNCHANGED <<flags, up, child, sigchld, pipe, status>>

Kill ==
  /\ IF Alive THEN Die ELSE UNCHANGED <<child, sigchld, term>>
  /\ UNCHANGED <<flags, up, pipe, status>>

(* SIGCHLD comes for a child that stops, too.                                *)
Pause ==
  /\ paused' = TRUE
  /\ IF child = "running" THEN child' = "stopped" /\ sigchld' = TRUE ELSE UNCHANGED <<child, sigchld>>
  /\ UNCHANGED <<want, wantup, flagexit, up, term, pipe>> /\ Announce

Cont ==
  /\ paused' = FALSE /\ child' = Continue
  /\ UNCHANGED <<want, wantup, flagexit, up, term, sigchld, pipe>> /\ Announce

Exit == flagexit' = TRUE /\ UNCHANGED <<want, wantup, paused, up, child, term, sigchld, pipe>> /\ Announce

Obey(c) ==
  \/ c = "d" /\ Down
  \/ c = "u" /\ UpOrOnce(FALSE)
  \/ c = "o" /\ UpOrOnce(TRUE)
  \/ c = "t" /\ Term
  \/ c = "k" /\ Kill
  \/ c = "p" /\ Pause
  \/ c = "c" /\ Cont
  \/ c = "x" /\ Exit

(* A wrong version: does not wait for the service. *)
ReadExit ==
  /\ pc = "read"
  /\ IF fifo = <<>>
     THEN UNCHANGED <<flags, up, child, term, sigchld, pipe, fifo, status>>
     ELSE Obey(Head(fifo)) /\ fifo' = Tail(fifo)
  /\ pc' = (IF flagexit' THEN "gone" ELSE "wait")
  /\ UNCHANGED sent

(* A wrong version: only a death ends supervise. *)
ReadOn ==
  /\ pc = "read"
  /\ IF fifo = <<>>
     THEN UNCHANGED <<flags, up, child, term, sigchld, pipe, fifo, status>>
     ELSE Obey(Head(fifo)) /\ fifo' = Tail(fifo)
  /\ pc' = "wait"
  /\ UNCHANGED sent

Read ==
  /\ pc = "read"
  /\ IF fifo = <<>>
     THEN UNCHANGED <<flags, up, child, term, sigchld, pipe, fifo, status>>
     ELSE Obey(Head(fifo)) /\ fifo' = Tail(fifo)
  /\ pc' = (IF flagexit' /\ ~up' THEN "gone" ELSE "wait")
  /\ UNCHANGED sent

Loop == SigChld \/ Wake \/ Reap \/ Read
Next == (\E c \in Commands : Svc(c)) \/ ChildExits \/ Loop

Spec == Init /\ [][Next]_vars
Fairness == WF_vars(Loop) /\ WF_vars(ChildObeys)
FairSpec == Spec /\ Fairness

-----------------------------------------------------------------------------
TypeOK ==
  /\ pc \in {"wait", "reap", "read", "gone"}
  /\ {want, wantup, flagexit, paused, up, term, sigchld, pipe} \subseteq BOOLEAN
  /\ child \in {"none", "running", "stopped", "zombie"}
  /\ fifo \in Seq(Commands) /\ Len(fifo) <= sent /\ sent \in 0 .. MaxSvc
  /\ (pc # "gone" => up = (child # "none"))

(* What svstat reads in supervise/status is so, unless the child has just died. *)
StatusTells ==
  /\ pc # "gone" => status = [up |-> up, paused |-> up /\ paused, want |-> want, wantup |-> wantup]
  /\ Alive => up /\ (paused <=> child = "stopped")

(* supervise goes away only without its service, and only when told to.      *)
GoneIsAlone == pc = "gone" => flagexit /\ child = "none"

(* "it will kill qmail, wait for it to stop, and restart it" (FAQ:525).      *)
WantedRuns ==
  LET wanted == want /\ wantup /\ ~flagexit IN wanted ~> (Alive \/ ~wanted)

(* A service that was told to go down goes down, unless it is paused again.  *)
UnwantedStops ==
  LET unwanted == want /\ ~wantup /\ ~paused IN unwanted ~> (~Alive \/ ~unwanted)

(* After svc -dx, also if the two are told apart, supervise ends.            *)
ExitEnds ==
  LET leaving == flagexit /\ want /\ ~wantup /\ ~paused IN leaving ~> (pc = "gone" \/ ~leaving)
=============================================================================
