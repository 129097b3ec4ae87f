--------------------------------- MODULE Mbox ---------------------------------
(***************************************************************************)
(* mailfile() of qmail-local: several deliveries append to one mbox under a  *)
(* lock, and take back what they wrote when a write fails.  The contents of  *)
(* the file are chunks: two of each message.                                 *)
(***************************************************************************)
EXTENDS Naturals, Sequences, FiniteSets

CONSTANTS
  Deliveries,
  NoDelivery,
  Troubles     \* bound on killed processes and crashes of the machine

MboxAssumption == Troubles \in Nat /\ NoDelivery \notin Deliveries

VARIABLES
  mbox,      \* sequence of <<delivery, chunk>>
  safe,      \* how much of it a crash leaves
  at, pos,   \* at[d], pos[d] of a delivery
  holder,    \* who has the lock
  told,      \* deliveries that ended with success
  troubles

vars == <<mbox, safe, at, pos, holder, told, troubles>>

Init ==
  /\ mbox = <<>> /\ safe = 0
  /\ at = [d \in Deliveries |-> "open"] /\ pos = [d \in Deliveries |-> 0]
  /\ holder = NoDelivery /\ told = {} /\ troubles = 0

Goto(d, x) == at' = [at EXCEPT ![d] = x]
Release(d) == holder' = IF holder = d THEN NoDelivery ELSE holder

Open(d) ==
  /\ at[d] = "open" /\ Goto(d, "lock")
  /\ UNCHANGED <<mbox, safe, pos, holder, told, troubles>>

(* A wrong version: the end is looked up before the lock is there. *)
LockAfterSeek(d) ==
  /\ at[d] = "lock"
  /\ IF pos[d] = 0
     THEN /\ pos' = [pos EXCEPT ![d] = Len(mbox) + 1]
          /\ UNCHANGED <<at, holder>>
     ELSE /\ holder = NoDelivery /\ holder' = d
          /\ Goto(d, "write1") /\ pos' = [pos EXCEPT ![d] = @ - 1]
  /\ UNCHANGED <<mbox, safe, told, troubles>>

(* lock_ex(), then seek_end().                                              *)
Lock(d) ==
  /\ at[d] = "lock" /\ holder = NoDelivery
  /\ holder' = d /\ Goto(d, "write1")
  /\ pos' = [pos EXCEPT ![d] = Len(mbox)]
  /\ UNCHANGED <<mbox, safe, told, troubles>>

(* temp_slowlock() after 30 seconds.                                        *)
SlowLock(d) ==
  /\ at[d] = "lock" /\ holder # NoDelivery /\ Goto(d, "end")
  /\ UNCHANGED <<mbox, safe, pos, holder, told, troubles>>

Write(d) ==
  /\ \/ at[d] = "write1" /\ Goto(d, "write2") /\ mbox' = Append(mbox, <<d, 1>>)
     \/ at[d] = "write2" /\ Goto(d, "sync") /\ mbox' = Append(mbox, <<d, 2>>)
  /\ UNCHANGED <<safe, pos, holder, told, troubles>>

Sync(d) ==
  /\ at[d] = "sync" /\ Goto(d, "close")
  /\ safe' = Len(mbox)
  /\ UNCHANGED <<mbox, pos, holder, told, troubles>>

Close(d) ==
  /\ at[d] = "close" /\ Goto(d, "end")
  /\ Release(d) /\ told' = told \cup {d}
  /\ UNCHANGED <<mbox, safe, pos, troubles>>

Truncated(n) == IF n < Len(mbox) THEN SubSeq(mbox, 1, n) ELSE mbox

(* A wrong version: a write that fails leaves its beginning. *)
FailsUncut(d) ==
  /\ at[d] \in {"write1", "write2", "sync"} /\ Goto(d, "end")
  /\ Release(d)
  /\ UNCHANGED <<mbox, safe, pos, told, troubles>>

(* A read, a write or fsync() fails: seek_trunc(), close() and exit.        *)
Fails(d) ==
  /\ at[d] \in {"write1", "write2", "sync"} /\ Goto(d, "end")
  /\ mbox' = Truncated(pos[d])
  /\ safe' = IF safe > pos[d] THEN pos[d] ELSE safe
  /\ Release(d)
  /\ UNCHANGED <<pos, told, troubles>>

Killed(d) ==
  /\ troubles < Troubles /\ troubles' = troubles + 1
  /\ at[d] # "end" /\ Goto(d, "end") /\ Release(d)
  /\ UNCHANGED <<mbox, safe, pos, told>>

Crash ==
  /\ troubles < Troubles /\ troubles' = troubles + 1
  /\ \E n \in safe .. Len(mbox) : mbox' = SubSeq(mbox, 1, n) /\ safe' = n
  /\ at' = [d \in Deliveries |-> "end"] /\ holder' = NoDelivery
  /\ UNCHANGED <<pos, told>>

Deliver(d) ==
  Open(d) \/ Lock(d) \/ SlowLock(d) \/ Write(d) \/ Sync(d) \/ Close(d) \/ Fails(d)

Next == (\E d \in Deliveries : Deliver(d) \/ Killed(d)) \/ Crash

Spec == Init /\ [][Next]_vars

-----------------------------------------------------------------------------
TypeOK ==
  /\ mbox \in Seq(Deliveries \X {1, 2}) /\ safe \in 0 .. Len(mbox)
  /\ at \in [Deliveries -> {"open", "lock", "write1", "write2", "sync", "close", "end"}]
  /\ pos \in [Deliveries -> Nat]
  /\ holder = NoDelivery \/ at[holder] \in {"write1", "write2", "sync", "close"}
  /\ told \subseteq Deliveries /\ troubles \in 0 .. Troubles

InMbox(d) ==
  \E i \in 1 .. Len(mbox) - 1 : mbox[i] = <<d, 1>> /\ mbox[i + 1] = <<d, 2>>

(* A delivery that ended with success is in the file, in one piece, whatever *)
(* other deliveries take back, are killed in, or lose in a crash.            *)
ToldIsWhole == \A d \in told : InMbox(d)

(* dot-qmail.5:131: a delivery that has trouble writing "will truncate the   *)
(* file back to its original length": nothing of it is left behind, unless   *)
(* a process was killed or the system crashed.                               *)
NoRemains ==
  troubles = 0 /\ holder = NoDelivery => \A i \in 1 .. Len(mbox) : mbox[i][1] \in told

=============================================================================
