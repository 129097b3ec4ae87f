------------------------------- MODULE Maildir -------------------------------
(***************************************************************************)
(* A maildir between its users: children of qmail-local that deliver into    *)
(* it, and sessions of qmail-pop3d that clean tmp/, list new/ and cur/, and  *)
(* delete or move what they listed when the client quits.  No locks: names   *)
(* of time and process id, link() and ages keep them apart.  The clock runs  *)
(* in units of half a day, the coarsest in which both ages are whole.        *)
(***************************************************************************)
EXTENDS Naturals, FiniteSets, Sequences, Functions

CONSTANTS
  Deliveries, Pids, Sessions,
  AlarmAge,    \* alarm(86400) in maildir_child()
  CleanAge,    \* 129600 in maildir_clean()
  Horizon,     \* bound on the clock
  Crashes      \* bound on the crashes of the machine

MaildirAssumption ==
  /\ AlarmAge \in Nat /\ CleanAge \in Nat /\ AlarmAge < CleanAge
  /\ Horizon \in Nat /\ Crashes \in Nat /\ IsFiniteSet(Pids)

VARIABLES
  clock,
  child,     \* child[d]: [at, pid, name, alarm, exit] of the maildir_child() of d
  inode,     \* inode[d]: [whole, synced, time] of the file of d; atime is its first time
  dir,       \* dir[x]: names in tmp, new and cur, to deliveries
  pop,       \* pop[s]: [at, list, del, there] of a session
  told,      \* deliveries that were reported as done
  asked,     \* deliveries that a client deleted
  crashes

vars == <<clock, child, inode, dir, pop, told, asked, crashes>>

Names == Pids \X (0 .. Horizon)
NoChild == [at |-> "none", pid |-> 0, name |-> <<>>, alarm |-> 0]
NoPop == [at |-> "none", time |-> 0, list |-> <<>>, del |-> {}, there |-> {}]
NoFile == [whole |-> FALSE, synced |-> FALSE, atime |-> 0, mtime |-> 0]

Init ==
  /\ clock = 0
  /\ child = [d \in Deliveries |-> NoChild] /\ inode = [d \in Deliveries |-> NoFile]
  /\ dir = [x \in {"tmp", "new", "cur"} |-> <<>>]
  /\ pop = [s \in Sessions |-> NoPop]
  /\ told = {} /\ asked = {} /\ crashes = 0

More(f, n, d) == [k \in DOMAIN f \cup {n} |-> IF k = n THEN d ELSE f[k]]
Entry(x, n, d) == [dir EXCEPT ![x] = More(@, n, d)]
Less(f, n) == [k \in DOMAIN f \ {n} |-> f[k]]
Gone(x, n) == [dir EXCEPT ![x] = Less(@, n)]
In(x, n) == n \in DOMAIN dir[x]

-----------------------------------------------------------------------------
(* maildir_child() *)

Alive(d) == child[d].at \notin {"none", "end"}
Ended(d) == [NoChild EXCEPT !.at = "end", !.pid = child[d].pid, !.alarm = clock]
End(d) == child' = [child EXCEPT ![d] = Ended(d)]
Goto(d, at) == child' = [child EXCEPT ![d].at = at]

(* The kernel gives a process id again, but not within the same second.    *)
ForkChild(d) ==
  /\ child[d].at = "none"
  /\ \E p \in Pids :
       /\ \A e \in Deliveries :
            child[e].pid = p => child[e].at = "end" /\ child[e].alarm < clock
       /\ child' = [child EXCEPT ![d] = [NoChild EXCEPT !.at = "stat", !.pid = p]]
  /\ UNCHANGED <<clock, inode, dir, pop, told, asked, crashes>>

(* The loop of stat() and sleep(2): at most three names are tried.          *)
StatTmp(d) ==
  /\ child[d].at = "stat"
  /\ LET n == <<child[d].pid, clock>> IN
     IF In("tmp", n) THEN End(d)
     ELSE child' = [child EXCEPT ![d].at = "open", ![d].name = n]
  /\ UNCHANGED <<clock, inode, dir, pop, told, asked, crashes>>

(* A wrong version: the alarm comes after the file is old. *)
OpenTmpAgain(d) ==
  /\ child[d].at = "open"
  /\ IF In("tmp", child[d].name)
     THEN End(d) /\ UNCHANGED <<inode, dir>>
     ELSE /\ child' = [child EXCEPT ![d].at = "write", ![d].alarm = clock + CleanAge + AlarmAge]
          /\ inode' = [inode EXCEPT ![d].atime = clock, ![d].mtime = clock]
          /\ dir' = Entry("tmp", child[d].name, d)
  /\ UNCHANGED <<clock, pop, told, asked, crashes>>

OpenTmp(d) ==
  /\ child[d].at = "open"
  /\ IF In("tmp", child[d].name)
     THEN End(d) /\ UNCHANGED <<inode, dir>>
     ELSE /\ child' = [child EXCEPT ![d].at = "write", ![d].alarm = clock + AlarmAge]
          /\ inode' = [inode EXCEPT ![d].atime = clock, ![d].mtime = clock]
          /\ dir' = Entry("tmp", child[d].name, d)
  /\ UNCHANGED <<clock, pop, told, asked, crashes>>

(* A wrong version: fsync() is left out. *)
WriteUnsynced(d) ==
  /\ child[d].at = "write" /\ Goto(d, "link")
  /\ inode' = [inode EXCEPT ![d].whole = TRUE, ![d].mtime = clock]
  /\ UNCHANGED <<clock, dir, pop, told, asked, crashes>>

Write(d) ==
  /\ child[d].at = "write" /\ Goto(d, "sync")
  /\ inode' = [inode EXCEPT ![d].whole = TRUE, ![d].mtime = clock]
  /\ UNCHANGED <<clock, dir, pop, told, asked, crashes>>

Sync(d) ==
  /\ child[d].at = "sync" /\ Goto(d, "link")
  /\ inode' = [inode EXCEPT ![d].synced = TRUE]
  /\ UNCHANGED <<clock, dir, pop, told, asked, crashes>>

(* A name that is in new already makes link() fail, and so does one that is *)
(* no longer in tmp.                                                        *)
LinkNew(d) ==
  /\ child[d].at = "link"
  /\ IF In("tmp", child[d].name) /\ ~In("new", child[d].name)
     THEN Goto(d, "unlink") /\ dir' = Entry("new", child[d].name, dir["tmp"][child[d].name])
     ELSE Goto(d, "fail") /\ UNCHANGED dir
  /\ UNCHANGED <<clock, inode, pop, told, asked, crashes>>

UnlinkTmp(d) ==
  /\ child[d].at = "unlink" /\ End(d)
  /\ dir' = Gone("tmp", child[d].name) /\ told' = told \cup {d}
  /\ UNCHANGED <<clock, inode, pop, asked, crashes>>

(* A wrong version: the failure of a write is not looked at. *)
FailsQuietly(d) ==
  /\ child[d].at \in {"write", "sync"} /\ Goto(d, "unlink")
  /\ UNCHANGED <<clock, inode, dir, pop, told, asked, crashes>>

(* A call that fails, on the way to the label fail.                         *)
Fails(d) ==
  /\ child[d].at \in {"write", "sync"} /\ Goto(d, "fail")
  /\ UNCHANGED <<clock, inode, dir, pop, told, asked, crashes>>

Fail(d) ==
  /\ child[d].at = "fail" /\ End(d)
  /\ dir' = Gone("tmp", child[d].name)
  /\ UNCHANGED <<clock, inode, pop, told, asked, crashes>>

Armed(d) == child[d].at \in {"write", "sync", "link", "unlink", "fail"}

(* sigalrm(): also when the message is in new already.                      *)
SigAlrm(d) ==
  /\ Armed(d) /\ clock >= child[d].alarm
  /\ End(d) /\ dir' = Gone("tmp", child[d].name)
  /\ UNCHANGED <<clock, inode, pop, told, asked, crashes>>

ChildKilled(d) ==
  /\ Alive(d) /\ End(d)
  /\ UNCHANGED <<clock, inode, dir, pop, told, asked, crashes>>

Child(d) ==
  \/ ForkChild(d) \/ StatTmp(d) \/ OpenTmp(d) \/ Write(d) \/ Sync(d) \/ LinkNew(d)
  \/ UnlinkTmp(d) \/ Fails(d) \/ Fail(d) \/ SigAlrm(d) \/ ChildKilled(d)

-----------------------------------------------------------------------------
(* getlist() and the commands of qmail-pop3d *)

Old(n) == clock > inode[dir["tmp"][n]].atime + CleanAge

(* maildir_clean() *)
CleanTmp(s) ==
  /\ pop[s].at = "none"
  /\ pop' = [pop EXCEPT ![s].at = "new", ![s].time = clock]
  /\ dir' = [dir EXCEPT !["tmp"] = [n \in {k \in DOMAIN @ : ~Old(k)} |-> @[n]]]
  /\ UNCHANGED <<clock, child, inode, told, asked, crashes>>

(* append(): messages of this second are left for another session.          *)
Listed(s, x) == {<<x, n>> : n \in {k \in DOMAIN dir[x] : inode[dir[x][k]].mtime < pop[s].time}}

At(e) == dir[e[1]][e[2]]

(* In the order in which readdir() gives them. *)
InAnyOrder(S) == Bijection(1 .. Cardinality(S), S)

(* A wrong version: cur is read before new. *)
CurFirst == <<"cur", "new">>

Directories == <<"new", "cur">>

(* maildir_scan() *)
ScanFirst(s) ==
  /\ pop[s].at = "new"
  /\ \E q \in InAnyOrder(Listed(s, Directories[1])) :
       pop' = [pop EXCEPT ![s].at = "cur", ![s].list = q,
                          ![s].there = {At(e) : e \in Listed(s, "new") \cup Listed(s, "cur")}]
  /\ UNCHANGED <<clock, child, inode, dir, told, asked, crashes>>

ScanSecond(s) ==
  /\ pop[s].at = "cur"
  /\ \E q \in InAnyOrder(Listed(s, Directories[2])) :
       pop' = [pop EXCEPT ![s].at = "commands", ![s].list = @ \o q]
  /\ UNCHANGED <<clock, child, inode, dir, told, asked, crashes>>

(* The client knows message i by what it read when it was listed.           *)
Dele(s, i) ==
  /\ pop[s].at = "commands" /\ i \in DOMAIN pop[s].list \ pop[s].del
  /\ LET e == pop[s].list[i] IN
     /\ In(e[1], e[2])
     /\ asked' = asked \cup {At(e)}
  /\ pop' = [pop EXCEPT ![s].del = @ \cup {i}]
  /\ UNCHANGED <<clock, child, inode, dir, told, crashes>>

Rset(s) ==
  /\ pop[s].at = "commands" /\ pop' = [pop EXCEPT ![s].del = {}]
  /\ UNCHANGED <<clock, child, inode, dir, told, asked, crashes>>

Quit(s) ==
  /\ pop[s].at = "commands" /\ pop' = [pop EXCEPT ![s].at = "quit"]
  /\ UNCHANGED <<clock, child, inode, dir, told, asked, crashes>>

(* pop3_quit() for the first message of the list that is left: unlink() or  *)
(* rename() into cur, which may both find that it is gone.                  *)
QuitOne(s) ==
  /\ pop[s].at = "quit" /\ pop[s].list # <<>>
  /\ LET e == Head(pop[s].list) IN
     dir' = IF ~In(e[1], e[2]) THEN dir
            ELSE IF 1 \in pop[s].del THEN Gone(e[1], e[2])
            ELSE IF e[1] = "new"
                 THEN [Gone("new", e[2]) EXCEPT !["cur"] = More(@, e[2], At(e))]
                 ELSE dir
  /\ pop' = [pop EXCEPT ![s].list = Tail(@), ![s].del = {i - 1 : i \in @ \ {1}}]
  /\ UNCHANGED <<clock, child, inode, told, asked, crashes>>

(* After QUIT, or at any time: a client that goes, the alarm of 20 minutes. *)
EndSession(s) ==
  /\ pop[s].at # "none" /\ pop' = [pop EXCEPT ![s] = NoPop]
  /\ UNCHANGED <<clock, child, inode, dir, told, asked, crashes>>

Session(s) ==
  \/ CleanTmp(s) \/ ScanFirst(s) \/ ScanSecond(s) \/ Rset(s) \/ Quit(s) \/ QuitOne(s) \/ EndSession(s)
  \/ \E i \in DOMAIN pop[s].list : Dele(s, i)

-----------------------------------------------------------------------------
(* The kernel delivers an alarm before half a day has passed.               *)
Tick ==
  /\ clock < Horizon /\ clock' = clock + 1
  /\ \A d \in Deliveries : Armed(d) => clock < child[d].alarm
  /\ UNCHANGED <<child, inode, dir, pop, told, asked, crashes>>

(* Directories are kept; a file that was not synced may lose its contents.  *)
Crash ==
  /\ crashes < Crashes /\ crashes' = crashes + 1
  /\ child' = [d \in Deliveries |-> IF Alive(d) THEN Ended(d) ELSE child[d]]
  /\ inode' = [d \in Deliveries |-> [inode[d] EXCEPT !.whole = @ /\ inode[d].synced]]
  /\ pop' = [s \in Sessions |-> NoPop]
  /\ UNCHANGED <<clock, dir, told, asked>>

Next ==
  \/ \E d \in Deliveries : Child(d)
  \/ \E s \in Sessions : Session(s)
  \/ Tick \/ Crash

Spec == Init /\ [][Next]_vars

-----------------------------------------------------------------------------
TypeOK ==
  /\ clock \in 0 .. Horizon /\ crashes \in 0 .. Crashes
  /\ \A x \in DOMAIN dir : DOMAIN dir[x] \subseteq Names /\ Range(dir[x]) \subseteq Deliveries
  /\ \A d \in Deliveries : Armed(d) => child[d].alarm \in clock .. clock + AlarmAge
  /\ \A s \in Sessions : pop[s].del \subseteq DOMAIN pop[s].list
  /\ told \subseteq Deliveries /\ asked \subseteq Deliveries

Kept(d) == \E x \in {"new", "cur"} : d \in Range(dir[x])

(* What a reader can see is a whole message, and stays one over a crash.    *)
WholeMessages ==
  \A x \in {"new", "cur"} : \A d \in Range(dir[x]) : inode[d].whole /\ inode[d].synced

(* A message that was reported as delivered is there until a client of some *)
(* session deletes that very message, whatever the other sessions listed,    *)
(* moved or removed.                                                         *)
ToldIsKept == \A d \in told : Kept(d) \/ d \in asked

(* Cleaning never takes the file of a delivery that goes on: the alarm ends  *)
(* it before its file is old.                                                *)
CleanSparesDeliveries ==
  \A d \in Deliveries : Armed(d) => In("tmp", child[d].name) /\ dir["tmp"][child[d].name] = d

(* A session lists every message that was there when it began to read, and   *)
(* is still there, although another one moves it from new to cur meanwhile.  *)
NothingOverlooked ==
  \A s \in Sessions : pop[s].at = "commands" =>
    \A d \in pop[s].there :
      Kept(d) => \E i \in DOMAIN pop[s].list : LET e == pop[s].list[i] IN
                   \E x \in {"new", "cur"} : In(x, e[2]) /\ dir[x][e[2]] = d
=============================================================================
