------------------------------ MODULE Forwarding ------------------------------
(***************************************************************************)
(* What qmail-local does with a message by the lines of a .qmail file, and   *)
(* where that sends mail: forwarding, owners of lists, bounces of qmail-send *)
(* and bounces of bounces.  Addresses forward to each other as they like.    *)
(* Messages share nothing here, so that they are delivered one at a time, in *)
(* the order of a queue: concurrencylocal is 1.                              *)
(***************************************************************************)
EXTENDS Naturals, FiniteSets, Sequences, Functions

CONSTANTS
  Addrs, Postmaster,
  Empty, Discard,   \* the senders "" and "#@[]"
  Files,            \* Files[a]: the possible .qmail files of a; <<>>: no such mailbox
  Owners,           \* Owners[a]: the possible addresses of a-owner; Empty: none
  Cut,              \* addresses whose file has its x bit set
  Starts,           \* recipients and senders of the first message
  Tries,            \* how often a message is tried in its lifetime
  Kills,            \* bound on killed deliveries
  MaxMail           \* bound on the messages ever queued

LineOfFile ==
  [kind : {"file", "program", "list"}] \cup [kind : {"forward"}, to : Addrs]

ForwardingAssumption ==
  /\ IsFiniteSet(Addrs) /\ Postmaster \in Addrs /\ Empty \notin Addrs /\ Discard \notin Addrs
  /\ \A a \in Addrs : Files[a] \subseteq Seq(LineOfFile) /\ Owners[a] \subseteq Addrs \cup {Empty}
  /\ Cut \subseteq Addrs /\ Starts \subseteq Addrs \X (Addrs \cup {Empty})
  /\ Tries \in Nat \ {0} /\ Kills \in Nat /\ MaxMail \in Nat \ {0}

VARIABLES
  dotqmail, owner,   \* the files, which do not change
  mails,             \* the queue: a sequence of messages, for one recipient each
  queued,            \* messages ever queued
  kills

vars == <<dotqmail, owner, mails, queued, kills>>

(* dt: the Delivered-To lines; line: 0 before a try; sent: tries that got to *)
(* forward; hops, bounces: how often its ancestors were forwarded, bounced.   *)
Mail(a, s, dt, h, b) ==
  [to |-> a, sender |-> s, dt |-> dt, line |-> 0, fwd |-> {}, cut |-> FALSE,
   try |-> 1, sent |-> 0, hops |-> h, bounces |-> b]

Init ==
  /\ dotqmail \in {f \in [Addrs -> UNION {Files[a] : a \in Addrs}] : \A a \in Addrs : f[a] \in Files[a]}
  /\ owner \in {f \in [Addrs -> UNION {Owners[a] : a \in Addrs}] : \A a \in Addrs : f[a] \in Owners[a]}
  /\ \E e \in Starts : mails = <<Mail(e[1], e[2], {}, 0, 0)>>
  /\ queued = 1 /\ kills = 0

Lines(m) == dotqmail[m.to]
Line(m) == Lines(m)[m.line]
Replace(m, k) == mails' = <<k>> \o Tail(mails)
Later(S) == mails' = Tail(mails) \o S

-----------------------------------------------------------------------------
(* qmail-send *)

(* A wrong version: a bounce bounces to the address that bounced. *)
PermAgain(m) ==
  IF m.sender = Discard
  THEN mails' = Tail(mails) /\ UNCHANGED queued
  ELSE /\ queued < MaxMail /\ queued' = queued + 1
       /\ Later(<<IF m.sender = Empty
                   THEN Mail(Postmaster, Empty, {}, 0, m.bounces + 1)
                   ELSE Mail(m.sender, Empty, {}, 0, m.bounces + 1)>>)

(* A report of failure: injectbounce().                                     *)
Perm(m) ==
  IF m.sender = Discard
  THEN mails' = Tail(mails) /\ UNCHANGED queued
  ELSE /\ queued < MaxMail /\ queued' = queued + 1
       /\ Later(<<IF m.sender = Empty
                   THEN Mail(Postmaster, Discard, {}, 0, m.bounces + 1)
                   ELSE Mail(m.sender, Empty, {}, 0, m.bounces + 1)>>)

(* A deferral; the last try of a message is answered as a failure.          *)
Temp(m) ==
  IF m.try = Tries
  THEN Perm(m)
  ELSE Later(<<[m EXCEPT !.line = 0, !.fwd = {}, !.try = @ + 1]>>) /\ UNCHANGED queued

-----------------------------------------------------------------------------
(* qmail-local *)

(* bouncexf() and qmesearch(), then the first line.                         *)
Begin(m) ==
  /\ m.line = 0
  /\ IF m.to \in m.dt \/ Lines(m) = <<>>
     THEN Perm(m)
     ELSE Replace(m, [m EXCEPT !.line = 1, !.cut = m.to \in Cut]) /\ UNCHANGED queued
  /\ UNCHANGED <<dotqmail, owner, kills>>

(* checkhome(): the home directory is sticky or writable.                   *)
HomeTrouble(m) ==
  /\ m.line = 0 /\ Temp(m)
  /\ UNCHANGED <<dotqmail, owner, kills>>

InLines(m) == m.line \in 1 .. Len(Lines(m))
Proceed(m) == Replace(m, [m EXCEPT !.line = @ + 1]) /\ UNCHANGED queued

FileLine(m) ==
  /\ InLines(m) /\ Line(m).kind = "file"
  /\ \/ m.cut /\ Temp(m)
     \/ ~m.cut /\ (Proceed(m) \/ Temp(m) \/ Perm(m))
  /\ UNCHANGED <<dotqmail, owner, kills>>

(* Exit codes 0, 99, 111 and 100.                                           *)
ProgramLine(m) ==
  /\ InLines(m) /\ Line(m).kind = "program"
  /\ \/ m.cut /\ Temp(m)
     \/ ~m.cut /\ \/ Proceed(m) \/ Temp(m) \/ Perm(m)
                  \/ Replace(m, [m EXCEPT !.line = Len(Lines(m)) + 1]) /\ UNCHANGED queued
  /\ UNCHANGED <<dotqmail, owner, kills>>

(* +list *)
ListLine(m) ==
  /\ InLines(m) /\ Line(m).kind = "list"
  /\ Replace(m, [m EXCEPT !.line = @ + 1, !.cut = TRUE]) /\ UNCHANGED queued
  /\ UNCHANGED <<dotqmail, owner, kills>>

(* A wrong version: forwards at once, before the later lines. *)
ForwardNow(m) ==
  /\ InLines(m) /\ Line(m).kind = "forward"
  /\ queued < MaxMail /\ queued' = queued + 1
  /\ mails' = <<[m EXCEPT !.line = @ + 1, !.sent = @ + 1]>> \o Tail(mails) \o <<Mail(Line(m).to, m.sender, m.dt \cup {m.to}, m.hops + 1, m.bounces)>>
  /\ UNCHANGED <<dotqmail, owner, kills>>

ForwardLine(m) ==
  /\ InLines(m) /\ Line(m).kind = "forward"
  /\ Replace(m, [m EXCEPT !.line = @ + 1, !.fwd = @ \cup {Line(m).to}]) /\ UNCHANGED queued
  /\ UNCHANGED <<dotqmail, owner, kills>>

(* A wrong version: bounces of bounces go to the owner too. *)
NewSenderOfBounces(m) ==
  IF owner[m.to] = Empty THEN m.sender ELSE owner[m.to]

(* NEWSENDER: bounces of what a list sends go to its owner.                 *)
NewSender(m) ==
  IF m.sender \in {Empty, Discard} \/ owner[m.to] = Empty THEN m.sender ELSE owner[m.to]

InAnyOrder(S) == CHOOSE q \in Bijection(1 .. Cardinality(S), S) : TRUE

(* A wrong version: the Delivered-To line is left out. *)
CopiesUnmarked(m) ==
  InAnyOrder({Mail(a, NewSender(m), m.dt, m.hops + 1, m.bounces) : a \in m.fwd})

(* mailforward(): one message, here one for each of its recipients.         *)
Copies(m) ==
  InAnyOrder({Mail(a, NewSender(m), m.dt \cup {m.to}, m.hops + 1, m.bounces) : a \in m.fwd})

(* After the last line, or 99.  A delivery killed after qmail-queue took the *)
(* message is tried again.                                                   *)
Finish(m) ==
  /\ m.line = Len(Lines(m)) + 1
  /\ \/ /\ queued + Cardinality(m.fwd) <= MaxMail
        /\ queued' = queued + Cardinality(m.fwd)
        /\ \/ Later(Copies(m)) /\ UNCHANGED kills
           \/ /\ kills < Kills /\ kills' = kills + 1 /\ m.try < Tries
              /\ Later(Copies(m) \o <<[m EXCEPT !.line = 0, !.fwd = {}, !.try = @ + 1, !.sent = @ + 1]>>)
     \/ m.fwd # {} /\ (Temp(m) \/ Perm(m)) /\ UNCHANGED kills
  /\ UNCHANGED <<dotqmail, owner>>

Deliver(m) ==
  \/ Begin(m) \/ HomeTrouble(m) \/ FileLine(m) \/ ProgramLine(m) \/ ListLine(m) \/ ForwardLine(m)
  \/ Finish(m)

Next == mails # <<>> /\ Deliver(Head(mails))

Spec == Init /\ [][Next]_vars
Fairness == WF_vars(Next)
FairSpec == Spec /\ Fairness

-----------------------------------------------------------------------------
TypeOK ==
  /\ \A m \in Range(mails) :
       /\ m.to \in Addrs /\ m.sender \in Addrs \cup {Empty, Discard}
       /\ m.dt \subseteq Addrs /\ m.fwd \subseteq Addrs
       /\ m.line \in 0 .. Len(Lines(m)) + 1 /\ m.try \in 1 .. Tries
  /\ Len(mails) <= queued /\ queued \in 1 .. MaxMail /\ kills \in 0 .. Kills

(* Every hop of a message adds an address that it has not been at: a loop of *)
(* .qmail files is left after one round.                                     *)
EveryHopIsNew == \A m \in Range(mails) : m.hops = Cardinality(m.dt)

(* A message bounces, its bounce goes to the postmaster, and that is the end,*)
(* although bounces are forwarded and their copies fail in their turn.       *)
AtMostTwoBounces == \A m \in Range(mails) : m.bounces <= 2

(* The owner of a list gets bounces, never bounces of bounces of its own.    *)
BouncesKeepSender == \A m \in Range(mails) : m.bounces > 0 => m.sender \in {Empty, Discard}

(* What was forwarded is forwarded again only when the delivery was killed   *)
(* before it could say so, however often other lines are deferred.            *)
ForwardedOnce == \A m \in Range(mails) : m.sent <= kills

(* Mail comes to rest, whatever the .qmail files, owners and failures are.    *)
ComesToRest == <>(mails = <<>>)
=============================================================================
