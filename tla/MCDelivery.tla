------------------------------ MODULE MCDelivery ------------------------------
(* Small instances of the deliveries: into a maildir, into a mbox, to other   *)
(* addresses, and over SMTP. They share no state: a behaviour is one of the   *)
(* part that runs.                                                            *)
EXTENDS Naturals, FiniteSets, Sequences

CONSTANTS
  Maildirs,    \* the maildirs: records of a part and the constants of Maildir
  BoxUsers, NoUser, BoxTroubles,
  Networks,    \* the addresses: records of a part and the constants of Forwarding
  Tables,      \* the tables of hosts: records of a part and the constants of TcpTo
  Remotes      \* the hosts: records of a part and the constants of QmailRemote

VARIABLES
  part,        \* the part that runs
  maildir_clock, child, inode, dir, pop, maildir_told, asked, crashes,
  mbox, safe, at, pos, holder, mbox_told, troubles,
  dotqmail, owner, mails, queued, kills,
  tcpto_clock, table, tcpto_pc, ip, wasthere, fails,
  remote_pc, mx, tls, reply, remote_out, critical, accepted, heard, copies, tries, excuses,
  outcome,
  message, limit, wire, refused, state, dot_out, done

maildirVars == <<maildir_clock, child, inode, dir, pop, maildir_told, asked, crashes>>
mboxVars == <<mbox, safe, at, pos, holder, mbox_told, troubles>>
fwdVars == <<dotqmail, owner, mails, queued, kills>>
tcptoVars == <<tcpto_clock, table, tcpto_pc, ip, wasthere, fails>>
remoteVars == <<remote_pc, mx, tls, reply, remote_out, critical, accepted, heard, copies, tries,
    excuses, outcome>>
dotVars == <<message, limit, wire, refused, state, dot_out, done>>
vars == <<part, maildirVars, mboxVars, fwdVars, tcptoVars, remoteVars, dotVars>>

(* Three addresses whose files forward to each other in every way. *)
File == [kind |-> "file"]
Program == [kind |-> "program"]
To(x) == [kind |-> "forward", to |-> x]
List == [kind |-> "list"]
MCFiles ==
  [x \in {"a", "b", "p"} |->
     CASE x = "a" -> {<<To("b")>>, <<To("p"), To("b")>>, <<To("b"), Program>>}
       [] x = "b" -> {<<>>, <<To("a")>>, <<List, To("a"), File>>}
       [] x = "p" -> {<<File>>, <<To("a")>>}]
MCOwners == [x \in {"a", "b", "p"} |-> IF x = "a" THEN {"", "b"} ELSE {""}]

(* Two addresses, more tries. *)
TwoFiles == [x \in {"a", "p"} |-> IF x = "a" THEN {<<To("p"), Program>>, <<List, To("p"), Program>>} ELSE {<<To("a")>>}]
TwoOwners == [x \in {"a", "p"} |-> IF x = "a" THEN {"", "p"} ELSE {""}]

MCMaildirs ==
  {[part |-> "maildir", deliveries |-> {"d1", "d2"}, pids |-> {1}, sessions |-> {"s1"},
    alarm |-> 1, clean |-> 2, horizon |-> 2, crashes |-> 1],
   [part |-> "maildir cleaning", deliveries |-> {"d1"}, pids |-> {1}, sessions |-> {"s1"},
    alarm |-> 2, clean |-> 3, horizon |-> 4, crashes |-> 1],
   [part |-> "two sessions", deliveries |-> {"d1", "d2"}, pids |-> {1}, sessions |-> {"s1", "s2"},
    alarm |-> 2, clean |-> 3, horizon |-> 1, crashes |-> 0]}
MCNetworks ==
  {[part |-> "forwarding", addrs |-> {"a", "b", "p"}, postmaster |-> "p", files |-> MCFiles,
    owners |-> MCOwners, cut |-> {}, starts |-> {<<"a", "b">>}, empty |-> "",
    discard |-> "#@[]", tries |-> 1, kills |-> 0, maxmail |-> 30],
   [part |-> "tries", addrs |-> {"a", "p"}, postmaster |-> "p", files |-> TwoFiles,
    owners |-> TwoOwners, cut |-> {"p"}, starts |-> {<<"a", "p">>}, empty |-> "",
    discard |-> "#@[]", tries |-> 2, kills |-> 1, maxmail |-> 30]}
MCTables ==
  {[part |-> "tcpto", procs |-> {"p1", "p2"}, ips |-> {"i", "j"}, noip |-> "none", slots |-> {0, 1},
    damper |-> 1, hour |-> 1, horizon |-> 5],
   [part |-> "full table", procs |-> {"p1", "p2"}, ips |-> {"i", "j", "k"}, noip |-> "none", slots |-> {0, 1},
    damper |-> 1, hour |-> 1, horizon |-> 2]}
MCRemotes ==
  {[part |-> "remote", hosts |-> 2, needtls |-> FALSE, cantls |-> TRUE, hasauth |-> TRUE,
    insecure |-> FALSE, tries |-> 3, quitfails |-> FALSE],
   [part |-> "remote with TLS", hosts |-> 2, needtls |-> TRUE, cantls |-> TRUE, hasauth |-> TRUE,
    insecure |-> TRUE, tries |-> 2, quitfails |-> TRUE]}

Dir(k) == INSTANCE Maildir WITH Deliveries <- k.deliveries, Pids <- k.pids, Sessions <- k.sessions,
    AlarmAge <- k.alarm, CleanAge <- k.clean, Horizon <- k.horizon, Crashes <- k.crashes,
    clock <- maildir_clock, told <- maildir_told

Box == INSTANCE Mbox WITH Deliveries <- BoxUsers, NoDelivery <- NoUser, Troubles <- BoxTroubles,
    told <- mbox_told

Fwd(k) == INSTANCE Forwarding WITH Addrs <- k.addrs, Postmaster <- k.postmaster, Empty <- k.empty,
    Discard <- k.discard, Files <- k.files, Owners <- k.owners, Cut <- k.cut, Starts <- k.starts,
    Tries <- k.tries, Kills <- k.kills, MaxMail <- k.maxmail

Table(k) == INSTANCE TcpTo WITH Procs <- k.procs, Ips <- k.ips, NoIp <- k.noip, Slots <- k.slots,
    Damper <- k.damper, Hour <- k.hour, Every <- FALSE, Horizon <- k.horizon, clock <- tcpto_clock,
    pc <- tcpto_pc

Remote(k) == INSTANCE QmailRemote WITH Hosts <- k.hosts, NeedTls <- k.needtls,
    CanTls <- k.cantls, HasAuth <- k.hasauth, Insecure <- k.insecure, Tries <- k.tries,
    QuitFails <- k.quitfails, pc <- remote_pc, out <- remote_out

Dots == INSTANCE DotCode WITH Way <- "remote", MaxLen <- 5, MaxTop <- 2, out <- dot_out
AnyDots == INSTANCE DotCode WITH Way <- "any", MaxLen <- 5, MaxTop <- 2, out <- dot_out
Pop == INSTANCE DotCode WITH Way <- "pop3", MaxLen <- 5, MaxTop <- 2, out <- dot_out

PartsOf(S) == {k.part : k \in S}

ASSUME InstancesAssumption ==
  /\ \A k \in Maildirs : Dir(k)!MaildirAssumption
  /\ \A k \in Networks : Fwd(k)!ForwardingAssumption
  /\ \A k \in Remotes : Remote(k)!RemoteAssumption
  /\ \A k \in Tables : Table(k)!TcpToAssumption
  /\ \A S \in {Maildirs, Networks, Remotes, Tables} : S # {} /\ \A j, k \in S : j.part = k.part => j = k
  /\ Box!MboxAssumption
  /\ Dots!DotCodeAssumption /\ AnyDots!DotCodeAssumption /\ Pop!DotCodeAssumption

(* The instance of a part that runs, or any one.                              *)
May(k, S) == k.part = part \/ (part \notin PartsOf(S) /\ k = CHOOSE j \in S : TRUE)

Init ==
  /\ part \in PartsOf(Maildirs) \cup PartsOf(Networks) \cup PartsOf(Tables) \cup PartsOf(Remotes)
        \cup {"mbox", "dots", "any dots", "dots of TOP"}
  /\ \E k \in Maildirs : May(k, Maildirs) /\ Dir(k)!Init
  /\ Box!Init
  /\ IF part \in PartsOf(Networks) THEN \E k \in Networks : part = k.part /\ Fwd(k)!Init
     ELSE dotqmail = <<>> /\ owner = <<>> /\ mails = <<>> /\ queued = 0 /\ kills = 0
  /\ \E k \in Tables : May(k, Tables) /\ Table(k)!Init
  /\ \E k \in Remotes : May(k, Remotes) /\ Remote(k)!Init
  /\ CASE part = "dots of TOP" -> Pop!Init [] part = "any dots" -> AnyDots!Init [] OTHER -> Dots!Init
  /\ part \in {"dots", "any dots", "dots of TOP"} \/ message = <<>>

IntoMaildir ==
  /\ \E k \in Maildirs : part = k.part /\ Dir(k)!Next
  /\ UNCHANGED <<part, mboxVars, fwdVars, tcptoVars, remoteVars, dotVars>>

IntoMbox ==
  /\ part = "mbox" /\ Box!Next
  /\ UNCHANGED <<part, maildirVars, fwdVars, tcptoVars, remoteVars, dotVars>>

Forwards ==
  /\ \E k \in Networks : part = k.part /\ Fwd(k)!Next
  /\ UNCHANGED <<part, maildirVars, mboxVars, tcptoVars, remoteVars, dotVars>>

Remembers ==
  /\ \E k \in Tables : part = k.part /\ Table(k)!Next
  /\ UNCHANGED <<part, maildirVars, mboxVars, fwdVars, remoteVars, dotVars>>

OverSmtp ==
  /\ \E k \in Remotes : part = k.part /\ Remote(k)!Next
  /\ UNCHANGED <<part, maildirVars, mboxVars, fwdVars, tcptoVars, dotVars>>

Decodes ==
  /\ \/ part = "dots" /\ Dots!Next
     \/ part = "any dots" /\ AnyDots!Next
     \/ part = "dots of TOP" /\ Pop!Next
  /\ UNCHANGED <<part, maildirVars, mboxVars, fwdVars, tcptoVars, remoteVars>>

Next == IntoMaildir \/ IntoMbox \/ Forwards \/ Remembers \/ OverSmtp \/ Decodes

Spec == Init /\ [][Next]_vars

-----------------------------------------------------------------------------
(* A file of a maildir's new/ or cur/ is whole, after a crash too; a delivery *)
(* that was reported as done is there until a session deletes it, and is      *)
(* whole in a mbox; one that failed has left nothing behind there, unless it  *)
(* could not be cut off; cleaning spares the files of deliveries that still   *)
(* run; and a session overlooks no message while another one moves it.        *)
MailboxesKeep ==
  /\ \A k \in Maildirs : part = k.part =>
       Dir(k)!TypeOK /\ Dir(k)!WholeMessages /\ Dir(k)!ToldIsKept /\ Dir(k)!NothingOverlooked
       /\ Dir(k)!CleanSparesDeliveries
  /\ part = "mbox" => Box!TypeOK /\ Box!ToldIsWhole /\ Box!NoRemains

(* A message comes to an address once along one way, a failure leads to at    *)
(* most two bounces, and no try again forwards anew.                          *)
ForwardsBounded ==
  \A k \in Networks : part = k.part =>
    Fwd(k)!TypeOK /\ Fwd(k)!EveryHopIsNew /\ Fwd(k)!AtMostTwoBounces /\ Fwd(k)!BouncesKeepSender
    /\ Fwd(k)!ForwardedOnce

(* There is a record for every host.                                         *)
HoldsAll(k) == Cardinality(k.ips) <= Cardinality(k.slots)

(* However qmail-remotes overlap, a host has one record; it is left out only  *)
(* after two timeouts two minutes apart with no success noted in between, and *)
(* then nobody connects to it for an hour, if the table holds every host.     *)
SilentHostsRest ==
  /\ [](\A k \in Tables : part = k.part => Table(k)!TypeOK /\ Table(k)!OneRecordEach)
  /\ [][\A k \in Tables : part = k.part => Table(k)!SkipsTheSilent]_vars
  /\ [][\A k \in Tables : part = k.part /\ HoldsAll(k) => Table(k)!ConnectInPeace]_vars

(* K is reported only for a message that a host has taken; what may be there  *)
(* twice is reported as a possible duplicate; the host's last word is the     *)
(* report; and a host that must be spoken to over TLS gets no mail in the     *)
(* clear.                                                                     *)
RemoteTells ==
  \A k \in Remotes : part = k.part =>
    Remote(k)!TypeOK /\ Remote(k)!ToldIsTaken /\ Remote(k)!DuplicatesExcused /\ Remote(k)!NotInTheClear
    /\ (k.quitfails \/ Remote(k)!HeardIsTold)

(* What qmail-remote writes qmail-smtpd reads; a message ends at the first    *)
(* dot that is alone on a line between CR LFs, wherever returns and newlines  *)
(* are; and TOP and RETR send the lines that were asked for.                  *)
DotsAgree ==
  /\ part = "dots" => Dots!RoundTrip
  /\ part = "any dots" => AnyDots!EndsAtTheDot
  /\ part = "dots of TOP" => Pop!PopGetsLines

(* Files that forward to each other come to rest, and every delivery over     *)
(* SMTP ends, whatever the host does.                                         *)
DeliveriesEnd ==
  /\ \A k \in Networks : part = k.part /\ Fwd(k)!Fairness => Fwd(k)!ComesToRest
  /\ \A k \in Remotes : part = k.part /\ Remote(k)!Fairness => Remote(k)!Ends

=============================================================================
