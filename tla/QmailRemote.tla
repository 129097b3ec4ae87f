------------------------------ MODULE QmailRemote ------------------------------
(***************************************************************************)
(* qmail-remote gives a message for one recipient to the hosts of a domain,  *)
(* over a connection that can break at any time; qmail-rspawn makes one      *)
(* report of what it says, and after a temporary failure it is run again.    *)
(* The servers are honest: one has the message if and only if it says so.    *)
(***************************************************************************)
EXTENDS Naturals, Sequences

CONSTANTS
  Hosts,       \* number of hosts, best first
  NeedTls,     \* whether control/tlshosts has the certificate of the hosts
  CanTls,      \* whether control/clientcert.pem can be read
  HasAuth,     \* whether control/smtproutes has a user and a password
  Insecure,    \* whether they may be sent in the clear
  Tries,       \* how often the message is tried in its lifetime
  QuitFails    \* whether writing QUIT can fail

RemoteAssumption ==
  /\ Hosts \in Nat \ {0} /\ Tries \in Nat \ {0}
  /\ {NeedTls, CanTls, HasAuth, Insecure, QuitFails} \subseteq BOOLEAN

VARIABLES
  pc, mx, tls,
  reply,       \* what the server has said that is not read yet
  out,         \* the reports of qmail-remote, by their letters
  critical,    \* flagcritical
  accepted,    \* whether a server took the message in this try
  heard,       \* whether qmail-remote read that it did
  copies, tries,
  excuses,     \* tries that said "Possible duplicate!", broke in TLS, failed at QUIT or were killed
  outcome      \* what qmail-send is told: "none", "K", "Z" or "D"

conn == <<mx, tls>>
message == <<accepted, heard, copies>>
vars == <<pc, mx, tls, reply, out, critical, accepted, heard, copies, tries, excuses, outcome>>

Start == /\ pc = "mx" /\ mx = 1 /\ tls = FALSE /\ reply = "none" /\ out = <<>> /\ critical = FALSE
         /\ accepted = FALSE /\ heard = FALSE
Init == Start /\ copies = 0 /\ tries = 1 /\ excuses = 0 /\ outcome = "none"

Waiting == {"greet", "ehlo", "helo", "starttls", "ehlo2", "auth", "mail", "rcpt", "data", "final"}

-----------------------------------------------------------------------------
(* The server answers.  Letters where digits should be count as "perm".      *)
Answer ==
  /\ pc \in Waiting /\ reply = "none"
  /\ reply' \in {"ok", "temp", "perm"} \cup (IF pc = "greet" THEN {"odd"} ELSE {})
  /\ IF pc = "final" /\ reply' = "ok"
     THEN accepted' = TRUE /\ copies' = copies + 1
     ELSE UNCHANGED <<accepted, copies>>
  /\ UNCHANGED <<pc, mx, tls, out, critical, heard, tries, excuses, outcome>>

-----------------------------------------------------------------------------
(* qmail-remote *)

Exit(letter) == pc' = "exited" /\ out' = Append(out, letter)

(* quit(): the flush of QUIT can end in dropped().                            *)
Quit(letter) ==
  \/ Exit(letter) /\ UNCHANGED excuses
  \/ QuitFails /\ Exit("Z") /\ excuses' = excuses + 1

Send(p) == pc' = p /\ UNCHANGED <<out, excuses>>

Rest == UNCHANGED <<mx, tls, critical, accepted, heard, copies, tries, outcome>>

(* timeoutconn() fails, or a host that timed out before is left out.         *)
NoConnection ==
  /\ pc = "mx"
  /\ IF mx < Hosts THEN mx' = mx + 1 /\ UNCHANGED <<pc, out>> ELSE Exit("Z") /\ UNCHANGED mx
  /\ UNCHANGED <<tls, reply, critical, message, tries, excuses, outcome>>

Connect ==
  /\ pc = "mx" /\ pc' = "greet"
  /\ UNCHANGED <<conn, reply, out, critical, message, tries, excuses, outcome>>

Hear(p, c) == pc = p /\ reply = c /\ reply' = "none"

(* temp_dns(), perm_dns(), perm_nomx(), perm_ambigmx() *)
NoHost ==
  /\ pc = "mx" /\ mx = 1 /\ \E c \in {"Z", "D"} : Exit(c)
  /\ UNCHANGED <<conn, reply, critical, message, tries, excuses, outcome>>

(* A wrong version: a host that refuses is asked again. *)
GreetedAgain ==
  \/ Hear("greet", "ok") /\ Send("ehlo") /\ Rest
  \/ Hear("greet", "odd") /\ Quit("Z") /\ Rest
  \/ /\ Hear("greet", "temp") \/ Hear("greet", "perm")
     /\ pc' = "mx"
     /\ UNCHANGED <<mx, out, tls, critical, message, tries, excuses, outcome>>

(* The next host is tried if this one does not want to talk.                 *)
Greeted ==
  \/ Hear("greet", "ok") /\ Send("ehlo") /\ Rest
  \/ Hear("greet", "odd") /\ Quit("Z") /\ Rest
  \/ /\ Hear("greet", "temp") \/ Hear("greet", "perm")
     /\ IF mx < Hosts THEN mx' = mx + 1 /\ pc' = "mx" /\ UNCHANGED out ELSE Exit("Z") /\ UNCHANGED mx
     /\ UNCHANGED <<tls, critical, message, tries, excuses, outcome>>

(* AUTH follows if it is offered; then MAIL.                                 *)
Introduced ==
  \/ HasAuth /\ (tls \/ Insecure) /\ Send("auth")
  \/ Send("mail")

(* Without TLS, mail for a host with a certificate in tlshosts is kept.      *)
InTheClear ==
  \/ ~(CanTls /\ NeedTls) /\ Introduced
  \/ CanTls /\ NeedTls /\ Exit("Z") /\ UNCHANGED excuses

Named ==
  \/ Hear("ehlo", "ok") /\ (InTheClear \/ (CanTls /\ Send("starttls"))) /\ Rest
  \/ (Hear("ehlo", "temp") \/ Hear("ehlo", "perm")) /\ Send("helo") /\ Rest
  \/ Hear("helo", "ok") /\ InTheClear /\ Rest
  \/ (\E p \in {"helo", "ehlo2"}, c \in {"temp", "perm"} : Hear(p, c)) /\ Quit("Z") /\ Rest
  \/ Hear("ehlo2", "ok") /\ Introduced /\ Rest

(* A wrong version: a refused STARTTLS is passed over. *)
StartTlsOrNot ==
  \/ /\ Hear("starttls", "ok") /\ Send("ehlo2") /\ tls' = TRUE
     /\ UNCHANGED <<mx, critical, message, tries, outcome>>
  \/ Hear("starttls", "ok") /\ Exit("Z") /\ UNCHANGED excuses /\ Rest
  \/ (Hear("starttls", "temp") \/ Hear("starttls", "perm")) /\ Introduced /\ Rest

(* STARTTLS is accepted and the handshake succeeds or not, or it is refused.  *)
StartTls ==
  \/ /\ Hear("starttls", "ok") /\ Send("ehlo2") /\ tls' = TRUE
     /\ UNCHANGED <<mx, critical, message, tries, outcome>>
  \/ Hear("starttls", "ok") /\ Exit("Z") /\ UNCHANGED excuses /\ Rest
  \/ (Hear("starttls", "temp") \/ Hear("starttls", "perm")) /\ InTheClear /\ Rest

Authenticated ==
  \/ Hear("auth", "ok") /\ Send("mail") /\ Rest
  \/ (Hear("auth", "temp") \/ Hear("auth", "perm")) /\ Quit("Z") /\ Rest

Envelope ==
  \/ Hear("mail", "ok") /\ Send("rcpt") /\ Rest
  \/ Hear("mail", "temp") /\ Quit("Z") /\ Rest
  \/ Hear("mail", "perm") /\ Quit("D") /\ Rest
  \/ Hear("rcpt", "ok") /\ pc' = "data" /\ out' = Append(out, "r") /\ UNCHANGED excuses /\ Rest
  \/ /\ \/ Hear("rcpt", "temp") /\ (pc' = "quit" /\ out' = Append(out, "s"))
        \/ Hear("rcpt", "perm") /\ (pc' = "quit" /\ out' = Append(out, "h"))
     /\ UNCHANGED excuses /\ Rest

(* No recipient is left.                                                     *)
NoRecipient == pc = "quit" /\ Quit("D") /\ UNCHANGED reply /\ Rest

Data ==
  \/ Hear("data", "ok") /\ Send("body") /\ Rest
  \/ Hear("data", "temp") /\ Quit("Z") /\ Rest
  \/ Hear("data", "perm") /\ Quit("D") /\ Rest

(* A wrong version: critical only when the dot is on its way. *)
BlastLate ==
  /\ pc = "body"
  /\ \/ pc' = "final" /\ UNCHANGED <<critical, out>>
     \/ \E c \in {"Z", "D"} : Exit(c) /\ UNCHANGED critical
  /\ UNCHANGED <<conn, reply, message, tries, excuses, outcome>>

(* blast(): the message cannot be read, or ends in the middle of a line, or   *)
(* the dot is sent.                                                          *)
Blast ==
  /\ pc = "body"
  /\ \/ pc' = "final" /\ critical' = TRUE /\ UNCHANGED out
     \/ \E c \in {"Z", "D"} : Exit(c) /\ UNCHANGED critical
  /\ UNCHANGED <<conn, reply, message, tries, excuses, outcome>>

Final ==
  /\ \/ Hear("final", "ok") /\ heard' = TRUE /\ Quit("K")
     \/ Hear("final", "temp") /\ Quit("Z") /\ UNCHANGED heard
     \/ Hear("final", "perm") /\ Quit("D") /\ UNCHANGED heard
  /\ critical' = FALSE
  /\ UNCHANGED <<mx, tls, accepted, copies, tries, outcome>>

(* dropped(), or the end of the TLS connection, which gives no warning.      *)
Break ==
  /\ pc \in Waiting \cup {"body"}
  /\ Exit("Z")
  /\ excuses' = IF tls \/ critical THEN excuses + 1 ELSE excuses
  /\ reply' = "none"
  /\ UNCHANGED <<conn, critical, message, tries, outcome>>

Killed ==
  /\ pc \notin {"exited", "done"} /\ pc' = "exited" /\ out' = <<"crashed">>
  /\ excuses' = excuses + 1 /\ reply' = "none"
  /\ UNCHANGED <<conn, critical, message, tries, outcome>>

-----------------------------------------------------------------------------
(* qmail-rspawn *)

(* A wrong version: any report of a recipient that is liked is a success. *)
ReportSoon(s) ==
  IF s[1] = "crashed" THEN "Z"
  ELSE IF s[1] = "r" THEN "K" ELSE IF s[1] = "s" THEN "Z" ELSE IF s[1] = "h" THEN "D"
  ELSE s[Len(s)]

(* A wrong version: what is said of the recipient counts. *)
ReportFirst(s) ==
  IF s[1] = "crashed" THEN "Z"
  ELSE IF s[1] = "s" THEN "Z" ELSE IF s[1] = "h" THEN "D"
  ELSE s[1]

(* report(): the message's letter, unless the recipient was refused.          *)
Report(s) ==
  IF s[1] = "crashed" THEN "Z"
  ELSE IF s[1] = "s" THEN "Z" ELSE IF s[1] = "h" THEN "D"
  ELSE s[Len(s)]

(* qmail-send tries a message again after Z, except for the last time.       *)
Told ==
  /\ pc = "exited"
  /\ outcome' = (IF Report(out) = "Z" /\ tries = Tries THEN "D" ELSE Report(out))
  /\ IF outcome' = "Z"
     THEN /\ pc' = "mx" /\ mx' = 1 /\ tls' = FALSE /\ out' = <<>> /\ critical' = FALSE
          /\ accepted' = FALSE /\ heard' = FALSE /\ tries' = tries + 1
     ELSE pc' = "done" /\ UNCHANGED <<conn, out, critical, accepted, heard, tries>>
  /\ UNCHANGED <<reply, copies, excuses>>

Next ==
  \/ Answer \/ NoConnection \/ Connect \/ NoHost \/ Greeted \/ Named \/ StartTls \/ Authenticated
  \/ Envelope \/ NoRecipient \/ Data \/ Blast \/ Final \/ Break \/ Killed \/ Told

Spec == Init /\ [][Next]_vars
Fairness == WF_vars(Next)
FairSpec == Spec /\ Fairness

-----------------------------------------------------------------------------
TypeOK ==
  /\ pc \in Waiting \cup {"mx", "body", "quit", "exited", "done"} /\ mx \in 1 .. Hosts /\ tls \in BOOLEAN
  /\ reply \in {"none", "ok", "temp", "perm", "odd"} /\ critical \in BOOLEAN
  /\ tries \in 1 .. Tries /\ copies \in 0 .. Tries /\ excuses \in 0 .. Tries
  /\ outcome \in {"none", "K", "Z", "D"} /\ (pc = "exited" => out # <<>>)

(* "K: host has taken responsibility": only a message that a host has is      *)
(* reported as delivered.                                                    *)
ToldIsTaken == outcome = "K" => accepted

(* A message arrives twice, or arrives and bounces, only after a try that     *)
(* said "Possible duplicate!", or broke in TLS or at QUIT, or was killed.    *)
DuplicatesExcused ==
  outcome # "none" /\ pc \in {"mx", "done"} => copies <= excuses + (IF outcome = "K" THEN 1 ELSE 0)

(* "Z: temporary failure": what a host was heard to take is no failure.       *)
HeardIsTold == pc = "exited" /\ heard /\ out[1] # "crashed" => Report(out) = "K"

(* What is for a host with a certificate in tlshosts never leaves in the     *)
(* clear, whichever way the greeting goes.                                   *)
NotInTheClear ==
  CanTls /\ NeedTls /\ pc \in {"auth", "mail", "rcpt", "data", "body", "final"} => tls

(* Every message is reported on in the end, whatever the hosts do.           *)
Ends == <>(outcome \in {"K", "D"})
=============================================================================
