------------------------------ MODULE Mailbox ------------------------------
(***************************************************************************)
(* FIFO mailboxes: what a service promises its peers, and the thread pool  *)
(* those who add tasks.  Every message that is handed over is put in one   *)
(* mailbox or rejected, is taken from the front of that mailbox by at most *)
(* one handler, and is released exactly once, by the side that owns it at  *)
(* that moment.  ServiceSched and ThreadPool are shown to implement this   *)
(* module.                                                                 *)
(***************************************************************************)
EXTENDS Sequences

CONSTANTS Service, Message

VARIABLES
    box,     \* box[s]: the messages waiting in the mailbox of s, oldest first
    stage    \* stage[m]: how far message m has come

mailboxVars == <<box, stage>>

Stage == {"new", "posted", "taken", "released"}

MailboxInit ==
    /\ box = [s \in Service |-> <<>>]
    /\ stage = [m \in Message |-> "new"]

\* A message is put at the back of the mailbox of s.
Post(s, m) ==
    /\ stage[m] = "new"
    /\ box' = [box EXCEPT ![s] = Append(@, m)]
    /\ stage' = [stage EXCEPT ![m] = "posted"]

\* A handler of s takes the oldest message.
Take(s, m) ==
    /\ box[s] # <<>>
    /\ m = Head(box[s])
    /\ stage[m] = "posted"
    /\ box' = [box EXCEPT ![s] = Tail(@)]
    /\ stage' = [stage EXCEPT ![m] = "taken"]

\* The memory of a message is given back: after its handler returned, or
\* because no service wanted it.  A message in a mailbox is never released.
Release(m) ==
    /\ stage[m] \in {"new", "taken"}
    /\ stage' = [stage EXCEPT ![m] = "released"]
    /\ UNCHANGED box

MailboxNext ==
    \E m \in Message :
        \/ Release(m)
        \/ \E s \in Service : Post(s, m) \/ Take(s, m)

MailboxSpec == MailboxInit /\ [][MailboxNext]_mailboxVars

=============================================================================
