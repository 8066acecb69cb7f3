---------------------------- MODULE SendChannel ----------------------------
(***************************************************************************)
(* What Session::Send promises to its callers: the packets a session has   *)
(* accepted leave in the order in which they were accepted, none twice and *)
(* none skipped, and while the connection is up none is lost.  Packets     *)
(* are numbered in the order of acceptance (_sendQueue.push).              *)
(***************************************************************************)
EXTENDS Naturals, Sequences

VARIABLES
    life,        \* "new" before the connection, "up" on it, "down" after it
    accepted,    \* how many packets were accepted
    backlog,     \* accepted packets that are neither sent nor dropped
    sent         \* packets the network has taken, in order

vars == <<life, accepted, backlog, sent>>

Numbered(n) == [i \in 1 .. n |-> i]

TypeOK ==
    /\ life \in {"new", "up", "down"}
    /\ accepted \in Nat
    /\ backlog \in Seq(Nat)
    /\ sent \in Seq(Nat)

Init ==
    /\ life = "new"
    /\ accepted = 0
    /\ backlog = <<>>
    /\ sent = <<>>

Open ==
    /\ life = "new"
    /\ life' \in {"up", "down"}
    /\ UNCHANGED <<accepted, backlog, sent>>

Accept ==
    /\ life # "new"
    /\ accepted' = accepted + 1
    /\ backlog' = Append(backlog, accepted + 1)
    /\ UNCHANGED <<life, sent>>

\* The network takes the n oldest packets, as long as no earlier one is missing.
Deliver ==
    /\ life # "new"
    /\ \E n \in 1 .. Len(backlog) :
          /\ Head(backlog) = Len(sent) + 1
          /\ sent' = sent \o SubSeq(backlog, 1, n)
          /\ backlog' = SubSeq(backlog, n + 1, Len(backlog))
    /\ UNCHANGED <<life, accepted>>

Break ==
    /\ life = "up"
    /\ life' = "down"
    /\ UNCHANGED <<accepted, backlog, sent>>

\* Only a connection that is down may lose packets.
Drop ==
    /\ life = "down"
    /\ \E n \in 1 .. Len(backlog) :
          backlog' = SubSeq(backlog, n + 1, Len(backlog))
    /\ UNCHANGED <<life, accepted, sent>>

Next == Open \/ Accept \/ Deliver \/ Break \/ Drop

Spec == Init /\ [][Next]_vars

FairSpec == Spec /\ WF_vars(life = "up" /\ Deliver)

-----------------------------------------------------------------------------
\* While the connection is up every accepted packet is sent or still queued,
\* in order: what the queue and the send event of a session are for.
NothingLostWhileUp ==
    life = "up" => sent \o backlog = Numbered(accepted)

\* The peer sees a prefix of the accepted packets: no gap, no duplicate.
SentIsPrefix ==
    sent = Numbered(Len(sent))
=============================================================================
