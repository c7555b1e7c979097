----------------------------- MODULE LeasedCopy -----------------------------
(***************************************************************************)
(* What the distribution of a configuration promises about the node that   *)
(* runs it, whatever the requests between them do: the node holds one copy *)
(* or nothing; a copy is one that was offered, whole; it is held under a   *)
(* lease that was granted with an offer, and given up when the lease ends  *)
(* and for no other reason while the holder lives.                         *)
(***************************************************************************)
EXTENDS Integers

CONSTANTS
  Contents,   \* what a copy may be
  Lease,      \* how far from now a lease reaches
  Grace,      \* how long a copy is held after its lease
  Nothing

(***************************************************************************)
(*   clock   the grantor's time; the holder's is clock + skew              *)
(*   offer   the offer the holder has before it, or Nothing                *)
(*   held    the copy it holds, or Nothing                                 *)
(*   until   the end of its lease, in the holder's time                    *)
(*   lives   how often the holder has been restarted                       *)
(***************************************************************************)
VARIABLES clock, skew, offer, held, until, lives

vars == <<clock, skew, offer, held, until, lives>>

Offers == [content : Contents, until : Int]

Init ==
  /\ clock = 0 /\ skew \in Int
  /\ offer = Nothing /\ held = Nothing /\ until = 0 /\ lives = 0

Grant ==
  /\ offer' \in Offers /\ offer'.until <= clock + Lease
  /\ UNCHANGED <<clock, skew, held, until, lives>>

\* The offer holds for a time that is still to come.
Good == offer \in Offers /\ offer.until > clock + skew

\* The offer is taken, in place of the copy held if there is one ...
Take ==
  /\ Good
  /\ held' = offer.content /\ until' = offer.until /\ offer' = Nothing
  /\ UNCHANGED <<clock, skew, lives>>

\* ... or it only renews the lease of that copy, ...
Renew ==
  /\ Good /\ held \in Contents
  /\ until' = offer.until /\ offer' = Nothing
  /\ UNCHANGED <<clock, skew, held, lives>>

\* ... or it comes to nothing.
Refuse == offer' = Nothing /\ UNCHANGED <<clock, skew, held, until, lives>>

Expire ==
  /\ clock + skew > until
  /\ held' = Nothing /\ offer' \in {offer, Nothing}
  /\ UNCHANGED <<clock, skew, until, lives>>

Restart ==
  /\ lives' = lives + 1
  /\ offer' = Nothing /\ held' = Nothing /\ until' = 0
  /\ UNCHANGED <<clock, skew>>

Pass ==
  /\ clock' = clock + 1
  /\ held # Nothing => clock' + skew <= until + Grace
  /\ UNCHANGED <<skew, offer, held, until, lives>>

Next == Grant \/ Take \/ Renew \/ Refuse \/ Expire \/ Restart \/ Pass

Spec == Init /\ [][Next]_vars
=============================================================================
