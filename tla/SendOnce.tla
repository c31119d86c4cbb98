------------------------------- MODULE SendOnce -------------------------------
(***************************************************************************)
(* What the WhatsApp Web queue promises about each publication, without    *)
(* saying how.  The message is announced (a durable click marker) before it*)
(* may go out, it goes out at most once, and from the announcement on the  *)
(* publication has an answer: unknown, which holds the channel, or decided *)
(* by confirmation or by the operator.  A decision may be withdrawn, the   *)
(* announcement never.  `deliveries` counts the messages that went out, so *)
(* a second one is a step that this specification does not have.           *)
(***************************************************************************)
EXTENDS Naturals

CONSTANT Publications

VARIABLES deliveries, answer

vars == <<deliveries, answer>>

Init ==
    /\ deliveries = [p \in Publications |-> 0]
    /\ answer = [p \in Publications |-> "none"]

\* The intent to send becomes durable, and with it the doubt.
Announce(p) ==
    /\ answer[p] = "none"
    /\ deliveries[p] = 0
    /\ answer' = [answer EXCEPT ![p] = "unknown"]
    /\ UNCHANGED deliveries

\* The message reaches the group: announced, and for the first time.
Deliver(p) ==
    /\ answer[p] # "none"
    /\ deliveries[p] = 0
    /\ deliveries' = [deliveries EXCEPT ![p] = 1]
    /\ UNCHANGED answer

\* The answer changes, within what can be said of an announced message.
Answer(p, a) ==
    /\ answer[p] # "none"
    /\ a \in {"unknown", "decided"}
    /\ answer' = [answer EXCEPT ![p] = a]
    /\ UNCHANGED deliveries

Next ==
    \E p \in Publications :
        Announce(p) \/ Deliver(p) \/ \E a \in {"unknown", "decided"} : Answer(p, a)

Spec == Init /\ [][Next]_vars
=============================================================================
