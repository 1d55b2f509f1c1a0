--------------------------- MODULE AnsweredCalls ---------------------------
(***************************************************************************)
(* What the daemon promises every client of its two D-Bus APIs: a method   *)
(* call is answered once, and never before it was made.  Only a call whose *)
(* peer is not known gets two replies, both at once.  Nothing is said      *)
(* about queues, identifiers or events.                                    *)
(***************************************************************************)
EXTENDS Naturals

CONSTANT Calls        \* the D-Bus method calls made by the clients

VARIABLES sent,       \* the calls made so far
          replies     \* replies[c]: how many replies call c has received

avars == <<sent, replies>>

AInit ==
    /\ sent = {}
    /\ replies = [c \in Calls |-> 0]

\* A client makes a call whose reply is delayed.
Make(c) ==
    /\ c \notin sent
    /\ sent' = sent \cup {c}
    /\ UNCHANGED replies

\* A client makes a call which is refused on the spot, with an error reply, an
\* error result, or both.
Refuse(c, n) ==
    /\ c \notin sent
    /\ sent' = sent \cup {c}
    /\ replies' = [replies EXCEPT ![c] = n]

\* The reply of a call made earlier is sent.
Answer(c) ==
    /\ c \in sent
    /\ replies[c] = 0
    /\ replies' = [replies EXCEPT ![c] = 1]
    /\ UNCHANGED sent

ANext == \E c \in Calls : Make(c) \/ Answer(c) \/ Refuse(c, 1) \/ Refuse(c, 2)

ASpec == AInit /\ [][ANext]_avars
=============================================================================
