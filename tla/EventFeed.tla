------------------------------ MODULE EventFeed -----------------------------
(***************************************************************************)
(* What a feed with replay promises its subscribers: who is online gets    *)
(* every event it wants as it is published, who comes back gets whatever   *)
(* it wants of what it missed and is not lost, and nobody gets anything    *)
(* else.  Events are lost by falling behind the capacity and by a restart. *)
(* Ids, stores and connections do not appear.                              *)
(***************************************************************************)
EXTENDS Integers, Sequences

CONSTANTS
    Subscribers,
    Topics,
    Everything, \* the filter of a subscriber that wants every topic
    Capacity    \* the events that are certainly not lost, of the latest

VARIABLES
    log,    \* the topics of the events published so far
    lost,   \* the events up to this number may be lost
    online, \* the subscribers that are being served
    got,    \* got[b]: the numbers of the events that b has received
    since,  \* since[b]: b is owed only events with a larger number
    filter  \* filter[b]: what b wants, a topic or Everything

vars == <<log, lost, online, got, since, filter>>

Init ==
    /\ log = <<>>
    /\ lost = 0
    /\ online = {}
    /\ got = [b \in Subscribers |-> {}]
    /\ since = [b \in Subscribers |-> 0]
    /\ filter \in [Subscribers -> Topics \cup {Everything}]

Wants(b, topic) == filter[b] \in {Everything, topic}

Larger(m, n) == IF m >= n THEN m ELSE n

Publish(topic) ==
    /\ log' = Append(log, topic)
    /\ lost' = Larger(lost, Len(log') - Capacity)
    /\ got' = [b \in Subscribers |->
          IF b \in online /\ Wants(b, topic) THEN got[b] \cup {Len(log')} ELSE got[b]]
    /\ UNCHANGED <<online, since, filter>>

\* The events that b must have once it is online, if n is where its claim starts.
Owed(b, n) == {e \in 1 .. Len(log) : e > n /\ e > lost /\ Wants(b, log[e])}

\* b comes online, for the first time or again.  Its claim starts with its first
\* subscription: it can be set anew only as long as b has nothing yet.
Join(b) ==
    /\ b \notin online
    /\ online' = online \cup {b}
    /\ \E n \in {since[b]} \cup {m \in {Len(log)} : got[b] = {}} :
          \E new \in SUBSET {e \in 1 .. Len(log) : Wants(b, log[e])} :
             /\ Owed(b, n) \subseteq got[b] \cup new
             /\ since' = [since EXCEPT ![b] = n]
             /\ got' = [got EXCEPT ![b] = @ \cup new]
    /\ UNCHANGED <<log, lost, filter>>

Leave(leaving) ==
    /\ online' = online \ leaving
    /\ UNCHANGED <<log, lost, got, since, filter>>

\* The feed starts anew, with no subscribers and no memory.
Restart ==
    /\ online' = {}
    /\ lost' = Len(log)
    /\ UNCHANGED <<log, got, since, filter>>

Next ==
    \/ \E topic \in Topics : Publish(topic)
    \/ \E b \in Subscribers : Join(b)
    \/ \E leaving \in SUBSET online : Leave(leaving)
    \/ Restart

Spec == Init /\ [][Next]_vars
=============================================================================
