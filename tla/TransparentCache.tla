-------------------------- MODULE TransparentCache --------------------------
(***************************************************************************)
(* What the module promises the clients that ask for one thing: an answer  *)
(* is what the origin gave for this very request, or what it gave for some *)
(* earlier one and allowed to be used again, while that lasts.  Each       *)
(* answer of the origin is allowed once; to use it again allows nothing.   *)
(*                                                                         *)
(* The promise is kept up to Slack: so long may a copy be on its way to    *)
(* the place where it is kept.                                             *)
(***************************************************************************)
EXTENDS Integers

CONSTANTS
    Requests,
    MaxVersion,   \* bound on the number of different responses
    Lifetimes,    \* the seconds a response may be allowed to live
    Slack         \* the seconds a copy may be under way

Nothing == 0
Failed == -1
Versions == 1..MaxVersion

NoSource == [origin |-> FALSE, version |-> Nothing, kept |-> FALSE]

VARIABLES
    version,   \* what the origin gives
    reusable,  \* for how long each version may still be used again
    source,    \* what each request has got from the origin or a copy
    answer     \* what its client has got

vars == <<version, reusable, source, answer>>

Init ==
    /\ version = 1 /\ reusable = [v \in Versions |-> -Slack]
    /\ source = [r \in Requests |-> NoSource]
    /\ answer = [r \in Requests |-> Nothing]

Change ==
    /\ version < MaxVersion /\ version' = version + 1
    /\ UNCHANGED <<reusable, source, answer>>

Gets(r, s) ==
    /\ answer[r] = Nothing /\ source' = [source EXCEPT ![r] = s]
    /\ UNCHANGED <<version, answer>>

AskOrigin(r) ==
    /\ Gets(r, [origin |-> TRUE, version |-> version, kept |-> FALSE])
    /\ UNCHANGED reusable

Recall(r, v) ==
    /\ reusable[v] > -Slack
    /\ Gets(r, [origin |-> FALSE, version |-> v, kept |-> FALSE])
    /\ UNCHANGED reusable

Drop(r) == Gets(r, NoSource) /\ UNCHANGED reusable

(* The origin's answer may be used again for a while.                       *)
Allowed(r, lifetime) ==
    /\ source[r].origin /\ ~source[r].kept
    /\ source' = [source EXCEPT
           ![r] = [origin |-> TRUE, version |-> @.version, kept |-> TRUE]]
    /\ reusable' = [reusable EXCEPT ![source[r].version] =
                        IF lifetime > @ THEN lifetime ELSE @]

Keep(r, lifetime) == Allowed(r, lifetime) /\ UNCHANGED <<version, answer>>

Answer(r) ==
    /\ answer[r] = Nothing /\ source[r] # NoSource
    /\ answer' = [answer EXCEPT ![r] = source[r].version]
    /\ \/ \E lifetime \in Lifetimes : Allowed(r, lifetime)
       \/ UNCHANGED <<source, reusable>>
    /\ UNCHANGED version

Fail(r) ==
    /\ answer[r] = Nothing /\ answer' = [answer EXCEPT ![r] = Failed]
    /\ UNCHANGED <<version, reusable, source>>

(* Requests end, answered or not.                                           *)
Leave(rs) ==
    /\ source' = [r \in Requests |-> IF r \in rs THEN NoSource ELSE source[r]]
    /\ answer' = [r \in Requests |-> IF r \in rs THEN Nothing ELSE answer[r]]
    /\ UNCHANGED <<version, reusable>>

Tick ==
    /\ reusable' = [v \in Versions |->
           IF reusable[v] > -Slack THEN reusable[v] - 1 ELSE reusable[v]]
    /\ UNCHANGED <<version, source, answer>>

Next ==
    \/ Change \/ Tick
    \/ \E r \in Requests :
           \/ AskOrigin(r) \/ Drop(r) \/ Answer(r) \/ Fail(r)
           \/ \E v \in Versions : Recall(r, v)
           \/ \E lifetime \in Lifetimes : Keep(r, lifetime)
    \/ \E rs \in SUBSET Requests : Leave(rs)

Spec == Init /\ [][Next]_vars
=============================================================================
