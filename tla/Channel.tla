------------------------------- MODULE Channel -------------------------------
(***************************************************************************)
(* What a websocket session promises to the messages a client sends to a   *)
(* document.  Each session is a channel: it delivers what it accepted in   *)
(* order and at most once; once shut it accepts nothing more but delivers  *)
(* the rest, unless the rest was discarded as a whole.  Module Session     *)
(* (ClientConnection.ts with Connection.ts) implements it.                 *)
(***************************************************************************)
EXTENDS Sequences, Naturals

CONSTANTS Sessions, Messages

VARIABLES
    accepted,   \* what each session has taken from the websocket, in order
    delivered,  \* what each session's connection has handled, in order
    shut,       \* sessions that accept nothing more
    discarded   \* sessions whose undelivered messages were thrown away

channelVars == <<accepted, delivered, shut, discarded>>

ChannelInit ==
    /\ accepted = [s \in Sessions |-> <<>>]
    /\ delivered = [s \in Sessions |-> <<>>]
    /\ shut = {} /\ discarded = {}

Accept(s, m) ==
    /\ s \notin shut
    /\ accepted' = [accepted EXCEPT ![s] = Append(@, m)]
    /\ UNCHANGED <<delivered, shut, discarded>>

\* Handling a message may be what shuts the session.
Deliver(s) ==
    /\ s \notin discarded
    /\ Len(delivered[s]) < Len(accepted[s])
    /\ delivered' = [delivered EXCEPT ![s] = Append(@, accepted[s][Len(@) + 1])]
    /\ shut' \in {shut, shut \cup {s}}
    /\ UNCHANGED <<accepted, discarded>>

\* The sessions of a websocket end together; those without a connection yet
\* lose what they have accepted.
End(S) ==
    /\ shut' = shut \cup S
    /\ \E D \in SUBSET S : discarded' = discarded \cup D
    /\ UNCHANGED <<accepted, delivered>>

ChannelNext ==
    \/ \E s \in Sessions, m \in Messages : Accept(s, m)
    \/ \E s \in Sessions : Deliver(s)
    \/ \E S \in SUBSET Sessions : End(S)

ChannelSpec == ChannelInit /\ [][ChannelNext]_channelVars
=============================================================================
