------------------------------ MODULE Throttle ------------------------------
(***************************************************************************)
(* packages/extension-throttle/src/index.ts: how many connections an       *)
(* address may try to open within an interval, and for how long it is      *)
(* banned when it tries more.  Time is a clock of ticks.  A timestamp that *)
(* is missing reads as 0 (`|| 0'), so the clock starts later than a ban    *)
(* from 0 would last, as the real one does.  The timestamps of an address  *)
(* are counted and filtered, never looked at in their order: they are a    *)
(* set, each with the number of its attempt.                               *)
(***************************************************************************)
EXTENDS Naturals, FiniteSets

CONSTANTS
    Ips,
    throttle,            \* configuration.throttle
    consideredSeconds,   \* configuration.consideredSeconds, in ticks
    BanTimes,            \* the values of configuration.banTime, in ticks
    MaxTicks,            \* bound: how long the clock runs
    MaxAttempts          \* bound: attempts of one address

ASSUME ThrottleAssumption ==
    /\ throttle \in Nat \ {0} /\ consideredSeconds \in Nat \ {0} /\ BanTimes \subseteq Nat \ {0}
    /\ \E longest \in BanTimes : \A b \in BanTimes : b <= longest
    /\ MaxTicks \in Nat /\ MaxAttempts \in Nat

VARIABLES
    banTime,        \* configuration.banTime, fixed from the start
    now,
    connectionsByIp,
    bannedIps,
    accepted,       \* auxiliary: the attempts of each address that were accepted
    bannedAt,       \* auxiliary: when it was banned last
    tried           \* auxiliary: the attempts that were not stopped by a ban

vars == <<banTime, now, connectionsByIp, bannedIps, accepted, bannedAt, tried>>

Start == CHOOSE t \in BanTimes : \A b \in BanTimes : b <= t
Times == 0 .. (Start + MaxTicks)

Attempts == [n : 1 .. MaxAttempts, at : Times]

TypeOK ==
    /\ banTime \in BanTimes /\ now \in Times
    /\ connectionsByIp \in [Ips -> SUBSET Attempts] /\ bannedIps \in [Ips -> Times]
    /\ accepted \in [Ips -> SUBSET Attempts] /\ tried \in [Ips -> SUBSET Attempts]
    /\ bannedAt \in [Ips -> Times]
    /\ banTime >= consideredSeconds =>
         \A ip \in Ips : Cardinality(connectionsByIp[ip]) <= throttle + 1

Init ==
    /\ banTime \in BanTimes /\ now = Start
    /\ connectionsByIp = [ip \in Ips |-> {}] /\ bannedIps = [ip \in Ips |-> 0]
    /\ accepted = [ip \in Ips |-> {}] /\ bannedAt = [ip \in Ips |-> 0]
    /\ tried = [ip \in Ips |-> {}]

\* The timestamps of the interval that ends now.
Considered(times) == {a \in times : a.at + consideredSeconds > now}

\* Mutant: the last tick of the ban is not counted.
IsBannedShorter(ip) == now + 1 < bannedIps[ip] + banTime

\* isBanned
IsBanned(ip) == now < bannedIps[ip] + banTime

TooMany(times) == Cardinality(times) > throttle

\* onConnect with throttle, for an address that is not banned.
Attempt(ip) ==
    LET attempt == [n |-> Cardinality(tried[ip]) + 1, at |-> now]
        times == Considered(connectionsByIp[ip] \cup {attempt})
    IN  /\ attempt.n <= MaxAttempts /\ ~IsBanned(ip)
        /\ connectionsByIp' = [connectionsByIp EXCEPT ![ip] = times]
        /\ tried' = [tried EXCEPT ![ip] = @ \cup {attempt}]
        /\ IF TooMany(times)
           THEN /\ bannedIps' = [bannedIps EXCEPT ![ip] = now]
                /\ bannedAt' = [bannedAt EXCEPT ![ip] = now]
                /\ UNCHANGED accepted
           ELSE /\ bannedIps' = [bannedIps EXCEPT ![ip] = 0]
                /\ accepted' = [accepted EXCEPT ![ip] = @ \cup {attempt}]
                /\ UNCHANGED bannedAt
        /\ UNCHANGED <<banTime, now>>

\* Mutant: the timestamps of the interval are the ones that are removed.
CleanedWrongly(times) == {a \in times : a.at + consideredSeconds <= now}

Cleaned(times) == Considered(times)

\* clearMaps, from its timer
ClearMaps ==
    /\ connectionsByIp' = [ip \in Ips |-> Cleaned(connectionsByIp[ip])]
    /\ bannedIps' = [ip \in Ips |-> IF IsBanned(ip) THEN bannedIps[ip] ELSE 0]
    /\ UNCHANGED <<banTime, now, accepted, bannedAt, tried>>

Tick == now < Start + MaxTicks /\ now' = now + 1
        /\ UNCHANGED <<banTime, connectionsByIp, bannedIps, accepted, bannedAt, tried>>

Next == ClearMaps \/ Tick \/ \E ip \in Ips : Attempt(ip)

Spec == Init /\ [][Next]_vars

-----------------------------------------------------------------------------
\* "how many requests within `consideredSeconds` until we're rejecting requests"
\* (index.ts:4): no interval of that length has more accepted attempts, whenever
\* the maps were cleared in between.
AtMostThrottle ==
    \A ip \in Ips : \A a \in accepted[ip] :
        Cardinality({b \in accepted[ip] : b.at <= a.at /\ a.at < b.at + consideredSeconds})
            <= throttle

\* "for how long to ban after receiving too many requests" (index.ts:6): nothing is
\* accepted before the ban has lasted its time; and an address is banned only for
\* more than `throttle' attempts within the interval ("the 16th request will be
\* rejected"): the ones that a ban stopped, or that are older, do not count.
BansAreFair ==
    [][\A ip \in Ips :
          /\ (accepted'[ip] # accepted[ip] /\ bannedAt[ip] # 0) => now >= bannedAt[ip] + banTime
          /\ bannedAt'[ip] # bannedAt[ip] =>
               Cardinality({a \in tried'[ip] : a.at + consideredSeconds > now}) > throttle]_vars
=============================================================================
