---------------------------- MODULE ThrottleProofs ----------------------------
(***************************************************************************)
(* For every limit, interval, ban time and number of addresses: no         *)
(* interval has more accepted attempts than the limit, a ban lasts its     *)
(* time and is deserved, and what is remembered of an address is bounded.  *)
(***************************************************************************)
EXTENDS Throttle, FiniteSetTheorems, TLAPS

\* What is remembered of an address are attempts it has made ...
RememberedWereTried ==
    \A ip \in Ips :
        /\ IsFiniteSet(tried[ip])
        /\ connectionsByIp[ip] \subseteq tried[ip] /\ accepted[ip] \subseteq tried[ip]
        /\ \A a \in tried[ip] : a.at <= now

\* ... and every accepted one for as long as it counts, whatever was cleared.
AcceptedAreRemembered ==
    \A ip \in Ips : \A a \in accepted[ip] :
        a.at + consideredSeconds > now => a \in connectionsByIp[ip]

\* The time of the ban is kept until the ban is over.
BanIsRemembered ==
    \A ip \in Ips : bannedIps[ip] = bannedAt[ip] \/ now >= bannedAt[ip] + banTime

\* More than `throttle' attempts are remembered only with the ban that the last of
\* them has brought.
FullIsBanned ==
    \A ip \in Ips :
        Cardinality(connectionsByIp[ip]) > throttle =>
            \A a \in connectionsByIp[ip] : a.at <= bannedAt[ip]

\* The inductive invariant.
ThrottleInv ==
    /\ TypeOK
    /\ RememberedWereTried
    /\ AcceptedAreRemembered
    /\ BanIsRemembered
    /\ FullIsBanned
    /\ AtMostThrottle

\* Times are natural numbers, since the clock starts at one of the ban times.
LEMMA TimesAreNat == Start \in Nat /\ 0 \in Times /\ \A t \in Times : t \in Nat
<1>1. Start \in BanTimes
  BY ThrottleAssumption DEF Start
<1> QED BY <1>1, ThrottleAssumption DEF Times

LEMMA ThrottleInitInv == Init => ThrottleInv
<1> SUFFICES ASSUME Init PROVE ThrottleInv
  OBVIOUS
<1> USE ThrottleAssumption, TimesAreNat, FS_EmptySet DEF Init
<1>1. TypeOK
  <2>1. Start \in Times
    BY DEF Times
  <2> QED BY <2>1 DEF TypeOK
<1>2. RememberedWereTried
  BY DEF RememberedWereTried
<1>3. AcceptedAreRemembered
  BY DEF AcceptedAreRemembered
<1>4. BanIsRemembered
  BY DEF BanIsRemembered
<1>5. FullIsBanned
  BY DEF FullIsBanned
<1>6. AtMostThrottle
  BY DEF AtMostThrottle
<1> QED BY <1>1, <1>2, <1>3, <1>4, <1>5, <1>6 DEF ThrottleInv

-----------------------------------------------------------------------------
\* The attempt that Attempt(ip) adds, and what is remembered then.
ThisAttempt(ip) == [n |-> Cardinality(tried[ip]) + 1, at |-> now]
Recent(ip) == Considered(connectionsByIp[ip] \cup {ThisAttempt(ip)})

\* The sets that an attempt leaves are finite.
LEMMA AttemptSets ==
    ASSUME ThrottleInv, NEW ip \in Ips, Attempt(ip)
    PROVE  /\ Cardinality(tried[ip]) \in Nat /\ ThisAttempt(ip) \in Attempts
           /\ IsFiniteSet(tried'[ip]) /\ tried'[ip] = tried[ip] \cup {ThisAttempt(ip)}
           /\ IsFiniteSet(Recent(ip)) /\ Cardinality(Recent(ip)) \in Nat
           /\ Recent(ip) \subseteq tried'[ip] /\ Recent(ip) \subseteq Attempts
<1> USE DEF ThrottleInv
<1>1. Cardinality(tried[ip]) \in Nat
  BY FS_CardinalityType DEF RememberedWereTried
<1>2. tried'[ip] = tried[ip] \cup {ThisAttempt(ip)}
  BY DEF Attempt, ThisAttempt, TypeOK
<1>3. IsFiniteSet(tried'[ip])
  BY <1>2, FS_AddElement DEF RememberedWereTried
<1>4. Recent(ip) \subseteq tried'[ip]
  BY <1>2 DEF Recent, Considered, RememberedWereTried
<1>5. ThisAttempt(ip) \in Attempts
  <2>1. Cardinality(tried[ip]) + 1 <= MaxAttempts
    BY DEF Attempt
  <2> QED BY <2>1, <1>1, ThrottleAssumption DEF ThisAttempt, Attempts, TypeOK
<1>6. Recent(ip) \subseteq Attempts
  BY <1>5 DEF Recent, Considered, TypeOK
<1>7. IsFiniteSet(Recent(ip)) /\ Cardinality(Recent(ip)) \in Nat
  BY <1>3, <1>4, FS_Subset, FS_CardinalityType
<1> QED BY <1>1, <1>2, <1>3, <1>4, <1>5, <1>6, <1>7

\* What an attempt leaves of its own address, and that it touches no other.
LEMMA AttemptEffect ==
    ASSUME ThrottleInv, NEW ip \in Ips, Attempt(ip)
    PROVE  /\ now >= bannedIps[ip] + banTime /\ now' = now /\ banTime' = banTime
           /\ connectionsByIp'[ip] = Recent(ip)
           /\ \/ /\ TooMany(Recent(ip))
                 /\ bannedIps'[ip] = now /\ bannedAt'[ip] = now /\ accepted' = accepted
              \/ /\ ~TooMany(Recent(ip))
                 /\ bannedIps'[ip] = 0 /\ bannedAt' = bannedAt
                 /\ accepted'[ip] = accepted[ip] \cup {ThisAttempt(ip)}
           /\ \A other \in Ips \ {ip} :
                /\ connectionsByIp'[other] = connectionsByIp[other] /\ tried'[other] = tried[other]
                /\ accepted'[other] = accepted[other] /\ bannedIps'[other] = bannedIps[other]
                /\ bannedAt'[other] = bannedAt[other]
           /\ connectionsByIp' = [connectionsByIp EXCEPT ![ip] = Recent(ip)]
           /\ \/ accepted' = accepted
              \/ accepted' = [accepted EXCEPT ![ip] = accepted[ip] \cup {ThisAttempt(ip)}]
<1> USE ThrottleAssumption, TimesAreNat DEF ThrottleInv, TypeOK
<1>1. now >= bannedIps[ip] + banTime
  <2>1. now \in Nat /\ bannedIps[ip] \in Nat /\ banTime \in Nat
    OBVIOUS
  <2>2. ~(now < bannedIps[ip] + banTime)
    BY DEF Attempt, IsBanned
  <2> QED BY <2>1, <2>2
<1>2. connectionsByIp' = [connectionsByIp EXCEPT ![ip] = Recent(ip)]
  BY DEF Attempt, Recent, ThisAttempt
<1>3. \/ /\ TooMany(Recent(ip))
         /\ bannedIps' = [bannedIps EXCEPT ![ip] = now]
         /\ bannedAt' = [bannedAt EXCEPT ![ip] = now] /\ accepted' = accepted
      \/ /\ ~TooMany(Recent(ip))
         /\ bannedIps' = [bannedIps EXCEPT ![ip] = 0] /\ bannedAt' = bannedAt
         /\ accepted' = [accepted EXCEPT ![ip] = accepted[ip] \cup {ThisAttempt(ip)}]
  BY DEF Attempt, Recent, ThisAttempt
<1>4. tried' = [tried EXCEPT ![ip] = tried[ip] \cup {ThisAttempt(ip)}] /\ now' = now /\ banTime' = banTime
  BY DEF Attempt, ThisAttempt
<1> QED BY <1>1, <1>2, <1>3, <1>4

\* A set of no more than `throttle' attempts, and what of it may be kept.
LEMMA FewerRemembered ==
    ASSUME NEW S, IsFiniteSet(S), NEW T, T \subseteq S
    PROVE  IsFiniteSet(T) /\ Cardinality(T) \in Nat /\ Cardinality(S) \in Nat
           /\ Cardinality(T) <= Cardinality(S)
BY FS_Subset, FS_CardinalityType

LEMMA AttemptKeepsInv ==
    ASSUME ThrottleInv, NEW ip \in Ips, Attempt(ip)
    PROVE  ThrottleInv'
<1> USE ThrottleAssumption, TimesAreNat DEF ThrottleInv
<1> DEFINE it == ThisAttempt(ip)
<1> HIDE DEF it
<1>1. now \in Nat /\ banTime \in Nat /\ now' = now /\ banTime' = banTime
  BY AttemptEffect DEF TypeOK
<1>2. it.at = now
  BY DEF it, ThisAttempt
<1>3. \A a \in Recent(ip) : a \in connectionsByIp[ip] \cup {it} /\ a.at + consideredSeconds > now
  BY DEF Recent, Considered, it
<1>4. \A a \in connectionsByIp[ip] \cup {it} : a.at + consideredSeconds > now => a \in Recent(ip)
  BY DEF Recent, Considered, it
<1>5. TypeOK'
  <2>1. connectionsByIp' \in [Ips -> SUBSET Attempts] /\ tried' \in [Ips -> SUBSET Attempts]
    <3>1. tried' = [tried EXCEPT ![ip] = tried[ip] \cup {ThisAttempt(ip)}]
      BY DEF Attempt, ThisAttempt
    <3> QED BY <3>1, AttemptEffect, AttemptSets DEF TypeOK
  <2>2. accepted' \in [Ips -> SUBSET Attempts]
    BY AttemptSets, AttemptEffect DEF TypeOK
  <2>3. bannedIps' \in [Ips -> Times] /\ bannedAt' \in [Ips -> Times]
    BY DEF Attempt, TypeOK
  <2>4. ASSUME banTime >= consideredSeconds, NEW other \in Ips
        PROVE  Cardinality(connectionsByIp'[other]) <= throttle + 1
    <3>1. CASE other # ip
      BY <3>1, <2>4, AttemptEffect DEF TypeOK
    <3>2. CASE other = ip /\ ~(Cardinality(connectionsByIp[ip]) > throttle)
      <4>1. IsFiniteSet(connectionsByIp[ip])
        BY FS_Subset DEF RememberedWereTried
      <4>2. /\ Cardinality(connectionsByIp[ip]) \in Nat
            /\ IsFiniteSet(connectionsByIp[ip] \cup {it})
            /\ Cardinality(connectionsByIp[ip] \cup {it}) <= Cardinality(connectionsByIp[ip]) + 1
        <5>1. Cardinality(connectionsByIp[ip]) \in Nat
          BY <4>1, FS_CardinalityType
        <5>2. /\ IsFiniteSet(connectionsByIp[ip] \cup {it})
              /\ Cardinality(connectionsByIp[ip] \cup {it}) =
                   IF it \in connectionsByIp[ip] THEN Cardinality(connectionsByIp[ip])
                   ELSE Cardinality(connectionsByIp[ip]) + 1
          BY <4>1, FS_AddElement
        <5>3. CASE it \in connectionsByIp[ip]
          BY <5>1, <5>2, <5>3
        <5>4. CASE it \notin connectionsByIp[ip]
          BY <5>1, <5>2, <5>4
        <5> QED BY <5>3, <5>4
      <4>3. Recent(ip) \subseteq connectionsByIp[ip] \cup {it}
        BY <1>3
      <4>4. /\ Cardinality(Recent(ip)) <= Cardinality(connectionsByIp[ip] \cup {it})
            /\ Cardinality(Recent(ip)) \in Nat /\ Cardinality(connectionsByIp[ip] \cup {it}) \in Nat
        BY <4>2, <4>3, FewerRemembered
      <4>5. Cardinality(Recent(ip)) <= throttle + 1
        BY <4>2, <4>4, <3>2
      <4> QED BY <4>5, <3>2, AttemptEffect
    <3>3. CASE other = ip /\ Cardinality(connectionsByIp[ip]) > throttle
      <4>1. \A a \in connectionsByIp[ip] : a.at <= bannedAt[ip] /\ a.at \in Nat
        BY <3>3 DEF FullIsBanned, TypeOK, Attempts
      <4>2. now >= bannedAt[ip] + banTime /\ bannedAt[ip] \in Nat
        BY AttemptEffect DEF BanIsRemembered, TypeOK
      <4>3. \A a \in connectionsByIp[ip] : ~(a.at + consideredSeconds > now)
        BY <4>1, <4>2, <2>4, <1>1
      <4>4. Recent(ip) \subseteq {it}
        BY <4>3, <1>3
      <4>5. Cardinality(Recent(ip)) <= 1 /\ Cardinality(Recent(ip)) \in Nat
        <5>1. IsFiniteSet({it}) /\ Cardinality({it}) = 1
          BY FS_Singleton
        <5> QED BY <4>4, <5>1, FewerRemembered
      <4> QED BY <4>5, <3>3, AttemptEffect
    <3> QED BY <3>1, <3>2, <3>3
  <2> QED BY <2>1, <2>2, <2>3, <2>4, <1>1 DEF TypeOK
<1>6. RememberedWereTried'
  <2> SUFFICES ASSUME NEW other \in Ips
               PROVE  /\ IsFiniteSet(tried'[other])
                      /\ connectionsByIp'[other] \subseteq tried'[other]
                      /\ accepted'[other] \subseteq tried'[other]
                      /\ \A a \in tried'[other] : a.at <= now
    BY <1>1 DEF RememberedWereTried
  <2>1. CASE other # ip
    BY <2>1, AttemptEffect DEF RememberedWereTried
  <2>2. CASE other = ip
    BY <2>2, <1>1, <1>2, AttemptEffect, AttemptSets DEF RememberedWereTried, it
  <2> QED BY <2>1, <2>2
<1>7. AcceptedAreRemembered'
  <2> SUFFICES ASSUME NEW other \in Ips, NEW a \in accepted'[other], a.at + consideredSeconds > now
               PROVE  a \in connectionsByIp'[other]
    BY <1>1 DEF AcceptedAreRemembered
  <2>1. CASE other # ip
    BY <2>1, AttemptEffect DEF AcceptedAreRemembered
  <2>2. CASE other = ip
    <3>1. a \in connectionsByIp[ip] \cup {it}
      BY <2>2, AttemptEffect DEF AcceptedAreRemembered, it
    <3> QED BY <3>1, <1>4, <2>2, AttemptEffect
  <2> QED BY <2>1, <2>2
<1>8. BanIsRemembered'
  <2> SUFFICES ASSUME NEW other \in Ips
               PROVE  bannedIps'[other] = bannedAt'[other] \/ now >= bannedAt'[other] + banTime
    BY <1>1 DEF BanIsRemembered
  <2>1. CASE other # ip
    BY <2>1, AttemptEffect DEF BanIsRemembered
  <2>2. CASE other = ip
    BY <2>2, AttemptEffect DEF BanIsRemembered
  <2> QED BY <2>1, <2>2
<1>9. FullIsBanned'
  <2> SUFFICES ASSUME NEW other \in Ips, Cardinality(connectionsByIp'[other]) > throttle,
                      NEW a \in connectionsByIp'[other]
               PROVE  a.at <= bannedAt'[other]
    BY DEF FullIsBanned
  <2>1. CASE other # ip
    BY <2>1, AttemptEffect DEF FullIsBanned
  <2>2. CASE other = ip
    <3>1. TooMany(Recent(ip))
      BY <2>2, AttemptEffect DEF TooMany
    <3>2. bannedAt'[ip] = now
      BY <3>1, AttemptEffect
    <3> QED BY <3>2, <2>2, <1>2, <1>1, AttemptEffect, AttemptSets, <1>6 DEF RememberedWereTried
  <2> QED BY <2>1, <2>2
<1>10. AtMostThrottle'
  <2> SUFFICES ASSUME NEW other \in Ips, NEW a \in accepted'[other]
               PROVE  Cardinality({b \in accepted'[other] :
                          b.at <= a.at /\ a.at < b.at + consideredSeconds}) <= throttle
    BY DEF AtMostThrottle
  <2>1. CASE accepted'[other] = accepted[other]
    BY <2>1 DEF AtMostThrottle
  <2>2. CASE accepted'[other] # accepted[other]
    <3> DEFINE Window == {b \in accepted'[ip] : b.at <= a.at /\ a.at < b.at + consideredSeconds}
    <3>1. /\ other = ip /\ ~TooMany(Recent(ip))
          /\ accepted'[ip] = accepted[ip] \cup {it}
      BY <2>2, AttemptEffect DEF it
    <3>2. \A b \in accepted'[ip] : b.at \in Nat /\ b.at <= now
      <4>1. accepted'[ip] \subseteq Attempts /\ accepted'[ip] \subseteq tried'[ip]
        BY <1>5, <1>6 DEF TypeOK, RememberedWereTried
      <4>2. \A b \in tried'[ip] : b.at <= now
        BY <1>1, <1>6 DEF RememberedWereTried
      <4> QED BY <4>1, <4>2 DEF Attempts
    <3>3. CASE a.at = now
      <4>1. Window \subseteq Recent(ip)
        BY <3>3, <3>1, <1>4, <1>7, <1>1, AttemptEffect DEF AcceptedAreRemembered
      <4>2. Cardinality(Window) <= Cardinality(Recent(ip)) /\ Cardinality(Window) \in Nat
            /\ Cardinality(Recent(ip)) \in Nat
        BY <4>1, AttemptSets, FewerRemembered
      <4>3. ~(Cardinality(Recent(ip)) > throttle)
        BY <3>1 DEF TooMany
      <4> QED BY <4>2, <4>3, <3>1
    <3>4. CASE a.at # now
      <4>1. a \in accepted[ip] /\ ~(it.at <= a.at)
        BY <3>4, <3>1, <3>2, <1>2, <1>1
      <4>2. Window = {b \in accepted[ip] : b.at <= a.at /\ a.at < b.at + consideredSeconds}
        BY <4>1, <3>1
      <4> QED BY <4>1, <4>2, <3>1 DEF AtMostThrottle
    <3> QED BY <3>3, <3>4
  <2> QED BY <2>1, <2>2
<1> QED BY <1>5, <1>6, <1>7, <1>8, <1>9, <1>10

LEMMA ClearMapsKeepsInv == ThrottleInv /\ ClearMaps => ThrottleInv'
<1> SUFFICES ASSUME ThrottleInv, ClearMaps PROVE ThrottleInv'
  OBVIOUS
<1> USE ThrottleAssumption, TimesAreNat DEF ThrottleInv
<1>1. /\ now' = now /\ banTime' = banTime /\ accepted' = accepted
      /\ bannedAt' = bannedAt /\ tried' = tried
      /\ now \in Nat /\ banTime \in Nat
  BY DEF ClearMaps, TypeOK
<1>2. \A ip \in Ips :
        connectionsByIp'[ip] = {a \in connectionsByIp[ip] : a.at + consideredSeconds > now}
  BY DEF ClearMaps, Cleaned, Considered
<1>3. \A ip \in Ips : bannedIps'[ip] = IF IsBanned(ip) THEN bannedIps[ip] ELSE 0
  BY DEF ClearMaps
<1>4. \A ip \in Ips :
        /\ Cardinality(connectionsByIp[ip]) \in Nat /\ Cardinality(connectionsByIp'[ip]) \in Nat
        /\ Cardinality(connectionsByIp'[ip]) <= Cardinality(connectionsByIp[ip])
  <2> SUFFICES ASSUME NEW ip \in Ips
               PROVE  /\ Cardinality(connectionsByIp[ip]) \in Nat
                      /\ Cardinality(connectionsByIp'[ip]) \in Nat
                      /\ Cardinality(connectionsByIp'[ip]) <= Cardinality(connectionsByIp[ip])
    OBVIOUS
  <2>1. IsFiniteSet(connectionsByIp[ip])
    BY FS_Subset DEF RememberedWereTried
  <2>2. connectionsByIp'[ip] \subseteq connectionsByIp[ip]
    BY <1>2
  <2> QED BY <2>1, <2>2, FewerRemembered
<1>5. TypeOK'
  <2>1. connectionsByIp' \in [Ips -> SUBSET Attempts]
    BY DEF ClearMaps, Cleaned, Considered, TypeOK
  <2>2. bannedIps' \in [Ips -> Times]
    BY DEF ClearMaps, TypeOK
  <2>3. ASSUME banTime >= consideredSeconds, NEW ip \in Ips
        PROVE  Cardinality(connectionsByIp'[ip]) <= throttle + 1
    BY <2>3, <1>4 DEF TypeOK
  <2> QED BY <2>1, <2>2, <2>3, <1>1 DEF TypeOK
<1>6. RememberedWereTried'
  BY <1>1, <1>2 DEF RememberedWereTried
<1>7. AcceptedAreRemembered'
  BY <1>1, <1>2 DEF AcceptedAreRemembered
<1>8. BanIsRemembered'
  <2> SUFFICES ASSUME NEW ip \in Ips
               PROVE  bannedIps'[ip] = bannedAt[ip] \/ now >= bannedAt[ip] + banTime
    BY <1>1 DEF BanIsRemembered
  <2>1. CASE IsBanned(ip)
    BY <2>1, <1>3 DEF BanIsRemembered
  <2>2. CASE ~IsBanned(ip)
    <3>1. now >= bannedIps[ip] + banTime
      <4>1. bannedIps[ip] \in Nat
        BY DEF TypeOK
      <4>2. ~(now < bannedIps[ip] + banTime)
        BY <2>2 DEF IsBanned
      <4> QED BY <4>1, <4>2, <1>1
    <3> QED BY <3>1 DEF BanIsRemembered
  <2> QED BY <2>1, <2>2
<1>9. FullIsBanned'
  <2> SUFFICES ASSUME NEW ip \in Ips, Cardinality(connectionsByIp'[ip]) > throttle,
                      NEW a \in connectionsByIp'[ip]
               PROVE  a.at <= bannedAt[ip]
    BY <1>1 DEF FullIsBanned
  <2>1. Cardinality(connectionsByIp[ip]) > throttle /\ a \in connectionsByIp[ip]
    BY <1>2, <1>4
  <2> QED BY <2>1 DEF FullIsBanned
<1>10. AtMostThrottle'
  BY <1>1 DEF AtMostThrottle
<1> QED BY <1>5, <1>6, <1>7, <1>8, <1>9, <1>10

LEMMA TickKeepsInv == ThrottleInv /\ Tick => ThrottleInv'
<1> SUFFICES ASSUME ThrottleInv, Tick PROVE ThrottleInv'
  OBVIOUS
<1> USE ThrottleAssumption, TimesAreNat DEF ThrottleInv
<1>1. /\ now' = now + 1 /\ now \in Nat /\ banTime \in Nat
      /\ UNCHANGED <<banTime, connectionsByIp, bannedIps, accepted, bannedAt, tried>>
  BY DEF Tick, TypeOK
<1>2. \A ip \in Ips :
        /\ bannedAt[ip] \in Nat
        /\ \A a \in tried[ip] : a.at \in Nat
        /\ \A a \in accepted[ip] : a.at \in Nat
  BY DEF TypeOK, Attempts
<1>3. TypeOK'
  <2>1. now' \in Times
    BY <1>1 DEF Tick, Times
  <2> QED BY <2>1, <1>1 DEF TypeOK
<1>4. RememberedWereTried'
  BY <1>1, <1>2 DEF RememberedWereTried
<1>5. AcceptedAreRemembered'
  BY <1>1, <1>2 DEF AcceptedAreRemembered
<1>6. BanIsRemembered'
  BY <1>1, <1>2 DEF BanIsRemembered
<1>7. FullIsBanned' /\ AtMostThrottle'
  BY <1>1 DEF FullIsBanned, AtMostThrottle
<1> QED BY <1>3, <1>4, <1>5, <1>6, <1>7

LEMMA ThrottleStepInv == ThrottleInv /\ [Next]_vars => ThrottleInv'
<1> SUFFICES ASSUME ThrottleInv, [Next]_vars PROVE ThrottleInv'
  OBVIOUS
<1>1. CASE ClearMaps
  BY <1>1, ClearMapsKeepsInv
<1>2. CASE Tick
  BY <1>2, TickKeepsInv
<1>3. ASSUME NEW ip \in Ips, Attempt(ip) PROVE ThrottleInv'
  BY <1>3, AttemptKeepsInv
<1>4. CASE UNCHANGED vars
  BY <1>4 DEF vars, ThrottleInv, TypeOK, RememberedWereTried, AcceptedAreRemembered,
              BanIsRemembered, FullIsBanned, AtMostThrottle
<1> QED BY <1>1, <1>2, <1>3, <1>4 DEF Next

\* The types, with the bound on what is remembered of an address where a ban is no
\* shorter than the interval, and the inductive invariant.
THEOREM ThrottleInvariant == Spec => []ThrottleInv
<1> QED BY ThrottleInitInv, ThrottleStepInv, PTL DEF Spec

\* "how many requests within `consideredSeconds` until we're rejecting requests":
\* no interval of that length, at whatever tick it begins, has more accepted attempts.
THEOREM ThrottleAtMost == Spec => []AtMostThrottle
<1>1. ThrottleInv => AtMostThrottle
  BY DEF ThrottleInv
<1> QED BY <1>1, ThrottleInvariant, PTL

\* A ban lasts its time, whatever clearMaps removes meanwhile, and is the answer to
\* more than `throttle' attempts within the interval.
THEOREM ThrottleBansAreFair == Spec => BansAreFair
<1> DEFINE Fair(ip) ==
      /\ (accepted'[ip] # accepted[ip] /\ bannedAt[ip] # 0) => now >= bannedAt[ip] + banTime
      /\ bannedAt'[ip] # bannedAt[ip] =>
           Cardinality({a \in tried'[ip] : a.at + consideredSeconds > now}) > throttle
<1>1. ASSUME ThrottleInv, [Next]_vars
      PROVE  [\A ip \in Ips : Fair(ip)]_vars
  <2>1. ASSUME NEW ip \in Ips, Attempt(ip), NEW other \in Ips PROVE Fair(other)
    <3> USE ThrottleAssumption, TimesAreNat, <1>1, <2>1 DEF ThrottleInv
    <3>1. CASE other # ip
      BY <3>1, AttemptEffect
    <3>2. CASE other = ip
      <4>1. now >= bannedAt[ip] + banTime
        BY AttemptEffect DEF BanIsRemembered
      <4>2. ASSUME bannedAt'[ip] # bannedAt[ip]
            PROVE  Cardinality({a \in tried'[ip] : a.at + consideredSeconds > now}) > throttle
        <5> DEFINE Counted == {a \in tried'[ip] : a.at + consideredSeconds > now}
        <5>1. Recent(ip) \subseteq Counted
          BY AttemptSets DEF Recent, Considered
        <5>2. IsFiniteSet(Counted)
          BY AttemptSets, FewerRemembered
        <5> HIDE DEF Counted
        <5>3. Cardinality(Recent(ip)) <= Cardinality(Counted) /\ Cardinality(Counted) \in Nat
              /\ Cardinality(Recent(ip)) \in Nat
          BY <5>1, <5>2, FewerRemembered
        <5>4. Cardinality(Recent(ip)) > throttle
          BY <4>2, AttemptEffect DEF TooMany
        <5>5. Cardinality(Counted) > throttle
          BY <5>3, <5>4
        <5> QED BY <5>5 DEF Counted
      <4> QED BY <4>1, <4>2, <3>2
    <3> QED BY <3>1, <3>2
  <2>2. CASE ClearMaps \/ Tick \/ UNCHANGED vars
    BY <2>2 DEF ClearMaps, Tick, vars
  <2> QED BY <1>1, <2>1, <2>2 DEF Next
<1>2. ThrottleInv /\ [Next]_vars => [\A ip \in Ips : Fair(ip)]_vars
  BY <1>1
<1> QED BY <1>2, ThrottleInvariant, PTL DEF Spec, BansAreFair
=============================================================================
