--------------------------- MODULE ProviderProofs ---------------------------
(***************************************************************************)
(* For every number of edits, closes of the websocket and of the           *)
(* connection, dropped messages, denials, detachments and forced           *)
(* synchronisations: a provider that the server serves is synchronised,    *)
(* and knows whether it is authenticated and has unsynced changes.         *)
(***************************************************************************)
EXTENDS Provider, SequenceTheorems, FiniteSetTheorems, TLAPS

In(s) == {s[p] : p \in DOMAIN s}

\* What the client has sent and the server has not handled.
ToServer == In(messageQueue) \cup In(up) \cup In(waiting) \cup In(inbox)

OfType(types) == {m \in Message : m.type \in types}

\* How many messages of s are in M.
Count(s, M) == Cardinality({p \in DOMAIN s : s[p] \in M})

CountSent(M) == Count(messageQueue, M) + Count(up, M)
CountToServer(M) == CountSent(M) + Count(waiting, M) + Count(inbox, M)

-----------------------------------------------------------------------------
TypeInv ==
    /\ TypeOK
    /\ socket # "open" => waiting = <<>> /\ inbox = <<>>
    /\ stage = "ready" => waiting = <<>>
    /\ readOnly => serverDoc \cap OwnUpdates = {} /\ doc \subseteq OwnUpdates \cup serverDoc

\* Each side sends what it has.
MessagesInv ==
    /\ \A m \in ToServer :
         m.type \in {"auth", "step1", "step2", "update", "close"} /\ m.data \subseteq doc
    /\ \A m \in In(down) :
         /\ m.type # "auth"
         /\ m.type \in {"step1", "step2", "update"} => m.data \subseteq serverDoc

-----------------------------------------------------------------------------
(* The two copies.                                                         *)

\* A step 1 will be handled by the server.
WillSync == opening > 0 \/ \E m \in ToServer : m.type = "step1"

Connected == isAttached /\ socket = "open"

\* A server that closed the connection may take what the client has.
Takes == ~readOnly /\ ~denied /\ (dismissed => stage # "none")

\* What the client has gets to a server that takes it.
GetsToServer ==
    (Connected /\ Takes) => \A u \in doc :
        \/ u \in serverDoc
        \/ WillSync
        \/ \E m \in ToServer : m.type \in {"step2", "update"} /\ u \in m.data
        \/ \E m \in In(down) : m.type = "step1" /\ u \notin m.data

\* What the server has gets to the client while there is a session.
GetsToClient ==
    (Connected /\ stage = "ready") => \A u \in serverDoc :
        \/ u \in doc
        \/ WillSync
        \/ \E m \in In(down) : m.type \in {"step2", "update"} /\ u \in m.data

\* onOpen sends its step 1 right after the token, so that who is authenticated is
\* synchronised.
AuthIsFollowed(s) ==
    \A p \in DOMAIN s : s[p].type = "auth" => p + 1 \in DOMAIN s /\ s[p + 1].type = "step1"

StepFollows ==
    /\ AuthIsFollowed(messageQueue) /\ AuthIsFollowed(up)
    /\ stage = "authenticating" => \E m \in In(waiting) \cup In(up) : m.type = "step1"

\* A message of the type comes after every close message.
AtLast(s, type) ==
    \E p \in DOMAIN s : s[p].type = type /\ \A q \in DOMAIN s : s[q].type = "close" => q < p

GetsSynced ==
    (Connected /\ stage = "ready") =>
        \/ WillSync
        \/ AtLast(down, "step2")
        \/ isSynced /\ \A m \in In(down) : m.type # "close"

-----------------------------------------------------------------------------
(* The unsynced changes.                                                   *)

Acknowledged == OfType({"step1", "step2", "update"})
Acknowledging == OfType({"step1", "saved"})

\* No more changes are unsynced than acknowledgements are to come, unless the server
\* has dropped messages.
UnsyncedInv ==
    (Connected /\ ~readOnly /\ ~denied /\ ~dismissed) =>
        \/ opening > 0
        \/ unsyncedChanges <= CountToServer(Acknowledged) + Count(down, Acknowledging)

AuthenticatedInv ==
    /\ \A m \in In(down) : m.type = "denied" => denied
    /\ detaches = 0 =>
         /\ isAttached
         /\ \A m \in ToServer : m.type # "close"
         /\ (stage = "ready" /\ ~denied) =>
              \/ AtLast(down, "authenticated")
              \/ isAuthenticated /\ \A m \in In(down) : m.type # "close"

-----------------------------------------------------------------------------
(* The first synchronisation of a read-only connection.                    *)

Once == readOnly /\ closes = 0 /\ checks = 0 /\ syncs = 0 /\ detaches = 0 /\ dismissals = 0

Handshake == OfType({"step1", "step2"})
Auth == OfType({"auth"})

Saved == OfType({"saved"})

\* A step 2 that brings no edit, which the server acknowledges.
Clean == {m \in OfType({"step2"}) : m.data \cap OwnUpdates = {}}

HandshakeToCome == CountToServer(Handshake) + Count(down, Acknowledging)
SavedToCome == CountToServer(Clean) + Count(down, Saved)
AuthToCome == CountSent(Auth)

\* The token is sent once, so that a denial is final.
OnceInv ==
    Once =>
      \/ /\ (socket = "connecting" /\ opening = 0) \/ (socket = "open" /\ opening = 1)
         /\ HandshakeToCome = 0 /\ AuthToCome = 0 /\ stage = "none" /\ ~denied
      \/ /\ socket = "open" /\ opening = 0 /\ AuthToCome <= 1
         /\ denied \/ stage # "none" => AuthToCome = 0
         /\ denied => stage = "none"

\* Without edits what is unsynced is the handshake; an edit is never acknowledged.
HonestInv ==
    (Once /\ ~denied) =>
        IF doc \cap OwnUpdates = {} THEN unsyncedChanges = HandshakeToCome
        ELSE SavedToCome < unsyncedChanges

ProviderInv ==
    /\ TypeInv /\ MessagesInv
    /\ GetsToServer /\ GetsToClient /\ StepFollows /\ GetsSynced
    /\ UnsyncedInv /\ AuthenticatedInv /\ OnceInv /\ HonestInv

-----------------------------------------------------------------------------
(* Sequences of messages: what is in them, and how often.                  *)

LEMMA SeqOfMessages ==
    ASSUME NEW s \in Seq(Message)
    PROVE  /\ DOMAIN s = 1 .. Len(s) /\ Len(s) \in Nat
           /\ \A p \in DOMAIN s : s[p] \in Message
BY LenProperties, ElementOfSeq

LEMMA Joined ==
    ASSUME NEW s \in Seq(Message), NEW t \in Seq(Message), NEW r, r = s \o t
    PROVE  /\ r \in Seq(Message) /\ Len(r) = Len(s) + Len(t)
           /\ DOMAIN r = 1 .. Len(s) + Len(t)
           /\ \A p \in DOMAIN s : p \in DOMAIN r /\ r[p] = s[p]
           /\ \A p \in DOMAIN t : Len(s) + p \in DOMAIN r /\ r[Len(s) + p] = t[p]
           /\ \A p \in DOMAIN r :
                \/ p \in DOMAIN s /\ r[p] = s[p]
                \/ p - Len(s) \in DOMAIN t /\ r[p] = t[p - Len(s)]
<1>1. /\ DOMAIN s = 1 .. Len(s) /\ Len(s) \in Nat
      /\ DOMAIN t = 1 .. Len(t) /\ Len(t) \in Nat
  BY SeqOfMessages
<1>2. /\ r \in Seq(Message) /\ Len(r) = Len(s) + Len(t)
      /\ \A p \in 1 .. Len(s) + Len(t) :
           r[p] = IF p <= Len(s) THEN s[p] ELSE t[p - Len(s)]
  BY ConcatProperties
<1>3. DOMAIN r = 1 .. Len(s) + Len(t)
  BY <1>2, SeqOfMessages
<1>4. \A p \in DOMAIN s : p \in DOMAIN r /\ r[p] = s[p]
  BY <1>1, <1>2, <1>3
<1>5. \A p \in DOMAIN t : Len(s) + p \in DOMAIN r /\ r[Len(s) + p] = t[p]
  <2> SUFFICES ASSUME NEW p \in DOMAIN t
               PROVE  Len(s) + p \in DOMAIN r /\ r[Len(s) + p] = t[p]
    OBVIOUS
  <2>1. /\ Len(s) + p \in 1 .. Len(s) + Len(t)
        /\ ~(Len(s) + p <= Len(s)) /\ (Len(s) + p) - Len(s) = p
    BY <1>1
  <2> QED BY <1>2, <1>3, <2>1
<1>6. \A p \in DOMAIN r : \/ p \in DOMAIN s /\ r[p] = s[p]
                          \/ p - Len(s) \in DOMAIN t /\ r[p] = t[p - Len(s)]
  BY <1>1, <1>2, <1>3
<1> QED BY <1>2, <1>3, <1>4, <1>5, <1>6

LEMMA InJoined ==
    ASSUME NEW s \in Seq(Message), NEW t \in Seq(Message)
    PROVE  s \o t \in Seq(Message) /\ In(s \o t) = In(s) \cup In(t)
<1> DEFINE r == s \o t
<1>0. r = s \o t
  OBVIOUS
<1> HIDE DEF r
<1>1. /\ \A p \in DOMAIN s : p \in DOMAIN r /\ r[p] = s[p]
      /\ \A p \in DOMAIN t : Len(s) + p \in DOMAIN r /\ r[Len(s) + p] = t[p]
      /\ \A p \in DOMAIN r : \/ p \in DOMAIN s /\ r[p] = s[p]
                             \/ p - Len(s) \in DOMAIN t /\ r[p] = t[p - Len(s)]
      /\ r \in Seq(Message)
  BY <1>0, Joined
<1>2. \A m \in In(s) : m \in In(r)
  BY <1>1 DEF In
<1>3. \A m \in In(t) : m \in In(r)
  BY <1>1 DEF In
<1>4. \A m \in In(r) : m \in In(s) \/ m \in In(t)
  BY <1>1 DEF In
<1> QED BY <1>1, <1>2, <1>3, <1>4 DEF r

LEMMA InOne == ASSUME NEW m PROVE In(<<m>>) = {m}
<1>1. DOMAIN <<m>> = {1} /\ <<m>>[1] = m
  OBVIOUS
<1> QED BY <1>1 DEF In

LEMMA InEmpty == In(<<>>) = {}
BY DEF In

LEMMA HeadAndTail ==
    ASSUME NEW s \in Seq(Message), s # <<>>
    PROVE  /\ Head(s) \in Message /\ Tail(s) \in Seq(Message)
           /\ <<Head(s)>> \in Seq(Message) /\ s = <<Head(s)>> \o Tail(s)
<1>1. Head(s) \in Message /\ Tail(s) \in Seq(Message)
  BY HeadTailProperties
<1> QED BY <1>1

LEMMA InHead ==
    ASSUME NEW s \in Seq(Message), s # <<>>
    PROVE  In(s) = {Head(s)} \cup In(Tail(s))
<1>1. /\ Tail(s) \in Seq(Message) /\ <<Head(s)>> \in Seq(Message)
      /\ s = <<Head(s)>> \o Tail(s)
  BY HeadAndTail
<1>2. In(<<Head(s)>> \o Tail(s)) = In(<<Head(s)>>) \cup In(Tail(s))
  BY <1>1, InJoined
<1> QED BY <1>1, <1>2, InOne

LEMMA CountIsNat ==
    ASSUME NEW s \in Seq(Message), NEW M
    PROVE  /\ IsFiniteSet({p \in DOMAIN s : s[p] \in M}) /\ Count(s, M) \in Nat
<1>1. IsFiniteSet(DOMAIN s)
  BY SeqOfMessages, FS_Interval
<1>2. {p \in DOMAIN s : s[p] \in M} \in SUBSET DOMAIN s
  OBVIOUS
<1>3. IsFiniteSet({p \in DOMAIN s : s[p] \in M})
  BY <1>1, <1>2, FS_Subset
<1> QED BY <1>3, FS_CardinalityType DEF Count

LEMMA CountJoined ==
    ASSUME NEW s \in Seq(Message), NEW t \in Seq(Message), NEW M
    PROVE  Count(s \o t, M) = Count(s, M) + Count(t, M)
<1> DEFINE r == s \o t
           A == {p \in DOMAIN s : s[p] \in M}
           B == {p \in DOMAIN t : t[p] \in M}
           C == {Len(s) + p : p \in B}
           D == {p \in DOMAIN r : r[p] \in M}
<1>0. r = s \o t
  OBVIOUS
<1> HIDE DEF r
<1>1. /\ DOMAIN s = 1 .. Len(s) /\ Len(s) \in Nat
      /\ DOMAIN t = 1 .. Len(t) /\ Len(t) \in Nat
  BY SeqOfMessages
<1>2. /\ \A p \in DOMAIN s : p \in DOMAIN r /\ r[p] = s[p]
      /\ \A p \in DOMAIN t : Len(s) + p \in DOMAIN r /\ r[Len(s) + p] = t[p]
      /\ \A p \in DOMAIN r : \/ p \in DOMAIN s /\ r[p] = s[p]
                             \/ p - Len(s) \in DOMAIN t /\ r[p] = t[p - Len(s)]
      /\ DOMAIN r = 1 .. Len(s) + Len(t)
  BY <1>0, Joined
<1>3. D = A \cup C
  <2>1. \A p \in A : p \in D
    BY <1>2
  <2>2. \A p \in B : Len(s) + p \in D
    BY <1>2
  <2>3. ASSUME NEW p \in D PROVE p \in A \/ p \in C
    <3>1. CASE p \in DOMAIN s /\ r[p] = s[p]
      BY <2>3, <3>1
    <3>2. CASE p - Len(s) \in DOMAIN t /\ r[p] = t[p - Len(s)]
      <4>1. p - Len(s) \in B /\ Len(s) + (p - Len(s)) = p
        BY <1>1, <1>2, <2>3, <3>2
      <4> QED BY <4>1
    <3> QED BY <1>2, <2>3, <3>1, <3>2
  <2> QED BY <2>1, <2>2, <2>3
<1>4. A \cap C = {}
  BY <1>1
<1>5. IsFiniteSet(A) /\ IsFiniteSet(B)
  BY CountIsNat
<1>6. IsFiniteSet(C) /\ Cardinality(C) = Cardinality(B)
  <2> DEFINE f == [p \in B |-> Len(s) + p]
  <2>1. f \in Bijection(B, C)
    <3>1. f \in [B -> C]
      OBVIOUS
    <3>2. \A p, q \in B : f[p] = f[q] => p = q
      BY <1>1
    <3>3. \A c \in C : \E p \in B : f[p] = c
      OBVIOUS
    <3> HIDE DEF f, B, C
    <3> QED BY <3>1, <3>2, <3>3 DEF Bijection, Injection, IsInjective, Surjection
  <2>2. ExistsBijection(B, C)
    BY <2>1 DEF ExistsBijection
  <2> HIDE DEF f, B, C
  <2> QED BY <1>5, <2>2, FS_Bijection
<1>7. Cardinality(A \cup C) = Cardinality(A) + Cardinality(C)
  <2> HIDE DEF A, C
  <2>1. Cardinality(A \cup C) = Cardinality(A) + Cardinality(C) - Cardinality(A \cap C)
    BY <1>5, <1>6, FS_Union
  <2>2. Cardinality(A) \in Nat /\ Cardinality(C) \in Nat
    BY <1>5, <1>6, FS_CardinalityType
  <2>3. Cardinality(A \cap C) = 0
    BY <1>4, FS_EmptySet
  <2> QED BY <2>1, <2>2, <2>3
<1>8. Cardinality(D) = Cardinality(A) + Cardinality(B)
  BY <1>3, <1>6, <1>7
<1> QED BY <1>8 DEF Count, r

LEMMA CountEmpty == ASSUME NEW M PROVE Count(<<>>, M) = 0
<1>1. {p \in DOMAIN <<>> : <<>>[p] \in M} = {}
  OBVIOUS
<1> QED BY <1>1, FS_EmptySet DEF Count

LEMMA CountOne ==
    ASSUME NEW m, NEW M
    PROVE  Count(<<m>>, M) = IF m \in M THEN 1 ELSE 0
<1>1. DOMAIN <<m>> = {1} /\ <<m>>[1] = m
  OBVIOUS
<1>2. CASE m \in M
  <2>1. {p \in DOMAIN <<m>> : <<m>>[p] \in M} = {1}
    BY <1>1, <1>2
  <2> QED BY <1>2, <2>1, FS_Singleton DEF Count
<1>3. CASE m \notin M
  <2>1. {p \in DOMAIN <<m>> : <<m>>[p] \in M} = {}
    BY <1>1, <1>3
  <2> QED BY <1>3, <2>1, FS_EmptySet DEF Count
<1> QED BY <1>2, <1>3

LEMMA CountHead ==
    ASSUME NEW s \in Seq(Message), s # <<>>, NEW M
    PROVE  Count(s, M) = Count(<<Head(s)>>, M) + Count(Tail(s), M)
<1>1. /\ Tail(s) \in Seq(Message) /\ <<Head(s)>> \in Seq(Message)
      /\ s = <<Head(s)>> \o Tail(s)
  BY HeadAndTail
<1>2. Count(<<Head(s)>> \o Tail(s), M) = Count(<<Head(s)>>, M) + Count(Tail(s), M)
  BY <1>1, CountJoined
<1> QED BY <1>1, <1>2

LEMMA CountMono ==
    ASSUME NEW s \in Seq(Message), NEW M, NEW N, M \subseteq N
    PROVE  Count(s, M) <= Count(s, N)
<1>1. IsFiniteSet({p \in DOMAIN s : s[p] \in N})
  BY CountIsNat
<1>2. {p \in DOMAIN s : s[p] \in M} \in SUBSET {p \in DOMAIN s : s[p] \in N}
  OBVIOUS
<1> QED BY <1>1, <1>2, FS_Subset DEF Count

LEMMA AppendIsJoined ==
    ASSUME NEW s \in Seq(Message), NEW m \in Message
    PROVE  Append(s, m) = s \o <<m>> /\ <<m>> \in Seq(Message)
OBVIOUS

LEMMA MsgIs ==
    ASSUME NEW type \in Types, NEW data \in SUBSET Updates
    PROVE  /\ Msg(type, data) \in Message /\ <<Msg(type, data)>> \in Seq(Message)
           /\ Msg(type, data).type = type /\ Msg(type, data).data = data
<1>1. Msg(type, data) \in Message
  BY DEF Msg, Message
<1> QED BY <1>1 DEF Msg

LEMMA CountOf ==
    ASSUME NEW m \in Message
    PROVE  /\ m.type \in Types /\ m.data \in SUBSET Updates
           /\ Count(<<m>>, Acknowledged) =
                IF m.type \in {"step1", "step2", "update"} THEN 1 ELSE 0
           /\ Count(<<m>>, Acknowledging) = IF m.type \in {"step1", "saved"} THEN 1 ELSE 0
           /\ Count(<<m>>, Handshake) = IF m.type \in {"step1", "step2"} THEN 1 ELSE 0
           /\ Count(<<m>>, Auth) = IF m.type = "auth" THEN 1 ELSE 0
           /\ Count(<<m>>, Saved) = IF m.type = "saved" THEN 1 ELSE 0
           /\ Count(<<m>>, Clean) =
                IF m.type = "step2" /\ m.data \cap OwnUpdates = {} THEN 1 ELSE 0
<1>1. m.type \in Types /\ m.data \in SUBSET Updates
  BY DEF Message
<1>2. /\ m \in Acknowledged <=> m.type \in {"step1", "step2", "update"}
      /\ m \in Acknowledging <=> m.type \in {"step1", "saved"}
      /\ m \in Handshake <=> m.type \in {"step1", "step2"}
      /\ m \in Auth <=> m.type = "auth"
      /\ m \in Saved <=> m.type = "saved"
      /\ m \in Clean <=> m.type = "step2" /\ m.data \cap OwnUpdates = {}
  BY DEF Acknowledged, Acknowledging, Handshake, Auth, Saved, Clean, OfType
<1> QED BY <1>1, <1>2, CountOne

-----------------------------------------------------------------------------
(* The order of messages.                                                  *)

LEMMA FollowedJoined ==
    ASSUME NEW s \in Seq(Message), NEW t \in Seq(Message), AuthIsFollowed(s), AuthIsFollowed(t)
    PROVE  AuthIsFollowed(s \o t)
<1> DEFINE r == s \o t
<1>0. r = s \o t
  OBVIOUS
<1> HIDE DEF r
<1>1. /\ DOMAIN s = 1 .. Len(s) /\ Len(s) \in Nat
      /\ DOMAIN t = 1 .. Len(t) /\ Len(t) \in Nat
  BY SeqOfMessages
<1>2. /\ \A p \in DOMAIN s : p \in DOMAIN r /\ r[p] = s[p]
      /\ \A p \in DOMAIN t : Len(s) + p \in DOMAIN r /\ r[Len(s) + p] = t[p]
      /\ \A p \in DOMAIN r : \/ p \in DOMAIN s /\ r[p] = s[p]
                             \/ p - Len(s) \in DOMAIN t /\ r[p] = t[p - Len(s)]
      /\ DOMAIN r = 1 .. Len(s) + Len(t)
  BY <1>0, Joined
<1>3. ASSUME NEW p \in DOMAIN r, r[p].type = "auth"
      PROVE  p + 1 \in DOMAIN r /\ r[p + 1].type = "step1"
  <2>1. CASE p \in DOMAIN s /\ r[p] = s[p]
    BY <1>2, <1>3, <2>1 DEF AuthIsFollowed
  <2>2. CASE p - Len(s) \in DOMAIN t /\ r[p] = t[p - Len(s)]
    <3>1. (p - Len(s)) + 1 \in DOMAIN t /\ t[(p - Len(s)) + 1].type = "step1"
      BY <1>3, <2>2 DEF AuthIsFollowed
    <3>2. Len(s) + ((p - Len(s)) + 1) = p + 1
      BY <1>1, <1>2
    <3> QED BY <1>2, <3>1, <3>2
  <2> QED BY <1>2, <2>1, <2>2
<1> QED BY <1>3 DEF AuthIsFollowed, r

LEMMA TailIs ==
    ASSUME NEW s \in Seq(Message), s # <<>>, NEW t, t = Tail(s)
    PROVE  /\ t \in Seq(Message) /\ Head(s) = s[1] /\ 1 \in DOMAIN s
           /\ \A p \in DOMAIN t : p \in Nat \ {0} /\ p + 1 \in DOMAIN s /\ t[p] = s[p + 1]
           /\ \A p \in DOMAIN s : p # 1 => p - 1 \in DOMAIN t /\ t[p - 1] = s[p]
           /\ \A p \in DOMAIN s : p \in Nat \ {0}
<1>1. /\ t \in Seq(Message) /\ Len(t) = Len(s) - 1
      /\ \A p \in 1 .. Len(t) : t[p] = s[p + 1]
  BY HeadTailProperties
<1>2. /\ DOMAIN s = 1 .. Len(s) /\ Len(s) \in Nat \ {0} /\ DOMAIN t = 1 .. Len(t)
  BY <1>1, SeqOfMessages, EmptySeq
<1>3. Head(s) = s[1]
  OBVIOUS
<1>4. ASSUME NEW p \in DOMAIN s, p # 1 PROVE p - 1 \in DOMAIN t /\ t[p - 1] = s[p]
  <2>1. p - 1 \in 1 .. Len(t) /\ (p - 1) + 1 = p
    BY <1>1, <1>2, <1>4
  <2> QED BY <1>1, <1>2, <2>1
<1> QED BY <1>1, <1>2, <1>3, <1>4

LEMMA FollowedTail ==
    ASSUME NEW s \in Seq(Message), s # <<>>, AuthIsFollowed(s)
    PROVE  /\ AuthIsFollowed(Tail(s))
           /\ Head(s).type = "auth" => \E m \in In(Tail(s)) : m.type = "step1"
<1> DEFINE t == Tail(s)
<1>0. t = Tail(s)
  OBVIOUS
<1> HIDE DEF t
<1>1. /\ Head(s) = s[1] /\ 1 \in DOMAIN s
      /\ \A p \in DOMAIN t : p \in Nat \ {0} /\ p + 1 \in DOMAIN s /\ t[p] = s[p + 1]
      /\ \A p \in DOMAIN s : p # 1 => p - 1 \in DOMAIN t /\ t[p - 1] = s[p]
  BY <1>0, TailIs
<1>2. ASSUME NEW p \in DOMAIN t, t[p].type = "auth"
      PROVE  p + 1 \in DOMAIN t /\ t[p + 1].type = "step1"
  <2>1. (p + 1) + 1 \in DOMAIN s /\ s[(p + 1) + 1].type = "step1"
    BY <1>1, <1>2 DEF AuthIsFollowed
  <2>2. (p + 1) + 1 # 1 /\ ((p + 1) + 1) - 1 = p + 1
    BY <1>1
  <2> QED BY <1>1, <2>1, <2>2
<1>3. ASSUME Head(s).type = "auth" PROVE \E m \in In(t) : m.type = "step1"
  <2>1. 1 + 1 \in DOMAIN s /\ s[1 + 1].type = "step1"
    BY <1>1, <1>3 DEF AuthIsFollowed
  <2>2. 1 \in DOMAIN t /\ t[1] = s[1 + 1]
    BY <1>1, <2>1
  <2> QED BY <2>1, <2>2 DEF In
<1> QED BY <1>2, <1>3 DEF AuthIsFollowed, t

LEMMA FollowedOne == ASSUME NEW m, m.type # "auth" PROVE AuthIsFollowed(<<m>>)
<1>1. DOMAIN <<m>> = {1} /\ <<m>>[1] = m
  OBVIOUS
<1> QED BY <1>1 DEF AuthIsFollowed

LEMMA FollowedEmpty == AuthIsFollowed(<<>>)
BY DEF AuthIsFollowed

LEMMA LastJoined ==
    ASSUME NEW s \in Seq(Message), NEW t \in Seq(Message), NEW type,
           AtLast(t, type) \/ (AtLast(s, type) /\ \A m \in In(t) : m.type # "close")
    PROVE  AtLast(s \o t, type)
<1> DEFINE r == s \o t
<1>0. r = s \o t
  OBVIOUS
<1> HIDE DEF r
<1>1. /\ DOMAIN s = 1 .. Len(s) /\ Len(s) \in Nat
      /\ DOMAIN t = 1 .. Len(t) /\ Len(t) \in Nat
  BY SeqOfMessages
<1>2. /\ \A p \in DOMAIN s : p \in DOMAIN r /\ r[p] = s[p]
      /\ \A p \in DOMAIN t : Len(s) + p \in DOMAIN r /\ r[Len(s) + p] = t[p]
      /\ \A p \in DOMAIN r : \/ p \in DOMAIN s /\ r[p] = s[p]
                             \/ p - Len(s) \in DOMAIN t /\ r[p] = t[p - Len(s)]
      /\ DOMAIN r = 1 .. Len(s) + Len(t)
  BY <1>0, Joined
<1>3. CASE AtLast(t, type)
  <2>1. PICK p \in DOMAIN t : /\ t[p].type = type
                              /\ \A q \in DOMAIN t : t[q].type = "close" => q < p
    BY <1>3 DEF AtLast
  <2>2. ASSUME NEW q \in DOMAIN r, r[q].type = "close" PROVE q < Len(s) + p
    <3>1. CASE q \in DOMAIN s
      BY <1>1, <3>1
    <3>2. CASE q - Len(s) \in DOMAIN t /\ r[q] = t[q - Len(s)]
      BY <1>1, <1>2, <2>1, <2>2, <3>2
    <3> QED BY <1>2, <3>1, <3>2
  <2> QED BY <1>2, <2>1, <2>2 DEF AtLast, r
<1>4. CASE AtLast(s, type) /\ \A m \in In(t) : m.type # "close"
  <2>1. PICK p \in DOMAIN s : /\ s[p].type = type
                              /\ \A q \in DOMAIN s : s[q].type = "close" => q < p
    BY <1>4 DEF AtLast
  <2>2. ASSUME NEW q \in DOMAIN r, r[q].type = "close" PROVE q < p
    BY <1>2, <1>4, <2>1, <2>2 DEF In
  <2> QED BY <1>2, <2>1, <2>2 DEF AtLast, r
<1> QED BY <1>3, <1>4

LEMMA LastTail ==
    ASSUME NEW s \in Seq(Message), s # <<>>, NEW type, AtLast(s, type)
    PROVE  \/ AtLast(Tail(s), type)
           \/ Head(s).type = type /\ \A m \in In(Tail(s)) : m.type # "close"
<1> DEFINE t == Tail(s)
<1>0. t = Tail(s)
  OBVIOUS
<1> HIDE DEF t
<1>1. /\ Head(s) = s[1] /\ 1 \in DOMAIN s
      /\ \A p \in DOMAIN t : p \in Nat \ {0} /\ p + 1 \in DOMAIN s /\ t[p] = s[p + 1]
      /\ \A p \in DOMAIN s : p # 1 => p - 1 \in DOMAIN t /\ t[p - 1] = s[p]
      /\ \A p \in DOMAIN s : p \in Nat \ {0}
  BY <1>0, TailIs
<1>2. PICK p \in DOMAIN s : /\ s[p].type = type
                            /\ \A q \in DOMAIN s : s[q].type = "close" => q < p
  BY DEF AtLast
<1>3. CASE p = 1
  <2>1. \A q \in DOMAIN t : t[q].type # "close"
    BY <1>1, <1>2, <1>3
  <2> QED BY <1>1, <1>2, <1>3, <2>1 DEF In, t
<1>4. CASE p # 1
  <2>1. p - 1 \in DOMAIN t /\ t[p - 1].type = type
    BY <1>1, <1>2, <1>4
  <2>2. \A q \in DOMAIN t : t[q].type = "close" => q < p - 1
    BY <1>1, <1>2
  <2> QED BY <2>1, <2>2 DEF AtLast, t
<1> QED BY <1>3, <1>4

-----------------------------------------------------------------------------
(* Sending.                                                                *)

LEMMA CountsAreNat ==
    ASSUME TypeOK, NEW M
    PROVE  CountSent(M) \in Nat /\ CountToServer(M) \in Nat /\ Count(down, M) \in Nat
<1>1. /\ Count(messageQueue, M) \in Nat /\ Count(up, M) \in Nat /\ Count(waiting, M) \in Nat
      /\ Count(inbox, M) \in Nat /\ Count(down, M) \in Nat
  BY CountIsNat DEF TypeOK
<1> QED BY <1>1 DEF CountSent, CountToServer

LEMMA SavedIsHandshake ==
    ASSUME TypeOK
    PROVE  /\ SavedToCome \in Nat /\ HandshakeToCome \in Nat /\ SavedToCome <= HandshakeToCome
<1>1. Clean \subseteq Handshake /\ Saved \subseteq Acknowledging
  BY DEF Clean, Handshake, Saved, Acknowledging, OfType
<1>2. /\ Count(messageQueue, Clean) <= Count(messageQueue, Handshake)
      /\ Count(up, Clean) <= Count(up, Handshake)
      /\ Count(waiting, Clean) <= Count(waiting, Handshake)
      /\ Count(inbox, Clean) <= Count(inbox, Handshake)
      /\ Count(down, Saved) <= Count(down, Acknowledging)
  BY <1>1, CountMono DEF TypeOK
<1>3. \A M : /\ Count(messageQueue, M) \in Nat /\ Count(up, M) \in Nat
             /\ Count(waiting, M) \in Nat /\ Count(inbox, M) \in Nat /\ Count(down, M) \in Nat
  BY CountIsNat DEF TypeOK
<1> QED
  BY <1>2, <1>3 DEF SavedToCome, HandshakeToCome, CountToServer, CountSent

LEMMA SendIsToServer ==
    ASSUME TypeOK, NEW messages \in Seq(Message), Send(messages), UNCHANGED <<waiting, inbox>>
    PROVE  /\ up' \in Seq(Message) /\ messageQueue' \in Seq(Message)
           /\ isAttached => ToServer' = ToServer \cup In(messages)
           /\ ~isAttached => ToServer' = ToServer
           /\ socket # "open" => up' = up
           /\ In(up) \subseteq In(up')
           /\ (AuthIsFollowed(messages) /\ AuthIsFollowed(messageQueue) /\ AuthIsFollowed(up)) =>
                AuthIsFollowed(messageQueue') /\ AuthIsFollowed(up')
<1>1. messageQueue \in Seq(Message) /\ up \in Seq(Message)
  BY DEF TypeOK
<1>2. CASE UNCHANGED <<up, messageQueue>> /\ ~isAttached
  BY <1>1, <1>2 DEF ToServer
<1>3. CASE up' = up \o messages /\ messageQueue' = messageQueue /\ socket = "open"
  <2>1. up' \in Seq(Message) /\ In(up') = In(up) \cup In(messages)
    BY <1>1, <1>3, InJoined
  <2>2. (AuthIsFollowed(messages) /\ AuthIsFollowed(up)) => AuthIsFollowed(up')
    BY <1>1, <1>3, FollowedJoined
  <2> QED BY <1>1, <1>3, <2>1, <2>2 DEF ToServer, Send
<1>4. CASE messageQueue' = messageQueue \o messages /\ up' = up
  <2>1. messageQueue' \in Seq(Message) /\ In(messageQueue') = In(messageQueue) \cup In(messages)
    BY <1>1, <1>4, InJoined
  <2>2. (AuthIsFollowed(messages) /\ AuthIsFollowed(messageQueue)) =>
            AuthIsFollowed(messageQueue')
    BY <1>1, <1>4, FollowedJoined
  <2> QED BY <1>1, <1>4, <2>1, <2>2 DEF ToServer, Send
<1> QED BY <1>2, <1>3, <1>4 DEF Send

LEMMA SendCounts ==
    ASSUME TypeOK, NEW messages \in Seq(Message), Send(messages), UNCHANGED <<waiting, inbox>>,
           NEW M
    PROVE  /\ CountSent(M)' = CountSent(M) + IF isAttached THEN Count(messages, M) ELSE 0
           /\ CountToServer(M)' = CountToServer(M) + IF isAttached THEN Count(messages, M) ELSE 0
<1>1. messageQueue \in Seq(Message) /\ up \in Seq(Message)
  BY DEF TypeOK
<1>2. /\ Count(messageQueue, M) \in Nat /\ Count(up, M) \in Nat /\ Count(waiting, M) \in Nat
      /\ Count(inbox, M) \in Nat /\ Count(messages, M) \in Nat
  BY CountIsNat DEF TypeOK
<1>3. CASE UNCHANGED <<up, messageQueue>> /\ ~isAttached
  BY <1>2, <1>3 DEF CountSent, CountToServer
<1>4. CASE isAttached /\ up' = up \o messages /\ messageQueue' = messageQueue
  <2>1. Count(up', M) = Count(up, M) + Count(messages, M)
    BY <1>1, <1>4, CountJoined
  <2> QED BY <1>2, <1>4, <2>1 DEF CountSent, CountToServer
<1>5. CASE isAttached /\ messageQueue' = messageQueue \o messages /\ up' = up
  <2>1. Count(messageQueue', M) = Count(messageQueue, M) + Count(messages, M)
    BY <1>1, <1>5, CountJoined
  <2> QED BY <1>2, <1>5, <2>1 DEF CountSent, CountToServer
<1> QED BY <1>3, <1>4, <1>5 DEF Send

-----------------------------------------------------------------------------
(* The client's steps.                                                     *)

LEMMA EditInv == ASSUME ProviderInv, NEW u \in OwnUpdates, Edit(u) PROVE ProviderInv'
<1> DEFINE m == Msg("update", {u})
<1>1. /\ u \notin doc /\ doc' = doc \cup {u} /\ unsyncedChanges' = unsyncedChanges + 1
      /\ Send(<<m>>)
      /\ UNCHANGED <<isSynced, isAuthenticated, isAttached, opening, socket, attempt, handshake,
                     down, stage, waiting, inbox, serverDoc, readOnly, denied, dismissed, closes,
                     denials, detaches, syncs, dismissals, checks>>
  BY DEF Edit, serverVars, counters
<1>2. TypeOK
  BY DEF ProviderInv, TypeInv
<1>3. m \in Message /\ <<m>> \in Seq(Message) /\ m.type = "update" /\ m.data = {u}
  BY MsgIs DEF Types, Updates
<1> HIDE DEF m
<1>4. /\ up' \in Seq(Message) /\ messageQueue' \in Seq(Message)
      /\ ToServer' = IF isAttached THEN ToServer \cup {m} ELSE ToServer
      /\ socket # "open" => up' = up
      /\ In(up) \subseteq In(up')
      /\ (AuthIsFollowed(messageQueue) /\ AuthIsFollowed(up)) =>
           AuthIsFollowed(messageQueue') /\ AuthIsFollowed(up')
  <2>1. AuthIsFollowed(<<m>>) /\ In(<<m>>) = {m}
    BY <1>3, FollowedOne, InOne
  <2> QED BY <1>1, <1>2, <1>3, <2>1, SendIsToServer
<1>5. \A M : Count(<<m>>, M) \in Nat
  BY <1>3, CountIsNat
<1>6. /\ CountToServer(Acknowledged)' =
            CountToServer(Acknowledged) + IF isAttached THEN 1 ELSE 0
      /\ CountToServer(Handshake)' = CountToServer(Handshake)
      /\ CountToServer(Clean)' = CountToServer(Clean)
      /\ CountSent(Auth)' = CountSent(Auth)
  <2>1. /\ Count(<<m>>, Acknowledged) = 1 /\ Count(<<m>>, Handshake) = 0
        /\ Count(<<m>>, Clean) = 0 /\ Count(<<m>>, Auth) = 0
    BY <1>3, CountOf
  <2>2. /\ CountToServer(Acknowledged)' = CountToServer(Acknowledged)
             + IF isAttached THEN Count(<<m>>, Acknowledged) ELSE 0
        /\ CountToServer(Handshake)' = CountToServer(Handshake)
             + IF isAttached THEN Count(<<m>>, Handshake) ELSE 0
        /\ CountToServer(Clean)' = CountToServer(Clean)
             + IF isAttached THEN Count(<<m>>, Clean) ELSE 0
        /\ CountSent(Auth)' = CountSent(Auth)
             + IF isAttached THEN Count(<<m>>, Auth) ELSE 0
    BY <1>1, <1>2, <1>3, SendCounts
  <2>3. /\ CountToServer(Handshake) \in Nat /\ CountToServer(Clean) \in Nat
        /\ CountSent(Auth) \in Nat
    BY <1>2, CountsAreNat
  <2> QED BY <2>1, <2>2, <2>3
<1>7. TypeInv'
  BY <1>1, <1>4 DEF ProviderInv, TypeInv, TypeOK, Updates, Events
<1>8. MessagesInv'
  BY <1>1, <1>3, <1>4 DEF ProviderInv, MessagesInv
<1>9. GetsToServer'
  BY <1>1, <1>3, <1>4 DEF ProviderInv, GetsToServer, Takes, Connected, WillSync
<1>10. GetsToClient'
  BY <1>1, <1>3, <1>4 DEF ProviderInv, GetsToClient, Connected, WillSync
<1>11. StepFollows'
  BY <1>1, <1>4 DEF ProviderInv, StepFollows
<1>12. GetsSynced'
  BY <1>1, <1>4 DEF ProviderInv, GetsSynced, Connected, WillSync
<1>13. UnsyncedInv'
  <2>1. CountToServer(Acknowledged) \in Nat /\ Count(down, Acknowledging) \in Nat
    BY <1>2, CountsAreNat
  <2> QED BY <1>1, <1>2, <1>6, <2>1 DEF ProviderInv, UnsyncedInv, Connected, TypeOK
<1>14. AuthenticatedInv'
  BY <1>1, <1>3, <1>4 DEF ProviderInv, AuthenticatedInv
<1>15. OnceInv'
  BY <1>1, <1>6 DEF ProviderInv, OnceInv, Once, HandshakeToCome, AuthToCome
<1>16. HonestInv'
  BY <1>1, <1>2, <1>6, SavedIsHandshake
  DEF ProviderInv, HonestInv, Once, HandshakeToCome, SavedToCome, TypeOK
<1> QED
  BY <1>7, <1>8, <1>9, <1>10, <1>11, <1>12, <1>13, <1>14, <1>15, <1>16 DEF ProviderInv

LEMMA ForceSyncInv == ASSUME ProviderInv, ForceSync PROVE ProviderInv'
<1> DEFINE m == Msg("step1", doc)
<1>1. /\ syncs' = syncs + 1 /\ Events < MaxEvents /\ unsyncedChanges' = 1
      /\ Send(<<m>>)
      /\ UNCHANGED <<doc, isSynced, isAuthenticated, isAttached, opening, socket, attempt,
                     handshake, down, stage, waiting, inbox, serverDoc, readOnly, denied,
                     dismissed, closes,
                     denials, detaches, dismissals, checks>>
  BY DEF ForceSync, ResetUnsyncedChanges, serverVars
<1>2. TypeOK
  BY DEF ProviderInv, TypeInv
<1>3. m \in Message /\ <<m>> \in Seq(Message) /\ m.type = "step1" /\ m.data = doc
  BY <1>2, MsgIs DEF Types, TypeOK
<1> HIDE DEF m
<1>4. /\ up' \in Seq(Message) /\ messageQueue' \in Seq(Message)
      /\ ToServer' = IF isAttached THEN ToServer \cup {m} ELSE ToServer
      /\ socket # "open" => up' = up
      /\ In(up) \subseteq In(up')
      /\ (AuthIsFollowed(messageQueue) /\ AuthIsFollowed(up)) =>
           AuthIsFollowed(messageQueue') /\ AuthIsFollowed(up')
  <2>1. AuthIsFollowed(<<m>>) /\ In(<<m>>) = {m}
    BY <1>3, FollowedOne, InOne
  <2> QED BY <1>1, <1>2, <1>3, <2>1, SendIsToServer
<1>5. /\ CountToServer(Acknowledged)' =
            CountToServer(Acknowledged) + IF isAttached THEN 1 ELSE 0
      /\ CountToServer(Acknowledged) \in Nat /\ Count(down, Acknowledging) \in Nat
  <2>1. Count(<<m>>, Acknowledged) = 1
    BY <1>3, CountOf
  <2>2. CountToServer(Acknowledged)' = CountToServer(Acknowledged)
             + IF isAttached THEN Count(<<m>>, Acknowledged) ELSE 0
    BY <1>1, <1>2, <1>3, SendCounts
  <2> QED BY <1>2, <2>1, <2>2, CountsAreNat
<1>6. syncs' # 0
  BY <1>1, <1>2 DEF TypeOK
<1>7. TypeInv'
  BY <1>1, <1>2, <1>4, ProviderAssumption DEF ProviderInv, TypeInv, TypeOK, Events
<1>8. MessagesInv'
  BY <1>1, <1>3, <1>4 DEF ProviderInv, MessagesInv
<1>9. GetsToServer'
  BY <1>1, <1>3, <1>4 DEF ProviderInv, GetsToServer, Takes, Connected, WillSync
<1>10. GetsToClient'
  BY <1>1, <1>3, <1>4 DEF ProviderInv, GetsToClient, Connected, WillSync
<1>11. StepFollows'
  BY <1>1, <1>4 DEF ProviderInv, StepFollows
<1>12. GetsSynced'
  BY <1>1, <1>4 DEF ProviderInv, GetsSynced, Connected, WillSync
<1>13. UnsyncedInv'
  BY <1>1, <1>2, <1>5 DEF ProviderInv, UnsyncedInv, Connected, TypeOK
<1>14. AuthenticatedInv'
  BY <1>1, <1>3, <1>4 DEF ProviderInv, AuthenticatedInv
<1>15. OnceInv' /\ HonestInv'
  BY <1>6 DEF OnceInv, HonestInv, Once
<1> QED
  BY <1>7, <1>8, <1>9, <1>10, <1>11, <1>12, <1>13, <1>14, <1>15 DEF ProviderInv

LEMMA DetachInv == ASSUME ProviderInv, Detach PROVE ProviderInv'
<1> DEFINE m == Msg("close", {})
<1>1. /\ detaches' = detaches + 1 /\ Events < MaxEvents /\ isAttached' = FALSE
      /\ Send(<<m>>)
      /\ UNCHANGED <<doc, unsyncedChanges, isSynced, isAuthenticated, opening, socket, attempt,
                     handshake, down, stage, waiting, inbox, serverDoc, readOnly, denied,
                     dismissed, closes,
                     denials, syncs, dismissals, checks>>
  BY DEF Detach, serverVars
<1>2. TypeOK
  BY DEF ProviderInv, TypeInv
<1>3. m \in Message /\ <<m>> \in Seq(Message) /\ m.type = "close" /\ m.data = {}
  BY MsgIs DEF Types
<1> HIDE DEF m
<1>4. /\ up' \in Seq(Message) /\ messageQueue' \in Seq(Message)
      /\ ToServer' \subseteq ToServer \cup {m}
      /\ socket # "open" => up' = up
      /\ In(up) \subseteq In(up')
      /\ (AuthIsFollowed(messageQueue) /\ AuthIsFollowed(up)) =>
           AuthIsFollowed(messageQueue') /\ AuthIsFollowed(up')
  <2>1. AuthIsFollowed(<<m>>) /\ In(<<m>>) = {m}
    BY <1>3, FollowedOne, InOne
  <2> QED BY <1>1, <1>2, <1>3, <2>1, SendIsToServer
<1>5. detaches' # 0
  BY <1>1, <1>2 DEF TypeOK
<1>6. TypeInv'
  <2>1. detaches' \in Nat /\ Events' <= MaxEvents
    BY <1>1, <1>2, ProviderAssumption DEF TypeOK, Events
  <2> QED BY <1>1, <1>2, <1>4, <2>1 DEF ProviderInv, TypeInv, TypeOK
<1>7. MessagesInv'
  BY <1>1, <1>3, <1>4 DEF ProviderInv, MessagesInv
<1>8. GetsToServer' /\ GetsToClient' /\ GetsSynced' /\ UnsyncedInv'
  BY <1>1 DEF GetsToServer, GetsToClient, GetsSynced, UnsyncedInv, Connected
<1>9. StepFollows'
  BY <1>1, <1>4 DEF ProviderInv, StepFollows
<1>10. AuthenticatedInv'
  BY <1>1, <1>5 DEF ProviderInv, AuthenticatedInv
<1>11. OnceInv' /\ HonestInv'
  BY <1>5 DEF OnceInv, HonestInv, Once
<1> QED BY <1>6, <1>7, <1>8, <1>9, <1>10, <1>11 DEF ProviderInv

LEMMA OpeningIs ==
    ASSUME TypeOK, NEW hasToken \in BOOLEAN
    PROVE  /\ Opening(hasToken) \in Seq(Message)
           /\ In(Opening(hasToken)) =
                (IF hasToken THEN {Msg("auth", {})} ELSE {}) \cup {Msg("step1", doc)}
           /\ AuthIsFollowed(Opening(hasToken))
           /\ Count(Opening(hasToken), Acknowledged) = 1
           /\ Count(Opening(hasToken), Handshake) = 1
           /\ Count(Opening(hasToken), Clean) = 0
           /\ Count(Opening(hasToken), Auth) = IF hasToken THEN 1 ELSE 0
<1> DEFINE auth == Msg("auth", {})
           first == Msg("step1", doc)
<1>1. /\ auth \in Message /\ <<auth>> \in Seq(Message) /\ auth.type = "auth"
      /\ first \in Message /\ <<first>> \in Seq(Message) /\ first.type = "step1"
  BY MsgIs DEF TypeOK, Types
<1>2. Opening(hasToken) = (IF hasToken THEN <<auth>> ELSE <<>>) \o <<first>>
  BY DEF Opening
<1> HIDE DEF auth, first
<1>3. /\ Count(<<first>>, Acknowledged) = 1 /\ Count(<<first>>, Handshake) = 1
      /\ Count(<<first>>, Clean) = 0 /\ Count(<<first>>, Auth) = 0
      /\ Count(<<auth>>, Acknowledged) = 0 /\ Count(<<auth>>, Handshake) = 0
      /\ Count(<<auth>>, Clean) = 0 /\ Count(<<auth>>, Auth) = 1
  BY <1>1, CountOf
<1>4. CASE hasToken
  <2>1. Opening(hasToken) = <<auth>> \o <<first>>
    BY <1>2, <1>4
  <2>2. /\ <<auth>> \o <<first>> \in Seq(Message)
        /\ In(<<auth>> \o <<first>>) = {auth} \cup {first}
    BY <1>1, InJoined, InOne
  <2>3. /\ Count(<<auth>> \o <<first>>, Acknowledged) = 1
        /\ Count(<<auth>> \o <<first>>, Handshake) = 1
        /\ Count(<<auth>> \o <<first>>, Clean) = 0
        /\ Count(<<auth>> \o <<first>>, Auth) = 1
    <3>1. \A M \in {Acknowledged, Handshake, Clean, Auth} :
             Count(<<auth>> \o <<first>>, M) = Count(<<auth>>, M) + Count(<<first>>, M)
      <4> SUFFICES ASSUME NEW M
                   PROVE  Count(<<auth>> \o <<first>>, M)
                            = Count(<<auth>>, M) + Count(<<first>>, M)
        OBVIOUS
      <4> QED BY <1>1, CountJoined
    <3> QED BY <1>3, <3>1
  <2>4. AuthIsFollowed(<<auth>> \o <<first>>)
    <3> DEFINE r == <<auth>> \o <<first>>
    <3>1. r = <<auth>> \o <<first>>
      OBVIOUS
    <3> HIDE DEF r
    <3>2. /\ Len(<<auth>>) = 1 /\ Len(<<first>>) = 1
          /\ DOMAIN <<auth>> = {1} /\ DOMAIN <<first>> = {1}
          /\ <<auth>>[1] = auth /\ <<first>>[1] = first
      OBVIOUS
    <3>3. DOMAIN r = 1 .. Len(<<auth>>) + Len(<<first>>) /\ r[1] = auth
      BY <1>1, <3>1, <3>2, Joined
    <3>4. r[Len(<<auth>>) + 1] = first
      BY <1>1, <3>1, <3>2, Joined
    <3>5. DOMAIN r = {1, 2} /\ r[1] = auth /\ r[2] = first
      BY <3>2, <3>3, <3>4
    <3> QED BY <1>1, <3>5 DEF AuthIsFollowed, r
  <2> QED BY <1>3, <1>4, <2>1, <2>2, <2>3, <2>4 DEF auth, first
<1>5. CASE ~hasToken
  <2>1. Opening(hasToken) = <<first>>
    BY <1>1, <1>2, <1>5, ConcatEmptySeq
  <2> QED BY <1>1, <1>3, <1>5, <2>1, InOne, FollowedOne DEF auth, first
<1> QED BY <1>4, <1>5

LEMMA TokenSettlesInv == ASSUME ProviderInv, TokenSettles PROVE ProviderInv'
<1>1. PICK hasToken \in BOOLEAN :
        /\ hasToken \/ Events < MaxEvents
        /\ denials' = IF hasToken THEN denials ELSE denials + 1
        /\ isAuthenticated' = (hasToken /\ isAuthenticated)
        /\ denied' = (denied \/ ~hasToken)
        /\ Send(Opening(hasToken))
  BY DEF TokenSettles, KnownAfterToken
<1> DEFINE messages == Opening(hasToken)
           auth == Msg("auth", {})
           first == Msg("step1", doc)
<1>2. /\ opening > 0 /\ opening' = opening - 1 /\ unsyncedChanges' = 1
      /\ UNCHANGED <<doc, isSynced, isAttached, socket, attempt, handshake, down, stage,
                     waiting, inbox, serverDoc, readOnly, dismissed, closes, detaches,
                     syncs, dismissals, checks>>
  BY DEF TokenSettles, ResetUnsyncedChanges
<1>3. TypeOK
  BY DEF ProviderInv, TypeInv
<1>4. /\ messages \in Seq(Message) /\ AuthIsFollowed(messages)
      /\ In(messages) = (IF hasToken THEN {auth} ELSE {}) \cup {first}
      /\ Count(messages, Acknowledged) = 1 /\ Count(messages, Handshake) = 1
      /\ Count(messages, Clean) = 0
      /\ Count(messages, Auth) = IF hasToken THEN 1 ELSE 0
  BY <1>3, OpeningIs
<1>5. /\ auth.type = "auth" /\ auth.data = {}
      /\ first.type = "step1" /\ first.data = doc
  BY <1>3, MsgIs DEF TypeOK, Types
<1> HIDE DEF messages, auth, first
<1>6. /\ up' \in Seq(Message) /\ messageQueue' \in Seq(Message)
      /\ ToServer' = IF isAttached THEN ToServer \cup In(messages) ELSE ToServer
      /\ socket # "open" => up' = up
      /\ In(up) \subseteq In(up')
      /\ (AuthIsFollowed(messageQueue) /\ AuthIsFollowed(up)) =>
           AuthIsFollowed(messageQueue') /\ AuthIsFollowed(up')
  <2>1. Send(messages)
    BY <1>1 DEF messages
  <2> QED BY <1>2, <1>3, <1>4, <2>1, SendIsToServer
<1>7. /\ \A m \in ToServer' : m \in ToServer \/ m = first \/ (hasToken /\ m = auth)
      /\ ToServer \subseteq ToServer'
      /\ isAttached => first \in ToServer'
  BY <1>4, <1>6
<1>8. isAttached =>
        /\ CountToServer(Acknowledged)' = CountToServer(Acknowledged) + 1
        /\ CountToServer(Handshake)' = CountToServer(Handshake) + 1
        /\ CountToServer(Clean)' = CountToServer(Clean)
        /\ CountSent(Auth)' = CountSent(Auth) + IF hasToken THEN 1 ELSE 0
  <2>1. Send(messages)
    BY <1>1 DEF messages
  <2>2. isAttached =>
        /\ CountToServer(Acknowledged)' =
             CountToServer(Acknowledged) + Count(messages, Acknowledged)
        /\ CountToServer(Handshake)' = CountToServer(Handshake) + Count(messages, Handshake)
        /\ CountToServer(Clean)' = CountToServer(Clean) + Count(messages, Clean)
        /\ CountSent(Auth)' = CountSent(Auth) + Count(messages, Auth)
    BY <1>2, <1>3, <1>4, <2>1, SendCounts
  <2>3. CountToServer(Clean) \in Nat
    BY <1>3, CountsAreNat
  <2> QED BY <1>4, <2>2, <2>3
<1>9. TypeInv'
  <2>1. denials' \in Nat /\ Events' <= MaxEvents
    BY <1>1, <1>2, <1>3, ProviderAssumption DEF TypeOK, Events
  <2>2. opening' \in Nat
    BY <1>2, <1>3 DEF TypeOK
  <2> QED BY <1>1, <1>2, <1>3, <1>6, <2>1, <2>2 DEF ProviderInv, TypeInv, TypeOK
<1>10. MessagesInv'
  BY <1>2, <1>5, <1>7 DEF ProviderInv, MessagesInv
<1>11. Connected' => WillSync'
  BY <1>2, <1>5, <1>7 DEF Connected, WillSync
<1>12. GetsToServer' /\ GetsToClient' /\ GetsSynced'
  BY <1>11 DEF GetsToServer, GetsToClient, GetsSynced
<1>13. StepFollows'
  BY <1>2, <1>6 DEF ProviderInv, StepFollows
<1>14. UnsyncedInv'
  <2>1. CountToServer(Acknowledged) \in Nat /\ Count(down, Acknowledging) \in Nat
    BY <1>3, CountsAreNat
  <2> QED BY <1>2, <1>8, <2>1 DEF UnsyncedInv, Connected
<1>15. AuthenticatedInv'
  BY <1>1, <1>2, <1>5, <1>7 DEF ProviderInv, AuthenticatedInv
<1>16. Once' => /\ Once /\ socket = "open" /\ opening = 1 /\ isAttached
                /\ HandshakeToCome = 0 /\ AuthToCome = 0 /\ stage = "none" /\ ~denied
                /\ SavedToCome = 0
  <2>1. Once' => Once /\ isAttached
    BY <1>2 DEF ProviderInv, AuthenticatedInv, Once
  <2> QED BY <1>2, <1>3, <2>1, SavedIsHandshake DEF ProviderInv, OnceInv, TypeOK
<1>17. OnceInv'
  <2> SUFFICES ASSUME Once' PROVE OnceInv'
    BY DEF OnceInv
  <2>1. AuthToCome' = IF hasToken THEN 1 ELSE 0
    BY <1>8, <1>16 DEF AuthToCome
  <2>2. socket' = "open" /\ opening' = 0 /\ stage' = "none" /\ (denied' => ~hasToken)
    <3>1. denied' => ~hasToken
      BY <1>1, <1>16
    <3> QED BY <1>2, <1>16, <3>1
  <2>3. CASE hasToken
    BY <2>1, <2>2, <2>3 DEF OnceInv
  <2>4. CASE ~hasToken
    BY <2>1, <2>2, <2>4 DEF OnceInv
  <2> QED BY <2>3, <2>4
<1>18. HonestInv'
  <2>1. /\ CountToServer(Handshake) \in Nat /\ CountToServer(Clean) \in Nat
        /\ Count(down, Acknowledging) \in Nat /\ Count(down, Saved) \in Nat
    BY <1>3, CountsAreNat
  <2> QED
    BY <1>2, <1>8, <1>16, <2>1 DEF HonestInv, HandshakeToCome, SavedToCome
<1> QED
  BY <1>9, <1>10, <1>12, <1>13, <1>14, <1>15, <1>17, <1>18 DEF ProviderInv

\* A step that leaves what was sent alone.
LEMMA WebSocketOpensInv == ASSUME ProviderInv, WebSocketOpens PROVE ProviderInv'
<1>1. /\ socket = "connecting" /\ socket' = "open"
      /\ IF isAttached THEN opening' = opening + 1 /\ isAuthenticated' = FALSE
         ELSE UNCHANGED <<opening, isAuthenticated>>
      /\ UNCHANGED <<doc, unsyncedChanges, isSynced, isAttached, attempt, messageQueue,
                     handshake, up, down, stage, waiting, inbox, serverDoc, readOnly,
                     denied, dismissed,
                     closes, denials, detaches, syncs, dismissals, checks>>
  BY DEF WebSocketOpens, network, serverVars, counters
<1>2. TypeOK /\ stage = "none"
  BY <1>1 DEF ProviderInv, TypeInv, TypeOK
<1>3. UNCHANGED ToServer /\ UNCHANGED <<HandshakeToCome, AuthToCome, SavedToCome>>
  BY <1>1 DEF ToServer, HandshakeToCome, AuthToCome, SavedToCome, CountToServer, CountSent
<1>4. TypeInv'
  <2>1. opening' \in Nat /\ Events' = Events
    BY <1>1, <1>2 DEF TypeOK, Events
  <2> QED BY <1>1, <1>2, <2>1 DEF ProviderInv, TypeInv, TypeOK
<1>5. MessagesInv' /\ StepFollows'
  BY <1>1, <1>3 DEF ProviderInv, MessagesInv, StepFollows
<1>6. Connected' => opening' > 0
  BY <1>1, <1>2 DEF Connected, TypeOK
<1>7. GetsToServer' /\ GetsToClient' /\ GetsSynced' /\ UnsyncedInv'
  BY <1>6 DEF GetsToServer, GetsToClient, GetsSynced, UnsyncedInv, WillSync
<1>8. AuthenticatedInv'
  BY <1>1, <1>2, <1>3 DEF ProviderInv, AuthenticatedInv
<1>9. OnceInv' /\ HonestInv'
  <2>1. Once' => Once /\ isAttached
    BY <1>1 DEF ProviderInv, AuthenticatedInv, Once
  <2>2. OnceInv'
    BY <1>1, <1>2, <1>3, <2>1 DEF ProviderInv, OnceInv, TypeOK
  <2>3. HonestInv'
    BY <1>1, <1>3, <2>1 DEF ProviderInv, HonestInv
  <2> QED BY <2>2, <2>3
<1> QED BY <1>4, <1>5, <1>7, <1>8, <1>9 DEF ProviderInv

LEMMA ReconnectInv == ASSUME ProviderInv, Reconnect PROVE ProviderInv'
<1>1. /\ socket = "closed" /\ socket' = "connecting"
      /\ attempt' = TRUE
      /\ UNCHANGED <<doc, unsyncedChanges, isSynced, isAuthenticated, isAttached, opening,
                     messageQueue, handshake, up, down, stage, waiting, inbox, serverDoc,
                     readOnly, denied, dismissed, closes, denials, detaches, syncs,
                     dismissals, checks>>
  BY DEF Reconnect, network, serverVars, counters
<1>2. UNCHANGED ToServer
  BY <1>1 DEF ToServer
<1>3. TypeInv'
  BY <1>1 DEF ProviderInv, TypeInv, TypeOK, Events
<1>4. MessagesInv' /\ StepFollows' /\ AuthenticatedInv'
  BY <1>1, <1>2 DEF ProviderInv, MessagesInv, StepFollows, AuthenticatedInv
<1>5. GetsToServer' /\ GetsToClient' /\ GetsSynced' /\ UnsyncedInv'
  BY <1>1 DEF GetsToServer, GetsToClient, GetsSynced, UnsyncedInv, Connected
<1>6. OnceInv' /\ HonestInv'
  <2>1. ~Once'
    BY <1>1 DEF ProviderInv, OnceInv, Once
  <2> QED BY <2>1 DEF OnceInv, HonestInv
<1> QED BY <1>3, <1>4, <1>5, <1>6 DEF ProviderInv

LEMMA AttachInv == ASSUME ProviderInv, Attach PROVE ProviderInv'
<1>1. /\ ~isAttached /\ isAttached' = TRUE
      /\ IF socket = "open" THEN opening' = opening + 1 /\ isAuthenticated' = FALSE
         ELSE UNCHANGED <<opening, isAuthenticated>>
      /\ UNCHANGED <<doc, unsyncedChanges, isSynced, socket, attempt, messageQueue, handshake,
                     up, down, stage, waiting, inbox, serverDoc, readOnly, denied,
                     dismissed, closes,
                     denials, detaches, syncs, dismissals, checks>>
  BY DEF Attach, network, serverVars, counters
<1>2. TypeOK /\ detaches' # 0
  BY <1>1 DEF ProviderInv, TypeInv, AuthenticatedInv
<1>3. UNCHANGED ToServer
  BY <1>1 DEF ToServer
<1>4. TypeInv'
  <2>1. opening' \in Nat /\ Events' = Events
    BY <1>1, <1>2 DEF TypeOK, Events
  <2> QED BY <1>1, <1>2, <2>1 DEF ProviderInv, TypeInv, TypeOK
<1>5. MessagesInv' /\ StepFollows' /\ AuthenticatedInv'
  BY <1>1, <1>2, <1>3 DEF ProviderInv, MessagesInv, StepFollows, AuthenticatedInv
<1>6. Connected' => opening' > 0
  BY <1>1, <1>2 DEF Connected, TypeOK
<1>7. GetsToServer' /\ GetsToClient' /\ GetsSynced' /\ UnsyncedInv'
  BY <1>6 DEF GetsToServer, GetsToClient, GetsSynced, UnsyncedInv, WillSync
<1>8. OnceInv' /\ HonestInv'
  BY <1>2 DEF OnceInv, HonestInv, Once
<1> QED BY <1>4, <1>5, <1>7, <1>8 DEF ProviderInv

LEMMA AppendIs ==
    ASSUME NEW s \in Seq(Message), NEW m \in Message
    PROVE  /\ Append(s, m) \in Seq(Message) /\ In(Append(s, m)) = In(s) \cup {m}
           /\ \A M : Count(Append(s, m), M) = Count(s, M) + Count(<<m>>, M)
           /\ (AuthIsFollowed(s) /\ m.type # "auth") => AuthIsFollowed(Append(s, m))
           /\ \A type : (AtLast(s, type) /\ m.type # "close") => AtLast(Append(s, m), type)
<1>1. Append(s, m) = s \o <<m>> /\ <<m>> \in Seq(Message) /\ In(<<m>>) = {m}
  BY AppendIsJoined, InOne
<1>2. s \o <<m>> \in Seq(Message) /\ In(s \o <<m>>) = In(s) \cup {m}
  BY <1>1, InJoined
<1>3. ASSUME NEW M PROVE Count(s \o <<m>>, M) = Count(s, M) + Count(<<m>>, M)
  BY <1>1, CountJoined
<1>4. (AuthIsFollowed(s) /\ m.type # "auth") => AuthIsFollowed(s \o <<m>>)
  BY <1>1, FollowedOne, FollowedJoined
<1>5. \A type : (AtLast(s, type) /\ m.type # "close") => AtLast(s \o <<m>>, type)
  BY <1>1, LastJoined
<1> QED BY <1>1, <1>2, <1>3, <1>4, <1>5

LEMMA LastAppended ==
    ASSUME NEW s \in Seq(Message), NEW m \in Message, m.type # "close"
    PROVE  AtLast(Append(s, m), m.type)
<1>1. Append(s, m) = s \o <<m>> /\ <<m>> \in Seq(Message)
  BY AppendIsJoined
<1>2. DOMAIN <<m>> = {1} /\ <<m>>[1] = m
  OBVIOUS
<1>3. AtLast(<<m>>, m.type)
  BY <1>2 DEF AtLast
<1> QED BY <1>1, <1>3, LastJoined

LEMMA CloseWebSocketInv ==
    ASSUME ProviderInv, CloseWebSocket, messageQueue' \in {messageQueue, <<>>},
           closes' \in Nat, checks' \in Nat, closes' # 0 \/ checks' # 0, Events' <= MaxEvents
    PROVE  ProviderInv'
<1>1. /\ socket' = "closed" /\ attempt' = FALSE
      /\ up' = <<>> /\ down' = <<>> /\ waiting' = <<>> /\ inbox' = <<>>
      /\ stage' = "none" /\ denied' = FALSE /\ dismissed' = FALSE
      /\ serverDoc' = serverDoc \cup UNION {Received(inbox[i]) : i \in DOMAIN inbox}
      /\ IF isAttached THEN OnClose ELSE UNCHANGED <<isAuthenticated, isSynced, handshake>>
      /\ UNCHANGED <<doc, unsyncedChanges, isAttached, opening, readOnly, denials, detaches,
                     syncs, dismissals>>
  BY DEF CloseWebSocket
<1>2. TypeOK
  BY DEF ProviderInv, TypeInv
<1>3. /\ messageQueue' \in Seq(Message) /\ ToServer' \subseteq ToServer /\ In(down') = {}
      /\ AuthIsFollowed(messageQueue) => AuthIsFollowed(messageQueue')
      /\ AuthIsFollowed(up')
  <2>1. messageQueue \in Seq(Message)
    BY <1>2 DEF TypeOK
  <2>2. In(up') = {} /\ In(down') = {} /\ In(waiting') = {} /\ In(inbox') = {}
    BY <1>1, InEmpty
  <2>3. messageQueue' = messageQueue \/ (messageQueue' = <<>> /\ In(messageQueue') = {})
    BY <1>1, InEmpty
  <2>4. ToServer' \subseteq ToServer
    BY <2>2, <2>3 DEF ToServer
  <2>5. AuthIsFollowed(up')
    BY <1>1, FollowedEmpty
  <2>6. AuthIsFollowed(messageQueue) => AuthIsFollowed(messageQueue')
    BY <2>3, FollowedEmpty
  <2>7. messageQueue' \in Seq(Message)
    <3>1. <<>> \in Seq(Message)
      OBVIOUS
    <3> QED BY <2>1, <2>3, <3>1
  <2> QED BY <2>2, <2>4, <2>5, <2>6, <2>7
<1>4. /\ serverDoc' \subseteq Updates /\ serverDoc \subseteq serverDoc'
      /\ readOnly => serverDoc' = serverDoc
  <2>1. \A i \in DOMAIN inbox : /\ Received(inbox[i]) \subseteq Updates
                                /\ readOnly => Received(inbox[i]) = {}
    <3>1. \A i \in DOMAIN inbox : inbox[i] \in Message
      BY <1>2, SeqOfMessages DEF TypeOK
    <3> QED BY <3>1 DEF Received, Message
  <2> QED BY <1>1, <1>2, <2>1 DEF TypeOK
<1>5. TypeInv'
  <2>1. closes' \in Nat /\ checks' \in Nat /\ Events' <= MaxEvents
    OBVIOUS
  <2>2. isSynced' \in BOOLEAN /\ isAuthenticated' \in BOOLEAN /\ handshake' \in BOOLEAN
    BY <1>1, <1>2 DEF TypeOK, OnClose
  <2>3. /\ doc' \subseteq Updates /\ serverDoc' \subseteq Updates
        /\ unsyncedChanges' \in Nat /\ opening' \in Nat /\ isAttached' \in BOOLEAN
        /\ attempt' \in BOOLEAN /\ denied' \in BOOLEAN /\ readOnly' \in BOOLEAN
        /\ denials' \in Nat /\ detaches' \in Nat /\ syncs' \in Nat
        /\ dismissed' \in BOOLEAN /\ dismissals' \in Nat
    BY <1>1, <1>2, <1>4 DEF TypeOK
  <2>4. /\ socket' = "closed" /\ stage' = "none"
        /\ up' = <<>> /\ down' = <<>> /\ waiting' = <<>> /\ inbox' = <<>>
    BY <1>1
  <2>5. up' \in Seq(Message) /\ down' \in Seq(Message) /\ waiting' \in Seq(Message)
        /\ inbox' \in Seq(Message)
    <3>1. <<>> \in Seq(Message)
      OBVIOUS
    <3> QED BY <2>4, <3>1
  <2>6. TypeOK'
    BY <1>3, <2>1, <2>2, <2>3, <2>4, <2>5 DEF TypeOK
  <2>7. readOnly' => serverDoc' \cap OwnUpdates = {} /\ doc' \subseteq OwnUpdates \cup serverDoc'
    <3>1. readOnly' = readOnly /\ doc' = doc
      BY <1>1
    <3> QED BY <1>4, <3>1 DEF ProviderInv, TypeInv
  <2> QED BY <2>4, <2>6, <2>7 DEF TypeInv
<1>6. MessagesInv'
  BY <1>1, <1>3 DEF ProviderInv, MessagesInv
<1>7. StepFollows'
  BY <1>1, <1>3 DEF ProviderInv, StepFollows
<1>8. GetsToServer' /\ GetsToClient' /\ GetsSynced' /\ UnsyncedInv'
  BY <1>1 DEF GetsToServer, GetsToClient, GetsSynced, UnsyncedInv, Connected
<1>9. AuthenticatedInv'
  BY <1>1, <1>3 DEF ProviderInv, AuthenticatedInv
<1>10. OnceInv' /\ HonestInv'
  BY DEF OnceInv, HonestInv, Once
<1> QED BY <1>5, <1>6, <1>7, <1>8, <1>9, <1>10 DEF ProviderInv

LEMMA WebSocketClosesInv == ASSUME ProviderInv, WebSocketCloses PROVE ProviderInv'
<1>1. /\ CloseWebSocket /\ messageQueue' \in {messageQueue, <<>>} /\ closes' = closes + 1
      /\ Events < MaxEvents /\ UNCHANGED <<checks, denials, detaches, syncs, dismissals>>
  BY DEF WebSocketCloses, CloseWebSocket
<1>2. TypeOK
  BY DEF ProviderInv, TypeInv
<1>3. closes' \in Nat /\ checks' \in Nat /\ closes' # 0 /\ Events' <= MaxEvents
  BY <1>1, <1>2, ProviderAssumption DEF TypeOK, Events
<1> QED BY <1>1, <1>3, CloseWebSocketInv

LEMMA CheckConnectionInv == ASSUME ProviderInv, CheckConnection PROVE ProviderInv'
<1>1. /\ CloseWebSocket /\ messageQueue' \in {messageQueue, <<>>} /\ checks' = checks + 1
      /\ UNCHANGED <<closes, denials, detaches, syncs, dismissals>>
  BY DEF CheckConnection, CloseWebSocket
<1>2. TypeOK
  BY DEF ProviderInv, TypeInv
<1>3. closes' \in Nat /\ checks' \in Nat /\ checks' # 0 /\ Events' <= MaxEvents
  BY <1>1, <1>2 DEF TypeOK, Events
<1> QED BY <1>1, <1>3, CloseWebSocketInv

-----------------------------------------------------------------------------
(* The server's steps.                                                     *)

LEMMA OtherEditsInv ==
    ASSUME ProviderInv, NEW u \in OtherUpdates, OtherEdits(u) PROVE ProviderInv'
<1> DEFINE m == Msg("update", {u})
<1>1. /\ serverDoc' = serverDoc \cup {u}
      /\ down' = IF stage = "ready" THEN Append(down, m) ELSE down
      /\ UNCHANGED <<doc, unsyncedChanges, isSynced, isAuthenticated, isAttached, opening,
                     socket, attempt, messageQueue, handshake, up, stage, waiting, inbox,
                     readOnly, denied, dismissed, closes, denials, detaches, syncs,
                     dismissals, checks>>
  BY DEF OtherEdits, clientVars, counters
<1>2. TypeOK /\ down \in Seq(Message)
  BY DEF ProviderInv, TypeInv, TypeOK
<1>3. m \in Message /\ m.type = "update" /\ m.data = {u}
  BY MsgIs DEF Types, Updates
<1> HIDE DEF m
<1>4. /\ down' \in Seq(Message)
      /\ stage # "ready" => down' = down
      /\ In(down') = IF stage = "ready" THEN In(down) \cup {m} ELSE In(down)
      /\ \A type : AtLast(down, type) => AtLast(down', type)
  BY <1>1, <1>2, <1>3, AppendIs
<1>5. /\ Count(down', Acknowledging) = Count(down, Acknowledging)
      /\ Count(down', Saved) = Count(down, Saved)
  <2>1. Count(<<m>>, Acknowledging) = 0 /\ Count(<<m>>, Saved) = 0
    BY <1>3, CountOf
  <2>2. /\ Count(down, Acknowledging) \in Nat /\ Count(down, Saved) \in Nat
    BY <1>2, CountIsNat
  <2>3. CASE stage = "ready"
    <3>1. /\ Count(down', Acknowledging) = Count(down, Acknowledging) + Count(<<m>>, Acknowledging)
          /\ Count(down', Saved) = Count(down, Saved) + Count(<<m>>, Saved)
      BY <1>1, <1>2, <1>3, <2>3, AppendIs
    <3> QED BY <2>1, <2>2, <3>1
  <2>4. CASE stage # "ready"
    BY <1>1, <2>4
  <2> QED BY <2>3, <2>4
<1>6. /\ UNCHANGED ToServer /\ UNCHANGED <<HandshakeToCome, AuthToCome, SavedToCome>>
      /\ UNCHANGED CountToServer(Acknowledged)
  BY <1>1, <1>5
  DEF ToServer, HandshakeToCome, AuthToCome, SavedToCome, CountToServer, CountSent
<1>7. TypeInv'
  <2>1. serverDoc' \subseteq Updates /\ Events' = Events
    BY <1>1, <1>2 DEF TypeOK, Updates, Events
  <2>2. socket # "open" => down' = down
    BY <1>2, <1>4 DEF TypeOK
  <2>3. TypeOK'
    BY <1>1, <1>2, <1>4, <2>1, <2>2 DEF TypeOK
  <2> QED BY <1>1, <2>3, ProviderAssumption DEF ProviderInv, TypeInv
<1>8. MessagesInv'
  BY <1>1, <1>3, <1>4, <1>6 DEF ProviderInv, MessagesInv
<1>9. StepFollows'
  BY <1>1 DEF ProviderInv, StepFollows
<1>10. GetsToServer'
  BY <1>1, <1>4, <1>6 DEF ProviderInv, GetsToServer, Takes, Connected, WillSync
<1>11. GetsToClient'
  BY <1>1, <1>3, <1>4, <1>6 DEF ProviderInv, GetsToClient, Connected, WillSync
<1>12. GetsSynced'
  BY <1>1, <1>3, <1>4, <1>6 DEF ProviderInv, GetsSynced, Connected, WillSync
<1>13. UnsyncedInv'
  BY <1>1, <1>5, <1>6 DEF ProviderInv, UnsyncedInv, Connected
<1>14. AuthenticatedInv'
  BY <1>1, <1>3, <1>4, <1>6 DEF ProviderInv, AuthenticatedInv
<1>15. OnceInv' /\ HonestInv'
  BY <1>1, <1>6 DEF ProviderInv, OnceInv, HonestInv, Once
<1> QED
  BY <1>7, <1>8, <1>9, <1>10, <1>11, <1>12, <1>13, <1>14, <1>15 DEF ProviderInv

LEMMA ServerAuthenticatesInv == ASSUME ProviderInv, ServerAuthenticates PROVE ProviderInv'
<1> DEFINE m == Msg("authenticated", {})
<1>1. /\ stage = "authenticating" /\ inbox = <<>> /\ stage' = "ready"
      /\ inbox' = waiting /\ waiting' = <<>> /\ down' = Append(down, m)
      /\ UNCHANGED <<doc, unsyncedChanges, isSynced, isAuthenticated, isAttached, opening,
                     socket, attempt, messageQueue, handshake, up, serverDoc,
                     readOnly, denied, dismissed, closes, denials, detaches, syncs,
                     dismissals, checks>>
  BY DEF ServerAuthenticates, clientVars, counters
<1>2. TypeOK /\ down \in Seq(Message) /\ waiting \in Seq(Message)
  BY DEF ProviderInv, TypeInv, TypeOK
<1>3. m \in Message /\ m.type = "authenticated"
  BY MsgIs DEF Types
<1> HIDE DEF m
<1>4. /\ down' \in Seq(Message) /\ In(down') = In(down) \cup {m}
      /\ AtLast(down', "authenticated")
  <2>1. AtLast(Append(down, m), m.type)
    BY <1>2, <1>3, LastAppended
  <2> QED BY <1>1, <1>2, <1>3, <2>1, AppendIs
<1>5. /\ Count(down', Acknowledging) = Count(down, Acknowledging)
      /\ Count(down', Saved) = Count(down, Saved)
  <2>1. Count(<<m>>, Acknowledging) = 0 /\ Count(<<m>>, Saved) = 0
    BY <1>3, CountOf
  <2>2. /\ Count(down, Acknowledging) \in Nat /\ Count(down, Saved) \in Nat
    BY <1>2, CountIsNat
  <2>3. /\ Count(down', Acknowledging) = Count(down, Acknowledging) + Count(<<m>>, Acknowledging)
        /\ Count(down', Saved) = Count(down, Saved) + Count(<<m>>, Saved)
    BY <1>1, <1>2, <1>3, AppendIs
  <2> QED BY <2>1, <2>2, <2>3
<1>6. UNCHANGED ToServer
  BY <1>1, InEmpty DEF ToServer
<1>7. ASSUME NEW M PROVE UNCHANGED CountToServer(M)
  <2>1. Count(<<>>, M) = 0 /\ Count(waiting, M) \in Nat /\ CountSent(M) \in Nat
    BY <1>2, CountEmpty, CountIsNat, CountsAreNat
  <2>2. UNCHANGED CountSent(M)
    BY <1>1 DEF CountSent
  <2>3. CountToServer(M)' = CountSent(M) + 0 + Count(waiting, M)
    BY <1>1, <2>1, <2>2 DEF CountToServer
  <2>4. CountToServer(M) = CountSent(M) + Count(waiting, M) + 0
    BY <1>1, <2>1 DEF CountToServer
  <2> QED BY <2>1, <2>3, <2>4
<1>8. UNCHANGED <<HandshakeToCome, AuthToCome, SavedToCome>>
  BY <1>1, <1>5, <1>7 DEF HandshakeToCome, AuthToCome, SavedToCome, CountSent
<1>9. TypeInv'
  <2>1. <<>> \in Seq(Message)
    OBVIOUS
  <2>2. TypeOK'
    BY <1>1, <1>2, <1>4, <2>1 DEF TypeOK, Events
  <2> QED BY <1>1, <1>2, <2>2 DEF ProviderInv, TypeInv, TypeOK
<1>10. MessagesInv'
  BY <1>1, <1>3, <1>4, <1>6 DEF ProviderInv, MessagesInv
<1>11. StepFollows'
  BY <1>1 DEF ProviderInv, StepFollows
<1>12. GetsToServer'
  BY <1>1, <1>4, <1>6 DEF ProviderInv, GetsToServer, Takes, Connected, WillSync
<1>13. WillSync'
  BY <1>1, <1>6 DEF ProviderInv, StepFollows, WillSync, ToServer
<1>14. GetsToClient' /\ GetsSynced'
  BY <1>13 DEF GetsToClient, GetsSynced
<1>15. UnsyncedInv'
  BY <1>1, <1>5, <1>7 DEF ProviderInv, UnsyncedInv, Connected
<1>16. AuthenticatedInv'
  BY <1>1, <1>3, <1>4, <1>6 DEF ProviderInv, AuthenticatedInv
<1>17. OnceInv' /\ HonestInv'
  BY <1>1, <1>8 DEF ProviderInv, OnceInv, HonestInv, Once
<1> QED
  BY <1>9, <1>10, <1>11, <1>12, <1>14, <1>15, <1>16, <1>17 DEF ProviderInv

LEMMA ServerDeniesInv == ASSUME ProviderInv, ServerDenies PROVE ProviderInv'
<1> DEFINE m == Msg("denied", {})
<1>1. /\ stage = "authenticating" /\ stage' = "none" /\ waiting' = <<>> /\ denied' = TRUE
      /\ Events < MaxEvents /\ denials' = denials + 1 /\ down' = Append(down, m)
      /\ UNCHANGED <<doc, unsyncedChanges, isSynced, isAuthenticated, isAttached, opening,
                     socket, attempt, messageQueue, handshake, up, inbox, serverDoc,
                     readOnly, dismissed, closes, detaches, syncs, dismissals, checks>>
  BY DEF ServerDenies, clientVars
<1>2. TypeOK /\ down \in Seq(Message)
  BY DEF ProviderInv, TypeInv, TypeOK
<1>3. m \in Message /\ m.type = "denied"
  BY MsgIs DEF Types
<1> HIDE DEF m
<1>4. down' \in Seq(Message) /\ In(down') = In(down) \cup {m}
  BY <1>1, <1>2, <1>3, AppendIs
<1>5. ToServer' \subseteq ToServer /\ UNCHANGED AuthToCome
  BY <1>1, InEmpty DEF ToServer, AuthToCome, CountSent
<1>6. TypeInv'
  <2>1. denials' \in Nat /\ Events' <= MaxEvents
    BY <1>1, <1>2, ProviderAssumption DEF TypeOK, Events
  <2>2. <<>> \in Seq(Message)
    OBVIOUS
  <2>3. TypeOK'
    BY <1>1, <1>2, <1>4, <2>1, <2>2 DEF TypeOK
  <2> QED BY <1>1, <2>3 DEF ProviderInv, TypeInv
<1>7. MessagesInv'
  BY <1>1, <1>3, <1>4, <1>5 DEF ProviderInv, MessagesInv
<1>8. StepFollows'
  BY <1>1 DEF ProviderInv, StepFollows
<1>9. GetsToServer' /\ GetsToClient' /\ GetsSynced' /\ UnsyncedInv' /\ HonestInv'
  BY <1>1 DEF GetsToServer, Takes, GetsToClient, GetsSynced, UnsyncedInv, HonestInv
<1>10. AuthenticatedInv'
  BY <1>1, <1>3, <1>4, <1>5 DEF ProviderInv, AuthenticatedInv
<1>11. OnceInv'
  BY <1>1, <1>5 DEF ProviderInv, OnceInv, Once
<1> QED BY <1>6, <1>7, <1>8, <1>9, <1>10, <1>11 DEF ProviderInv

LEMMA ServerReceiveInv == ASSUME ProviderInv, ServerReceive PROVE ProviderInv'
<1> DEFINE m == Head(up)
<1>1. /\ up # <<>> /\ up' = Tail(up)
      /\ \/ /\ stage = "ready" /\ inbox' = Append(inbox, m)
            /\ UNCHANGED <<stage, waiting>>
         \/ /\ stage = "none" /\ m.type = "auth" /\ stage' = "authenticating"
            /\ UNCHANGED <<waiting, inbox>>
         \/ /\ stage = "authenticating" \/ (stage = "none" /\ m.type # "auth")
            /\ waiting' = Append(waiting, m) /\ UNCHANGED <<stage, inbox>>
      /\ UNCHANGED <<doc, unsyncedChanges, isSynced, isAuthenticated, isAttached, opening,
                     socket, attempt, messageQueue, handshake, down, serverDoc,
                     readOnly, denied, dismissed, closes, denials, detaches, syncs,
                     dismissals, checks>>
  BY DEF ServerReceive, clientVars, counters
<1>2. /\ TypeOK /\ up \in Seq(Message) /\ inbox \in Seq(Message) /\ waiting \in Seq(Message)
      /\ socket = "open"
  BY <1>1 DEF ProviderInv, TypeInv, TypeOK
<1>3. /\ m \in Message /\ Tail(up) \in Seq(Message) /\ In(up) = {m} \cup In(Tail(up))
      /\ AuthIsFollowed(up) =>
           /\ AuthIsFollowed(Tail(up))
           /\ m.type = "auth" => \E n \in In(Tail(up)) : n.type = "step1"
  BY <1>1, <1>2, HeadAndTail, InHead, FollowedTail
<1>4. ASSUME NEW M
      PROVE  /\ Count(up, M) = Count(<<m>>, M) + Count(Tail(up), M)
             /\ Count(<<m>>, M) \in Nat /\ Count(Tail(up), M) \in Nat
             /\ Count(inbox, M) \in Nat /\ Count(waiting, M) \in Nat
             /\ Count(messageQueue, M) \in Nat
  <2>1. <<m>> \in Seq(Message)
    BY <1>1, <1>2, HeadAndTail
  <2> QED BY <1>1, <1>2, <1>3, <2>1, CountHead, CountIsNat DEF TypeOK
<1> HIDE DEF m
<1>5. /\ Append(inbox, m) \in Seq(Message) /\ In(Append(inbox, m)) = In(inbox) \cup {m}
      /\ Append(waiting, m) \in Seq(Message) /\ In(Append(waiting, m)) = In(waiting) \cup {m}
  BY <1>2, <1>3, AppendIs
<1>6. ASSUME NEW M
      PROVE  /\ Count(Append(inbox, m), M) = Count(inbox, M) + Count(<<m>>, M)
             /\ Count(Append(waiting, m), M) = Count(waiting, M) + Count(<<m>>, M)
  BY <1>2, <1>3, AppendIs
\* The token starts a session, everything else is kept.
<1>7. /\ ToServer' \cup {m} = ToServer
      /\ m.type # "auth" => ToServer' = ToServer
      /\ inbox' \in Seq(Message) /\ waiting' \in Seq(Message)
      /\ stage' \in {"none", "authenticating", "ready"}
      /\ stage = "ready" <=> stage' = "ready"
      /\ stage' = "ready" => waiting' = waiting
  BY <1>1, <1>2, <1>3, <1>5 DEF ToServer
<1>8. ASSUME NEW M, Count(<<m>>, M) = 0 \/ stage # "none" \/ m.type # "auth"
      PROVE  CountToServer(M)' = CountToServer(M)
  <2>1. CASE inbox' = Append(inbox, m) /\ UNCHANGED waiting
    <3>1. Count(inbox', M) = Count(inbox, M) + Count(<<m>>, M) /\ Count(up', M) = Count(Tail(up), M)
      BY <1>1, <1>6, <2>1
    <3> QED BY <1>1, <1>4, <2>1, <3>1 DEF CountToServer, CountSent
  <2>2. CASE waiting' = Append(waiting, m) /\ UNCHANGED inbox
    <3>1. /\ Count(waiting', M) = Count(waiting, M) + Count(<<m>>, M)
          /\ Count(up', M) = Count(Tail(up), M)
      BY <1>1, <1>6, <2>2
    <3> QED BY <1>1, <1>4, <2>2, <3>1 DEF CountToServer, CountSent
  <2>3. CASE UNCHANGED <<waiting, inbox>> /\ Count(<<m>>, M) = 0
    <3>1. Count(up', M) = Count(Tail(up), M)
      BY <1>1
    <3> QED BY <1>1, <1>4, <2>3, <3>1 DEF CountToServer, CountSent
  <2> QED BY <1>1, <1>8, <2>1, <2>2, <2>3
<1>9. /\ UNCHANGED <<HandshakeToCome, SavedToCome>>
      /\ CountToServer(Acknowledged)' = CountToServer(Acknowledged)
      /\ AuthToCome = AuthToCome' + IF m.type = "auth" THEN 1 ELSE 0
      /\ AuthToCome' \in Nat
  <2>1. /\ m.type = "auth" => /\ Count(<<m>>, Acknowledged) = 0 /\ Count(<<m>>, Handshake) = 0
                              /\ Count(<<m>>, Clean) = 0
        /\ Count(<<m>>, Auth) = IF m.type = "auth" THEN 1 ELSE 0
    BY <1>3, CountOf
  <2>2. /\ CountToServer(Acknowledged)' = CountToServer(Acknowledged)
        /\ CountToServer(Handshake)' = CountToServer(Handshake)
        /\ CountToServer(Clean)' = CountToServer(Clean)
    BY <1>8, <2>1
  <2>3. /\ AuthToCome' = Count(messageQueue, Auth) + Count(Tail(up), Auth)
        /\ AuthToCome = Count(messageQueue, Auth) + Count(up, Auth)
    BY <1>1 DEF AuthToCome, CountSent
  <2>4. UNCHANGED <<HandshakeToCome, SavedToCome>>
    BY <1>1, <2>2 DEF HandshakeToCome, SavedToCome
  <2>5. /\ Count(up, Auth) = Count(<<m>>, Auth) + Count(Tail(up), Auth)
        /\ Count(Tail(up), Auth) \in Nat /\ Count(messageQueue, Auth) \in Nat
    BY <1>4
  <2>6. AuthToCome = AuthToCome' + (IF m.type = "auth" THEN 1 ELSE 0) /\ AuthToCome' \in Nat
    BY <2>1, <2>3, <2>5
  <2> QED BY <2>2, <2>4, <2>6
<1>10. TypeInv'
  <2>1. TypeOK'
    BY <1>1, <1>2, <1>3, <1>7 DEF TypeOK, Events
  <2> QED BY <1>1, <1>2, <1>7, <2>1 DEF ProviderInv, TypeInv
<1>11. MessagesInv'
  BY <1>1, <1>7 DEF ProviderInv, MessagesInv
<1>12. WillSync => WillSync'
  BY <1>1, <1>7 DEF WillSync
<1>13. GetsToServer'
  <2>1. CASE stage = "none" /\ stage' = "authenticating"
    <3>1. StepFollows
      BY DEF ProviderInv
    <3>2. WillSync'
      BY <1>1, <1>2, <1>3, <2>1, <3>1 DEF StepFollows, WillSync, ToServer
    <3> QED BY <3>2 DEF GetsToServer
  <2>2. CASE stage' = stage
    <3>1. Takes' => Takes
      BY <1>1, <2>2 DEF Takes
    <3> QED BY <1>1, <1>7, <1>12, <3>1 DEF ProviderInv, GetsToServer, Connected
  <2> QED BY <1>1, <2>1, <2>2
<1>14. GetsToClient'
  BY <1>1, <1>7, <1>12 DEF ProviderInv, GetsToClient, Connected
<1>15. GetsSynced'
  BY <1>1, <1>7, <1>12 DEF ProviderInv, GetsSynced, Connected
<1>16. StepFollows'
  BY <1>1, <1>3, <1>5 DEF ProviderInv, StepFollows
<1>17. UnsyncedInv'
  BY <1>1, <1>9 DEF ProviderInv, UnsyncedInv, Connected
<1>18. AuthenticatedInv'
  BY <1>1, <1>7 DEF ProviderInv, AuthenticatedInv
<1>19. OnceInv'
  <2> SUFFICES ASSUME Once' PROVE OnceInv'
    BY DEF OnceInv
  <2>1. Once /\ OnceInv
    BY <1>1 DEF Once, ProviderInv
  <2>2. /\ AuthToCome = 0 => AuthToCome' = 0
        /\ AuthToCome <= 1 => AuthToCome' <= 1
        /\ (AuthToCome <= 1 /\ m.type = "auth") => AuthToCome' = 0
        /\ m.type = "auth" => AuthToCome # 0
        /\ 0 <= 1
    BY <1>9 DEF AuthToCome
  <2>3. CASE stage' = stage
    <3>1. HandshakeToCome' = HandshakeToCome
      BY <1>9
    <3> QED BY <1>1, <2>1, <2>2, <2>3, <3>1 DEF OnceInv
  <2>4. CASE stage = "none" /\ m.type = "auth" /\ stage' = "authenticating"
    <3>1. /\ socket = "open" /\ opening = 0 /\ AuthToCome <= 1 /\ ~denied
      BY <2>1, <2>2, <2>4 DEF OnceInv
    <3>2. AuthToCome' = 0
      BY <2>2, <2>4, <3>1
    <3> QED BY <1>1, <2>2, <2>4, <3>1, <3>2 DEF OnceInv
  <2> QED BY <1>1, <2>3, <2>4
<1>20. HonestInv'
  BY <1>1, <1>9 DEF ProviderInv, HonestInv, Once
<1> QED
  BY <1>10, <1>11, <1>13, <1>14, <1>15, <1>16, <1>17, <1>18, <1>19, <1>20 DEF ProviderInv

\* What ServerHandle sends.
Answer(m) ==
    CASE m.type = "step1" -> FirstSync(m)
      [] m.type \in {"step2", "update"} -> <<Acknowledgement(m)>>
      [] m.type = "close" -> IF stage = "ready" THEN <<Msg("close", {})>> ELSE <<>>
      [] m.type = "auth" -> <<>>

IsSaved(m) == m.type \in {"step2", "update"} /\ Acknowledgement(m).type = "saved"

LEMMA PairIsJoined ==
    ASSUME NEW m \in Message, NEW n \in Message PROVE <<m, n>> = <<m>> \o <<n>>
<1> DEFINE s == <<m, n>>
           t == Append(<<m>>, n)
<1>1. /\ s \in Seq(Message) /\ Len(s) = 2 /\ s[1] = m /\ s[2] = n
  OBVIOUS
<1>2. <<m>> \in Seq(Message) /\ Len(<<m>>) = 1 /\ <<m>>[1] = m
  OBVIOUS
<1>3. /\ t \in Seq(Message) /\ Len(t) = 2 /\ t[1] = m /\ t[2] = n
  BY <1>2, AppendProperties
<1> HIDE DEF s, t
<1>4. \A p \in 1 .. Len(s) : s[p] = t[p]
  BY <1>1, <1>3
<1>5. s = t
  BY <1>1, <1>3, <1>4, SeqEqual
<1>6. t = <<m>> \o <<n>>
  BY AppendIsJoined DEF t
<1> QED BY <1>5, <1>6 DEF s

LEMMA FirstSyncIs ==
    ASSUME serverDoc \subseteq Updates, NEW m \in Message
    PROVE  /\ FirstSync(m) \in Seq(Message)
           /\ In(FirstSync(m)) = {Msg("step1", serverDoc), Msg("step2", serverDoc \ m.data)}
           /\ Count(FirstSync(m), Acknowledging) = 1 /\ Count(FirstSync(m), Saved) = 0
           /\ AtLast(FirstSync(m), "step2")
<1> DEFINE a == Msg("step1", serverDoc)
           b == Msg("step2", serverDoc \ m.data)
<1>1. /\ a \in Message /\ <<a>> \in Seq(Message) /\ a.type = "step1"
      /\ b \in Message /\ <<b>> \in Seq(Message) /\ b.type = "step2"
  BY MsgIs DEF Types
<1>2. FirstSync(m) = <<a, b>>
  BY DEF FirstSync
<1> HIDE DEF a, b
<1>3. <<a, b>> = <<a>> \o <<b>>
  BY <1>1, PairIsJoined
<1>4. In(<<a>> \o <<b>>) = {a, b}
  <2>1. In(<<a>> \o <<b>>) = In(<<a>>) \cup In(<<b>>)
    BY <1>1, InJoined
  <2>2. In(<<a>>) = {a} /\ In(<<b>>) = {b}
    BY InOne
  <2> QED BY <2>1, <2>2
<1>5. /\ Count(<<a>> \o <<b>>, Acknowledging) = 1
      /\ Count(<<a>> \o <<b>>, Saved) = 0
  <2>1. /\ Count(<<a>>, Acknowledging) = 1 /\ Count(<<b>>, Acknowledging) = 0
        /\ Count(<<a>>, Saved) = 0 /\ Count(<<b>>, Saved) = 0
    BY <1>1, CountOf
  <2>2. \A M : Count(<<a>> \o <<b>>, M) = Count(<<a>>, M) + Count(<<b>>, M)
    BY <1>1, CountJoined
  <2>3. /\ Count(<<a>> \o <<b>>, Acknowledging)
             = Count(<<a>>, Acknowledging) + Count(<<b>>, Acknowledging)
        /\ Count(<<a>> \o <<b>>, Saved) = Count(<<a>>, Saved) + Count(<<b>>, Saved)
    BY <2>2
  <2> QED BY <2>1, <2>3
<1>6. AtLast(<<a>> \o <<b>>, "step2")
  <2>1. DOMAIN <<b>> = {1} /\ <<b>>[1] = b
    OBVIOUS
  <2>2. AtLast(<<b>>, "step2")
    BY <1>1, <2>1 DEF AtLast
  <2> QED BY <1>1, <2>2, LastJoined
<1>7. <<a, b>> \in Seq(Message)
  BY <1>1
<1> QED BY <1>2, <1>3, <1>4, <1>5, <1>6, <1>7 DEF a, b

LEMMA AnswerIs ==
    ASSUME TypeOK, NEW m \in Message,
           m.type \in {"auth", "step1", "step2", "update", "close"}
    PROVE  /\ Answer(m) \in Seq(Message)
           /\ \A n \in In(Answer(m)) :
                /\ n.type \in {"step1", "step2", "saved", "unsaved", "close"}
                /\ n.data \subseteq serverDoc
                /\ n.type = "close" => m.type = "close"
           /\ m.type = "step1" =>
                /\ Msg("step1", serverDoc) \in In(Answer(m))
                /\ Msg("step2", serverDoc \ m.data) \in In(Answer(m))
                /\ AtLast(Answer(m), "step2")
           /\ Count(Answer(m), Acknowledging) = IF m.type = "step1" \/ IsSaved(m) THEN 1 ELSE 0
           /\ Count(Answer(m), Saved) = IF IsSaved(m) THEN 1 ELSE 0
<1>1. CASE m.type = "step1"
  <2>1. Answer(m) = FirstSync(m) /\ ~IsSaved(m)
    BY <1>1 DEF Answer, IsSaved
  <2>2. /\ Msg("step1", serverDoc).type = "step1" /\ Msg("step1", serverDoc).data = serverDoc
        /\ Msg("step2", serverDoc \ m.data).type = "step2"
        /\ Msg("step2", serverDoc \ m.data).data = serverDoc \ m.data
    BY DEF Msg
  <2> QED BY <1>1, <2>1, <2>2, FirstSyncIs DEF TypeOK
<1>2. CASE m.type \in {"step2", "update"}
  <2> DEFINE a == Acknowledgement(m)
  <2>1. Answer(m) = <<a>> /\ (IsSaved(m) <=> a.type = "saved")
    BY <1>2 DEF Answer, IsSaved
  <2>2. /\ a \in Message /\ <<a>> \in Seq(Message) /\ a.type \in {"saved", "unsaved"}
        /\ a.data = {}
    BY MsgIs DEF Acknowledgement, Types
  <2> HIDE DEF a
  <2>3. /\ In(<<a>>) = {a}
        /\ Count(<<a>>, Acknowledging) = IF a.type = "saved" THEN 1 ELSE 0
        /\ Count(<<a>>, Saved) = IF a.type = "saved" THEN 1 ELSE 0
    BY <2>2, InOne, CountOf
  <2> QED BY <1>2, <2>1, <2>2, <2>3
<1>3. CASE m.type = "close" /\ stage = "ready"
  <2> DEFINE a == Msg("close", {})
  <2>1. Answer(m) = <<a>> /\ ~IsSaved(m)
    BY <1>3 DEF Answer, IsSaved
  <2>2. a \in Message /\ <<a>> \in Seq(Message) /\ a.type = "close" /\ a.data = {}
    BY MsgIs DEF Types
  <2> HIDE DEF a
  <2>3. In(<<a>>) = {a} /\ Count(<<a>>, Acknowledging) = 0 /\ Count(<<a>>, Saved) = 0
    BY <2>2, InOne, CountOf
  <2> QED BY <1>3, <2>1, <2>2, <2>3
<1>4. CASE m.type = "auth" \/ (m.type = "close" /\ stage # "ready")
  <2>1. Answer(m) = <<>> /\ ~IsSaved(m)
    BY <1>4 DEF Answer, IsSaved
  <2>2. <<>> \in Seq(Message)
    OBVIOUS
  <2> QED BY <1>4, <2>1, <2>2, InEmpty, CountEmpty
<1> QED BY <1>1, <1>2, <1>3, <1>4

LEMMA ServerHandleInv == ASSUME ProviderInv, ServerHandle PROVE ProviderInv'
<1> DEFINE m == Head(inbox)
<1>1. /\ inbox # <<>> /\ inbox' = Tail(inbox)
      /\ serverDoc' = serverDoc \cup Received(m)
      /\ down' = down \o Answer(m)
      /\ stage' = IF m.type = "close" /\ stage = "ready" THEN "none" ELSE stage
      /\ UNCHANGED <<doc, unsyncedChanges, isSynced, isAuthenticated, isAttached, opening,
                     socket, attempt, messageQueue, handshake, up, waiting,
                     readOnly, denied, dismissed, closes, denials, detaches, syncs,
                     dismissals, checks>>
  BY DEF ServerHandle, Answer, clientVars, counters
<1>2. /\ TypeOK /\ inbox \in Seq(Message) /\ down \in Seq(Message) /\ socket = "open"
      /\ stage \in {"none", "authenticating", "ready"} /\ serverDoc \subseteq Updates
  BY <1>1 DEF ProviderInv, TypeInv, TypeOK
<1>3. /\ m \in Message /\ Tail(inbox) \in Seq(Message) /\ <<m>> \in Seq(Message)
      /\ In(inbox) = {m} \cup In(Tail(inbox))
  BY <1>1, <1>2, HeadAndTail, InHead
<1>4. ASSUME NEW M
      PROVE  /\ Count(inbox, M) = Count(<<m>>, M) + Count(Tail(inbox), M)
             /\ Count(<<m>>, M) \in Nat /\ Count(Tail(inbox), M) \in Nat
             /\ Count(waiting, M) \in Nat /\ CountSent(M) \in Nat
  BY <1>1, <1>2, <1>3, CountHead, CountIsNat, CountsAreNat DEF TypeOK
<1> HIDE DEF m
<1>5. ToServer = ToServer' \cup {m}
  BY <1>1, <1>3 DEF ToServer
<1>6. /\ m.type \in {"auth", "step1", "step2", "update", "close"} /\ m.data \subseteq doc
      /\ m.data \subseteq Updates
  BY <1>3, <1>5 DEF ProviderInv, MessagesInv, Message
<1>7. /\ Received(m) \subseteq m.data
      /\ readOnly => Received(m) = {}
      /\ (m.type \in {"step2", "update"} /\ ~readOnly) => Received(m) = m.data
  BY DEF Received
<1>8. /\ Answer(m) \in Seq(Message)
      /\ \A n \in In(Answer(m)) :
           /\ n.type \in {"step1", "step2", "saved", "unsaved", "close"}
           /\ n.data \subseteq serverDoc
           /\ n.type = "close" => m.type = "close"
      /\ m.type = "step1" =>
           /\ Msg("step1", serverDoc) \in In(Answer(m))
           /\ Msg("step2", serverDoc \ m.data) \in In(Answer(m))
           /\ AtLast(Answer(m), "step2")
      /\ Count(Answer(m), Acknowledging) = IF m.type = "step1" \/ IsSaved(m) THEN 1 ELSE 0
      /\ Count(Answer(m), Saved) = IF IsSaved(m) THEN 1 ELSE 0
  BY <1>2, <1>3, <1>6, AnswerIs
<1>9. /\ down' \in Seq(Message) /\ In(down') = In(down) \cup In(Answer(m))
      /\ \A M : Count(down', M) = Count(down, M) + Count(Answer(m), M)
  BY <1>1, <1>2, <1>8, InJoined, CountJoined
<1>10. ASSUME NEW M
       PROVE  CountToServer(M) = CountToServer(M)' + Count(<<m>>, M) /\ CountToServer(M)' \in Nat
  <2>1. /\ CountSent(M)' = CountSent(M) /\ Count(waiting', M) = Count(waiting, M)
        /\ Count(inbox', M) = Count(Tail(inbox), M)
    BY <1>1 DEF CountSent
  <2> QED BY <1>4, <2>1 DEF CountToServer
<1>11. /\ CountToServer(Acknowledged) = CountToServer(Acknowledged)'
            + IF m.type \in {"step1", "step2", "update"} THEN 1 ELSE 0
       /\ CountToServer(Handshake) = CountToServer(Handshake)'
            + IF m.type \in {"step1", "step2"} THEN 1 ELSE 0
       /\ CountToServer(Clean) = CountToServer(Clean)'
            + IF m.type = "step2" /\ m.data \cap OwnUpdates = {} THEN 1 ELSE 0
  <2>1. /\ CountToServer(Acknowledged) = CountToServer(Acknowledged)' + Count(<<m>>, Acknowledged)
        /\ CountToServer(Handshake) = CountToServer(Handshake)' + Count(<<m>>, Handshake)
        /\ CountToServer(Clean) = CountToServer(Clean)' + Count(<<m>>, Clean)
    BY <1>10
  <2> QED BY <1>3, <2>1, CountOf
<1>12. /\ Count(down', Acknowledging)
            = Count(down, Acknowledging) + IF m.type = "step1" \/ IsSaved(m) THEN 1 ELSE 0
       /\ Count(down', Saved) = Count(down, Saved) + IF IsSaved(m) THEN 1 ELSE 0
  <2>1. /\ Count(down', Acknowledging)
             = Count(down, Acknowledging) + Count(Answer(m), Acknowledging)
        /\ Count(down', Saved) = Count(down, Saved) + Count(Answer(m), Saved)
    BY <1>9
  <2> QED BY <1>8, <2>1
<1>13. ToServer' \subseteq ToServer /\ In(down) \subseteq In(down') /\ AuthToCome' = AuthToCome
  BY <1>1, <1>5, <1>9 DEF AuthToCome, CountSent
<1>14. (readOnly /\ IsSaved(m)) => m.type = "step2" /\ m.data \subseteq serverDoc
  BY DEF IsSaved, Acknowledgement, Msg
<1>15. ~readOnly => (IsSaved(m) <=> m.type \in {"step2", "update"})
  BY DEF IsSaved, Acknowledgement, Msg
<1>16. (readOnly /\ m.type = "step2" /\ m.data \subseteq serverDoc) => IsSaved(m)
  BY DEF IsSaved, Acknowledgement, Msg
<1>17. /\ Msg("step1", serverDoc).type = "step1" /\ Msg("step1", serverDoc).data = serverDoc
       /\ Msg("step2", serverDoc \ m.data).type = "step2"
       /\ Msg("step2", serverDoc \ m.data).data = serverDoc \ m.data
  BY DEF Msg
<1>20. TypeInv'
  <2>1. serverDoc' \subseteq Updates /\ stage' \in {"none", "authenticating", "ready"}
    BY <1>1, <1>2, <1>6, <1>7
  <2>2. inbox' \in Seq(Message) /\ Events' = Events
    BY <1>1, <1>3 DEF Events
  <2>3. TypeOK'
    BY <1>1, <1>2, <1>9, <2>1, <2>2 DEF TypeOK
  <2>4. /\ socket' = "open"
        /\ stage' = "ready" => waiting' = <<>>
    BY <1>1, <1>2 DEF ProviderInv, TypeInv
  <2>5. readOnly' => serverDoc' \cap OwnUpdates = {} /\ doc' \subseteq OwnUpdates \cup serverDoc'
    BY <1>1, <1>7 DEF ProviderInv, TypeInv
  <2> QED BY <2>3, <2>4, <2>5 DEF TypeInv
<1>21. MessagesInv'
  <2>1. \A n \in ToServer' :
          n.type \in {"auth", "step1", "step2", "update", "close"} /\ n.data \subseteq doc'
    BY <1>1, <1>13 DEF ProviderInv, MessagesInv
  <2>2. \A n \in In(down)' :
          /\ n.type # "auth"
          /\ n.type \in {"step1", "step2", "update"} => n.data \subseteq serverDoc'
    BY <1>1, <1>8, <1>9 DEF ProviderInv, MessagesInv
  <2> QED BY <2>1, <2>2 DEF MessagesInv
<1>22. GetsToServer'
  <2> SUFFICES ASSUME Connected', Takes', NEW u \in doc', u \notin serverDoc',
                      ~WillSync',
                      \A n \in ToServer' : ~(n.type \in {"step2", "update"} /\ u \in n.data)
               PROVE  \E n \in In(down)' : n.type = "step1" /\ u \notin n.data
    BY DEF GetsToServer
  <2>1. Connected /\ Takes /\ ~readOnly /\ u \in doc /\ u \notin serverDoc
    BY <1>1 DEF Connected, Takes
  <2>2. \/ WillSync
        \/ \E n \in ToServer : n.type \in {"step2", "update"} /\ u \in n.data
        \/ \E n \in In(down) : n.type = "step1" /\ u \notin n.data
    BY <2>1 DEF ProviderInv, GetsToServer
  <2>3. CASE WillSync
    <3>1. m.type = "step1"
      BY <1>1, <1>5, <2>3 DEF WillSync
    <3> QED BY <1>8, <1>9, <1>17, <2>1, <3>1
  <2>4. ~(m.type \in {"step2", "update"} /\ u \in m.data)
    BY <1>1, <1>7, <2>1
  <2> QED BY <1>5, <1>13, <2>2, <2>3, <2>4
<1>23. GetsToClient'
  <2> SUFFICES ASSUME Connected', stage' = "ready", NEW u \in serverDoc', u \notin doc',
                      ~WillSync'
               PROVE  \E n \in In(down)' : n.type \in {"step2", "update"} /\ u \in n.data
    BY DEF GetsToClient
  <2>1. Connected /\ stage = "ready" /\ u \in serverDoc /\ u \notin doc
    BY <1>1, <1>6, <1>7 DEF Connected
  <2>2. \/ WillSync
        \/ \E n \in In(down) : n.type \in {"step2", "update"} /\ u \in n.data
    BY <2>1 DEF ProviderInv, GetsToClient
  <2>3. CASE WillSync
    <3>1. m.type = "step1"
      BY <1>1, <1>5, <2>3 DEF WillSync
    <3> QED BY <1>6, <1>8, <1>9, <1>17, <2>1, <3>1
  <2> QED BY <1>13, <2>2, <2>3
<1>24. GetsSynced'
  <2> SUFFICES ASSUME Connected', stage' = "ready", ~WillSync'
               PROVE  \/ AtLast(down', "step2")
                      \/ isSynced /\ \A n \in In(down)' : n.type # "close"
    BY <1>1 DEF GetsSynced
  <2>1. /\ Connected /\ stage = "ready" /\ m.type # "close"
        /\ \A n \in In(Answer(m)) : n.type # "close"
    BY <1>1, <1>8 DEF Connected
  <2>2. \/ WillSync
        \/ AtLast(down, "step2")
        \/ isSynced /\ \A n \in In(down) : n.type # "close"
    BY <2>1 DEF ProviderInv, GetsSynced
  <2>3. CASE WillSync
    <3>1. m.type = "step1"
      BY <1>1, <1>5, <2>3 DEF WillSync
    <3> QED BY <1>1, <1>2, <1>8, <3>1, LastJoined
  <2>4. CASE AtLast(down, "step2")
    BY <1>1, <1>2, <1>8, <2>1, <2>4, LastJoined
  <2> QED BY <1>9, <2>1, <2>2, <2>3, <2>4
<1>25. StepFollows'
  BY <1>1 DEF ProviderInv, StepFollows
<1>26. UnsyncedInv'
  <2> SUFFICES ASSUME Connected', ~readOnly', ~denied', ~dismissed', ~(opening' > 0)
               PROVE  unsyncedChanges' <=
                        CountToServer(Acknowledged)' + Count(down', Acknowledging)
    BY DEF UnsyncedInv
  <2>1. unsyncedChanges <= CountToServer(Acknowledged) + Count(down, Acknowledging)
    BY <1>1 DEF ProviderInv, UnsyncedInv, Connected
  <2>2. /\ CountToServer(Acknowledged) \in Nat /\ Count(down, Acknowledging) \in Nat
        /\ unsyncedChanges \in Nat
    BY <1>2, CountsAreNat DEF TypeOK
  <2>3. IsSaved(m) <=> m.type \in {"step2", "update"}
    BY <1>1, <1>15
  <2>4. Count(down', Acknowledging) = Count(down, Acknowledging)
          + IF m.type \in {"step1", "step2", "update"} THEN 1 ELSE 0
    BY <1>12, <2>2, <2>3
  <2>5. CountToServer(Acknowledged)' \in Int
    BY <1>10
  <2> QED BY <1>1, <1>11, <2>1, <2>2, <2>4, <2>5
<1>27. AuthenticatedInv'
  <2>1. \A n \in In(Answer(m)) : n.type # "denied"
    BY <1>8
  <2>2. ASSUME detaches = 0
        PROVE  /\ m.type # "close" /\ stage' = stage
               /\ \A n \in In(Answer(m)) : n.type # "close"
    BY <1>1, <1>5, <1>8, <2>2 DEF ProviderInv, AuthenticatedInv
  <2>3. ASSUME detaches = 0, AtLast(down, "authenticated")
        PROVE  AtLast(down', "authenticated")
    BY <1>1, <1>2, <1>8, <2>2, <2>3, LastJoined
  <2> QED BY <1>1, <1>9, <1>13, <2>1, <2>2, <2>3 DEF ProviderInv, AuthenticatedInv
<1>28. /\ HandshakeToCome \in Nat /\ SavedToCome \in Nat
       /\ Count(down, Acknowledging) \in Nat /\ Count(down, Saved) \in Nat
       /\ CountToServer(Handshake)' \in Nat /\ CountToServer(Clean)' \in Nat
  BY <1>2, <1>10, CountIsNat, SavedIsHandshake
<1>29. readOnly => HandshakeToCome' = HandshakeToCome
                     - IF m.type = "step2" /\ ~IsSaved(m) THEN 1 ELSE 0
  <2>1. readOnly => (m.type = "update" => ~IsSaved(m))
    BY <1>14
  <2>2. CASE m.type = "step1"
    BY <1>11, <1>12, <1>28, <2>2 DEF HandshakeToCome, IsSaved
  <2>3. CASE m.type = "step2"
    BY <1>11, <1>12, <1>28, <2>3 DEF HandshakeToCome
  <2>4. CASE m.type \notin {"step1", "step2"}
    BY <1>11, <1>12, <1>14, <1>28, <2>4 DEF HandshakeToCome
  <2> QED BY <2>2, <2>3, <2>4
<1>30. readOnly => SavedToCome' <= SavedToCome
  <2>1. readOnly /\ IsSaved(m) => m.type = "step2" /\ m.data \cap OwnUpdates = {}
    BY <1>14 DEF ProviderInv, TypeInv
  <2> QED BY <1>11, <1>12, <1>28, <2>1 DEF SavedToCome
<1>31. OnceInv'
  <2> SUFFICES ASSUME Once' PROVE OnceInv'
    BY DEF OnceInv
  <2>1. Once /\ OnceInv /\ readOnly
    BY <1>1 DEF Once, ProviderInv
  <2>2. m.type # "close" /\ stage' = stage
    BY <1>1, <1>5, <2>1 DEF ProviderInv, AuthenticatedInv, Once
  <2>3. HandshakeToCome = 0 => HandshakeToCome' = 0
    <3>1. HandshakeToCome' \in Nat
      BY <1>12, <1>28 DEF HandshakeToCome
    <3> QED BY <1>28, <1>29, <2>1, <3>1
  <2> QED BY <1>1, <1>13, <2>1, <2>2, <2>3 DEF OnceInv
<1>32. HonestInv'
  <2> SUFFICES ASSUME Once', ~denied'
               PROVE  IF doc' \cap OwnUpdates = {} THEN unsyncedChanges' = HandshakeToCome'
                      ELSE SavedToCome' < unsyncedChanges'
    BY DEF HonestInv
  <2>1. /\ readOnly
        /\ IF doc \cap OwnUpdates = {} THEN unsyncedChanges = HandshakeToCome
           ELSE SavedToCome < unsyncedChanges
    BY <1>1 DEF Once, ProviderInv, HonestInv
  <2>2. CASE doc \cap OwnUpdates = {}
    <3>1. doc \subseteq serverDoc
      BY <1>1, <2>1, <2>2 DEF ProviderInv, TypeInv
    <3>2. m.type = "step2" => IsSaved(m)
      BY <1>6, <1>16, <2>1, <3>1
    <3>3. HandshakeToCome' = HandshakeToCome
      BY <1>28, <1>29, <2>1, <3>2
    <3> QED BY <1>1, <2>1, <2>2, <3>3
  <2>3. CASE doc \cap OwnUpdates # {}
    <3>1. SavedToCome' \in Nat /\ unsyncedChanges \in Nat
      BY <1>2, <1>9, <1>12, <1>28 DEF SavedToCome, TypeOK
    <3> QED BY <1>1, <1>28, <1>30, <2>1, <2>3, <3>1
  <2> QED BY <2>2, <2>3
<1> QED
  BY <1>20, <1>21, <1>22, <1>23, <1>24, <1>25, <1>26, <1>27, <1>31, <1>32 DEF ProviderInv

\* The server closes the connection, and may have dropped a message.
LEMMA DismissInv ==
    ASSUME ProviderInv, Dismiss, socket = "open", inbox' \in Seq(Message),
           In(inbox') \subseteq In(inbox)
    PROVE  ProviderInv'
<1> DEFINE messages == IF stage = "ready" THEN <<Msg("close", {})>> ELSE <<>>
<1>1. /\ Events < MaxEvents /\ dismissals' = dismissals + 1 /\ dismissed' = TRUE
      /\ stage' = IF stage = "ready" THEN "none" ELSE stage
      /\ down' = down \o messages
      /\ UNCHANGED <<doc, unsyncedChanges, isSynced, isAuthenticated, isAttached, opening,
                     socket, attempt, messageQueue, handshake, up, waiting, serverDoc,
                     readOnly, denied, closes, denials, detaches, syncs, checks>>
  BY DEF Dismiss, clientVars
<1>2. TypeOK /\ down \in Seq(Message) /\ stage \in {"none", "authenticating", "ready"}
  BY DEF ProviderInv, TypeInv, TypeOK
<1>3. messages \in Seq(Message) /\ \A m \in In(messages) : m.type = "close"
  <2>1. Msg("close", {}) \in Message /\ Msg("close", {}).type = "close"
    BY MsgIs DEF Types
  <2>2. CASE stage = "ready"
    <3>1. messages = <<Msg("close", {})>> /\ In(messages) = {Msg("close", {})}
      BY <2>2, InOne
    <3> QED BY <2>1, <3>1
  <2>3. CASE stage # "ready"
    <3>1. messages = <<>> /\ In(messages) = {}
      BY <2>3, InEmpty
    <3> QED BY <3>1
  <2> QED BY <2>2, <2>3
<1> HIDE DEF messages
<1>4. down' \in Seq(Message) /\ In(down') = In(down) \cup In(messages)
  BY <1>1, <1>2, <1>3, InJoined
<1>5. ToServer' \subseteq ToServer
  BY <1>1 DEF ToServer
<1>6. /\ stage' \in {"none", "authenticating"} /\ dismissals' # 0
      /\ stage' = "authenticating" => stage = "authenticating"
  BY <1>1, <1>2 DEF TypeOK
<1>7. TypeInv'
  <2>1. dismissals' \in Nat /\ Events' <= MaxEvents
    BY <1>1, <1>2, ProviderAssumption DEF TypeOK, Events
  <2>2. TypeOK'
    BY <1>1, <1>2, <1>4, <1>6, <2>1 DEF TypeOK
  <2> QED BY <1>1, <1>6, <2>2 DEF ProviderInv, TypeInv
<1>8. MessagesInv'
  BY <1>1, <1>3, <1>4, <1>5 DEF ProviderInv, MessagesInv
<1>9. StepFollows'
  BY <1>1, <1>6 DEF ProviderInv, StepFollows
<1>10. GetsToServer'
  <2>1. Takes' => stage = "authenticating"
    BY <1>1, <1>6 DEF Takes
  <2>2. stage = "authenticating" => WillSync'
    BY <1>1 DEF ProviderInv, StepFollows, WillSync, ToServer
  <2> QED BY <2>1, <2>2 DEF GetsToServer
<1>11. GetsToClient' /\ GetsSynced' /\ UnsyncedInv'
  BY <1>1, <1>6 DEF GetsToClient, GetsSynced, UnsyncedInv
<1>12. AuthenticatedInv'
  BY <1>1, <1>3, <1>4, <1>5, <1>6 DEF ProviderInv, AuthenticatedInv
<1>13. OnceInv' /\ HonestInv'
  BY <1>6 DEF OnceInv, HonestInv, Once
<1> QED BY <1>7, <1>8, <1>9, <1>10, <1>11, <1>12, <1>13 DEF ProviderInv

LEMMA ServerClosesInv == ASSUME ProviderInv, ServerCloses PROVE ProviderInv'
<1>1. Dismiss /\ inbox' = inbox /\ stage = "ready"
  BY DEF ServerCloses
<1>2. socket = "open" /\ inbox \in Seq(Message)
  BY <1>1 DEF ProviderInv, TypeInv, TypeOK
<1>3. In(inbox') \subseteq In(inbox)
  BY <1>1
<1> QED BY <1>1, <1>2, <1>3, DismissInv

LEMMA ServerThrowsInv == ASSUME ProviderInv, ServerThrows PROVE ProviderInv'
<1>1. Dismiss /\ inbox # <<>> /\ inbox' = Tail(inbox)
  BY DEF ServerThrows
<1>2. socket = "open" /\ inbox \in Seq(Message)
  BY <1>1 DEF ProviderInv, TypeInv, TypeOK
<1>3. inbox' \in Seq(Message) /\ In(inbox') \subseteq In(inbox)
  BY <1>1, <1>2, HeadAndTail, InHead
<1> QED BY <1>1, <1>2, <1>3, DismissInv

-----------------------------------------------------------------------------
(* The client handles a message.                                           *)

LEMMA ApplyIs ==
    ASSUME TypeOK, NEW m \in Message, m.type # "auth", Apply(m)
    PROVE  /\ doc' = doc \cup IF m.type \in {"step2", "update"} THEN m.data ELSE {}
           /\ unsyncedChanges' = IF m.type = "saved" /\ unsyncedChanges > 0
                                 THEN unsyncedChanges - 1 ELSE unsyncedChanges
           /\ isSynced' \in BOOLEAN /\ isAuthenticated' \in BOOLEAN /\ handshake' \in BOOLEAN
           /\ m.type = "step2" => isSynced'
           /\ (isSynced /\ m.type # "close") => isSynced'
           /\ m.type = "authenticated" => isAuthenticated'
           /\ (isAuthenticated /\ m.type \notin {"denied", "close"}) => isAuthenticated'
<1>1. /\ m.type \in Types \ {"auth"} /\ unsyncedChanges \in Nat
      /\ isSynced \in BOOLEAN /\ isAuthenticated \in BOOLEAN /\ handshake \in BOOLEAN
  BY DEF TypeOK, Message
<1>2. CASE m.type = "saved"
  <2>1. Decrement /\ UNCHANGED <<doc, isAuthenticated, handshake>>
    BY <1>2 DEF Apply
  <2>2. unsyncedChanges' = IF unsyncedChanges > 0 THEN unsyncedChanges - 1 ELSE unsyncedChanges
    BY <1>1, <2>1 DEF Decrement
  <2>3. isSynced' \in BOOLEAN /\ (isSynced => isSynced')
    BY <1>1, <2>1 DEF Decrement
  <2> QED BY <1>1, <1>2, <2>1, <2>2, <2>3
<1>3. CASE m.type = "close"
  <2>1. OnClose /\ UNCHANGED <<doc, unsyncedChanges>>
    BY <1>3 DEF Apply
  <2> QED BY <1>1, <1>3, <2>1 DEF OnClose
<1>4. CASE m.type = "authenticated"
  <2>1. isAuthenticated' = TRUE /\ UNCHANGED <<doc, unsyncedChanges, isSynced, handshake>>
    BY <1>4 DEF Apply
  <2> QED BY <1>1, <1>4, <2>1
<1>5. CASE m.type = "denied"
  <2>1. isAuthenticated' = FALSE /\ UNCHANGED <<doc, unsyncedChanges, isSynced, handshake>>
    BY <1>5 DEF Apply
  <2> QED BY <1>1, <1>5, <2>1
<1>6. CASE m.type = "step2"
  <2>1. /\ doc' = doc \cup m.data /\ isSynced' = TRUE /\ handshake' = TRUE
        /\ UNCHANGED <<unsyncedChanges, isAuthenticated>>
    BY <1>6 DEF Apply
  <2> QED BY <1>1, <1>6, <2>1
<1>7. CASE m.type = "update"
  <2>1. /\ doc' = doc \cup m.data
        /\ UNCHANGED <<unsyncedChanges, isSynced, isAuthenticated, handshake>>
    BY <1>7 DEF Apply
  <2> QED BY <1>1, <1>7, <2>1
<1>8. CASE m.type \in {"step1", "unsaved"}
  <2>1. UNCHANGED <<doc, unsyncedChanges, isSynced, isAuthenticated, handshake>>
    BY <1>8 DEF Apply
  <2> QED BY <1>1, <1>8, <2>1
<1> QED BY <1>1, <1>2, <1>3, <1>4, <1>5, <1>6, <1>7, <1>8 DEF Types

\* What a message makes an attached provider answer.
Replied(m) == IF isAttached THEN Reply(m) ELSE <<>>

LEMMA RepliedIs ==
    ASSUME TypeOK, NEW m \in Message
    PROVE  /\ Replied(m) \in Seq(Message) /\ AuthIsFollowed(Replied(m))
           /\ \A n \in In(Replied(m)) : n.type = "step2" /\ n.data \subseteq doc
           /\ IF isAttached /\ m.type = "step1"
              THEN /\ \E n \in In(Replied(m)) : n.type = "step2" /\ n.data = doc \ m.data
                   /\ Count(Replied(m), Acknowledged) = 1 /\ Count(Replied(m), Handshake) = 1
                   /\ Count(Replied(m), Auth) = 0
                   /\ Count(Replied(m), Clean) =
                        IF (doc \ m.data) \cap OwnUpdates = {} THEN 1 ELSE 0
              ELSE /\ Count(Replied(m), Acknowledged) = 0 /\ Count(Replied(m), Handshake) = 0
                   /\ Count(Replied(m), Auth) = 0 /\ Count(Replied(m), Clean) = 0
<1>1. CASE isAttached /\ m.type = "step1"
  <2> DEFINE n == Msg("step2", doc \ m.data)
  <2>1. Replied(m) = <<n>>
    BY <1>1 DEF Replied, Reply
  <2>2. n \in Message /\ <<n>> \in Seq(Message) /\ n.type = "step2" /\ n.data = doc \ m.data
    BY MsgIs DEF Types, TypeOK
  <2> HIDE DEF n
  <2>3. In(<<n>>) = {n} /\ AuthIsFollowed(<<n>>)
    BY <2>2, InOne, FollowedOne
  <2>4. /\ Count(<<n>>, Acknowledged) = 1 /\ Count(<<n>>, Handshake) = 1
        /\ Count(<<n>>, Auth) = 0
        /\ Count(<<n>>, Clean) = IF (doc \ m.data) \cap OwnUpdates = {} THEN 1 ELSE 0
    BY <2>2, CountOf
  <2> QED BY <1>1, <2>1, <2>2, <2>3, <2>4
<1>2. CASE ~(isAttached /\ m.type = "step1")
  <2>1. Replied(m) = <<>>
    BY <1>2 DEF Replied, Reply
  <2>2. <<>> \in Seq(Message)
    OBVIOUS
  <2> QED BY <1>2, <2>1, <2>2, InEmpty, CountEmpty, FollowedEmpty
<1> QED BY <1>1, <1>2

\* What was queued and the answer are sent.
LEMMA FlushIs ==
    ASSUME TypeOK, NEW r \in Seq(Message), UNCHANGED <<waiting, inbox>>,
           messageQueue' = IF attempt THEN <<>> ELSE messageQueue,
           up' = up \o (IF attempt THEN messageQueue ELSE <<>>) \o r
    PROVE  /\ up' \in Seq(Message) /\ messageQueue' \in Seq(Message)
           /\ ToServer' = ToServer \cup In(r) /\ In(up) \subseteq In(up')
           /\ \A M : /\ CountSent(M)' = CountSent(M) + Count(r, M)
                     /\ CountToServer(M)' = CountToServer(M) + Count(r, M)
           /\ (AuthIsFollowed(r) /\ AuthIsFollowed(messageQueue) /\ AuthIsFollowed(up)) =>
                AuthIsFollowed(messageQueue') /\ AuthIsFollowed(up')
<1>1. messageQueue \in Seq(Message) /\ up \in Seq(Message) /\ <<>> \in Seq(Message)
  BY DEF TypeOK
<1> DEFINE f == IF attempt THEN messageQueue ELSE <<>>
<1>2. f \in Seq(Message) /\ up' = (up \o f) \o r
  BY <1>1
<1>3. In(f) \cup In(messageQueue') = In(messageQueue)
  BY InEmpty
<1>4. ASSUME NEW M
      PROVE  /\ Count(f, M) + Count(messageQueue', M) = Count(messageQueue, M)
             /\ Count(f, M) \in Nat /\ Count(messageQueue', M) \in Nat /\ Count(r, M) \in Nat
             /\ Count(up, M) \in Nat /\ Count(waiting, M) \in Nat /\ Count(inbox, M) \in Nat
  <2>1. Count(messageQueue, M) \in Nat /\ Count(<<>>, M) = 0
    BY <1>1, CountIsNat, CountEmpty
  <2>2. /\ Count(r, M) \in Nat /\ Count(up, M) \in Nat /\ Count(waiting, M) \in Nat
        /\ Count(inbox, M) \in Nat
    BY <1>1, CountIsNat DEF TypeOK
  <2>3. CASE attempt
    BY <2>1, <2>2, <2>3
  <2>4. CASE ~attempt
    BY <2>1, <2>2, <2>4
  <2> QED BY <2>3, <2>4
<1>5. (AuthIsFollowed(messageQueue) /\ AuthIsFollowed(up)) =>
            AuthIsFollowed(f) /\ AuthIsFollowed(messageQueue')
  BY FollowedEmpty
<1>6. messageQueue' \in Seq(Message)
  BY <1>1
<1> HIDE DEF f
<1>7. up \o f \in Seq(Message) /\ In(up \o f) = In(up) \cup In(f)
  BY <1>1, <1>2, InJoined
<1>8. up' \in Seq(Message) /\ In(up') = In(up) \cup In(f) \cup In(r)
  BY <1>2, <1>7, InJoined
<1>9. ToServer' = ToServer \cup In(r)
  <2>1. In(messageQueue)' = In(messageQueue') /\ In(up)' = In(up')
    BY DEF In
  <2>2. In(waiting)' = In(waiting) /\ In(inbox)' = In(inbox)
    OBVIOUS
  <2> QED BY <1>3, <1>8, <2>1, <2>2 DEF ToServer
<1>10. ASSUME NEW M
       PROVE  /\ CountSent(M)' = CountSent(M) + Count(r, M)
              /\ CountToServer(M)' = CountToServer(M) + Count(r, M)
  <2>1. Count(up', M) = Count(up, M) + Count(f, M) + Count(r, M)
    <3>1. Count((up \o f) \o r, M) = Count(up \o f, M) + Count(r, M)
      BY <1>7, CountJoined
    <3>2. Count(up \o f, M) = Count(up, M) + Count(f, M)
      BY <1>1, <1>2, CountJoined
    <3> QED BY <1>2, <3>1, <3>2
  <2>2. /\ CountSent(M)' = Count(messageQueue', M) + Count(up', M)
        /\ CountToServer(M)'
             = Count(messageQueue', M) + Count(up', M) + Count(waiting, M) + Count(inbox, M)
    BY DEF CountSent, CountToServer
  <2> QED BY <1>4, <2>1, <2>2 DEF CountSent, CountToServer
<1>11. (AuthIsFollowed(r) /\ AuthIsFollowed(messageQueue) /\ AuthIsFollowed(up)) =>
             AuthIsFollowed(messageQueue') /\ AuthIsFollowed(up')
  <2> SUFFICES ASSUME AuthIsFollowed(r), AuthIsFollowed(messageQueue), AuthIsFollowed(up)
               PROVE  AuthIsFollowed(messageQueue') /\ AuthIsFollowed(up')
    OBVIOUS
  <2>1. AuthIsFollowed(up \o f)
    BY <1>1, <1>2, <1>5, FollowedJoined
  <2> QED BY <1>2, <1>5, <1>7, <2>1, FollowedJoined
<1> QED BY <1>6, <1>8, <1>9, <1>10, <1>11

LEMMA ClientReceiveInv == ASSUME ProviderInv, ClientReceive PROVE ProviderInv'
<1> DEFINE m == Head(down)
<1>1. /\ down # <<>> /\ down' = Tail(down) /\ attempt' = FALSE
      /\ messageQueue' = IF attempt THEN <<>> ELSE messageQueue
      /\ up' = up \o (IF attempt THEN messageQueue ELSE <<>>) \o Replied(m)
      /\ IF isAttached THEN Apply(m)
         ELSE UNCHANGED <<doc, unsyncedChanges, isSynced, isAuthenticated, handshake>>
      /\ UNCHANGED <<isAttached, opening, socket, stage, waiting, inbox, serverDoc,
                     readOnly, denied, dismissed, closes, denials, detaches, syncs,
                     dismissals, checks>>
  BY DEF ClientReceive, Replied, serverVars, counters
<1>2. TypeOK /\ down \in Seq(Message) /\ socket = "open" /\ unsyncedChanges \in Nat
  BY <1>1 DEF ProviderInv, TypeInv, TypeOK
<1>3. /\ m \in Message /\ Tail(down) \in Seq(Message) /\ <<m>> \in Seq(Message)
      /\ In(down) = {m} \cup In(Tail(down))
      /\ \A type : AtLast(down, type) =>
           \/ AtLast(Tail(down), type)
           \/ m.type = type /\ \A n \in In(Tail(down)) : n.type # "close"
  BY <1>1, <1>2, HeadAndTail, InHead, LastTail
<1>4. /\ Count(down, Acknowledging) = Count(<<m>>, Acknowledging) + Count(Tail(down), Acknowledging)
      /\ Count(down, Saved) = Count(<<m>>, Saved) + Count(Tail(down), Saved)
      /\ Count(Tail(down), Acknowledging) \in Nat /\ Count(Tail(down), Saved) \in Nat
  BY <1>1, <1>2, <1>3, CountHead, CountIsNat
<1> HIDE DEF m
<1>5. In(down) = {m} \cup In(down)'
  BY <1>1, <1>3 DEF In
<1>6. /\ m.type # "auth" /\ m.data \subseteq Updates
      /\ m.type \in {"step1", "step2", "update"} => m.data \subseteq serverDoc
  BY <1>3 DEF ProviderInv, MessagesInv, Message
<1>7. /\ doc' = doc \cup IF isAttached /\ m.type \in {"step2", "update"} THEN m.data ELSE {}
      /\ unsyncedChanges' = IF isAttached /\ m.type = "saved" /\ unsyncedChanges > 0
                            THEN unsyncedChanges - 1 ELSE unsyncedChanges
      /\ isSynced' \in BOOLEAN /\ isAuthenticated' \in BOOLEAN /\ handshake' \in BOOLEAN
      /\ (isAttached /\ m.type = "step2") => isSynced'
      /\ (isSynced /\ m.type # "close") => isSynced'
      /\ (isAttached /\ m.type = "authenticated") => isAuthenticated'
      /\ (isAuthenticated /\ m.type \notin {"denied", "close"}) => isAuthenticated'
  <2>1. CASE isAttached
    BY <1>1, <1>2, <1>3, <1>6, <2>1, ApplyIs
  <2>2. CASE ~isAttached
    BY <1>1, <1>2, <2>2 DEF TypeOK
  <2> QED BY <2>1, <2>2
<1>8. /\ Replied(m) \in Seq(Message) /\ AuthIsFollowed(Replied(m))
      /\ \A n \in In(Replied(m)) : n.type = "step2" /\ n.data \subseteq doc
      /\ (isAttached /\ m.type = "step1") =>
           \E n \in In(Replied(m)) : n.type = "step2" /\ n.data = doc \ m.data
  BY <1>2, <1>3, RepliedIs
<1>9. /\ up' \in Seq(Message) /\ messageQueue' \in Seq(Message)
      /\ ToServer' = ToServer \cup In(Replied(m)) /\ In(up) \subseteq In(up')
      /\ \A M : /\ CountSent(M)' = CountSent(M) + Count(Replied(m), M)
                /\ CountToServer(M)' = CountToServer(M) + Count(Replied(m), M)
      /\ (AuthIsFollowed(messageQueue) /\ AuthIsFollowed(up)) =>
           AuthIsFollowed(messageQueue') /\ AuthIsFollowed(up')
  BY <1>1, <1>2, <1>8, FlushIs
<1>10. /\ CountSent(Auth)' = CountSent(Auth) + Count(Replied(m), Auth)
       /\ CountToServer(Acknowledged)'
            = CountToServer(Acknowledged) + Count(Replied(m), Acknowledged)
       /\ CountToServer(Handshake)' = CountToServer(Handshake) + Count(Replied(m), Handshake)
       /\ CountToServer(Clean)' = CountToServer(Clean) + Count(Replied(m), Clean)
  BY <1>9
<1>11. /\ CountSent(Auth) \in Nat /\ CountToServer(Acknowledged) \in Nat
       /\ CountToServer(Handshake) \in Nat /\ CountToServer(Clean) \in Nat
  BY <1>2, CountsAreNat
<1>12. /\ CountSent(Auth)' = CountSent(Auth)
       /\ CountToServer(Acknowledged)' = CountToServer(Acknowledged)
            + IF isAttached /\ m.type = "step1" THEN 1 ELSE 0
       /\ CountToServer(Handshake)' = CountToServer(Handshake)
            + IF isAttached /\ m.type = "step1" THEN 1 ELSE 0
       /\ CountToServer(Clean)' = CountToServer(Clean)
            + IF isAttached /\ m.type = "step1" /\ (doc \ m.data) \cap OwnUpdates = {}
              THEN 1 ELSE 0
  <2>1. CASE isAttached /\ m.type = "step1"
    <3>1. /\ Count(Replied(m), Acknowledged) = 1 /\ Count(Replied(m), Handshake) = 1
          /\ Count(Replied(m), Auth) = 0
          /\ Count(Replied(m), Clean) = IF (doc \ m.data) \cap OwnUpdates = {} THEN 1 ELSE 0
      BY <1>2, <1>3, <2>1, RepliedIs
    <3> QED BY <1>10, <1>11, <2>1, <3>1
  <2>2. CASE ~(isAttached /\ m.type = "step1")
    <3>1. /\ Count(Replied(m), Acknowledged) = 0 /\ Count(Replied(m), Handshake) = 0
          /\ Count(Replied(m), Auth) = 0 /\ Count(Replied(m), Clean) = 0
      BY <1>2, <1>3, <2>2, RepliedIs
    <3> QED BY <1>10, <1>11, <2>2, <3>1
  <2> QED BY <2>1, <2>2
<1>13. /\ Count(down, Acknowledging) = Count(down', Acknowledging)
            + IF m.type \in {"step1", "saved"} THEN 1 ELSE 0
       /\ Count(down, Saved) = Count(down', Saved) + IF m.type = "saved" THEN 1 ELSE 0
       /\ Count(down', Acknowledging) \in Nat /\ Count(down', Saved) \in Nat
  <2>1. /\ Count(down', Acknowledging) = Count(Tail(down), Acknowledging)
        /\ Count(down', Saved) = Count(Tail(down), Saved)
    BY <1>1
  <2> QED BY <1>3, <1>4, <2>1, CountOf
<1>14. WillSync => WillSync'
  BY <1>1, <1>9 DEF WillSync
<1>15. doc \subseteq doc' /\ doc' \subseteq doc \cup serverDoc
  BY <1>6, <1>7
<1>20. TypeInv'
  <2>1. doc' \subseteq Updates /\ unsyncedChanges' \in Nat /\ Events' = Events
    BY <1>1, <1>2, <1>6, <1>7 DEF TypeOK, Events
  <2>2. down' \in Seq(Message)
    BY <1>1, <1>3
  <2>3. TypeOK'
    BY <1>1, <1>2, <1>7, <1>9, <2>1, <2>2 DEF TypeOK
  <2>4. readOnly' => serverDoc' \cap OwnUpdates = {} /\ doc' \subseteq OwnUpdates \cup serverDoc'
    BY <1>1, <1>15 DEF ProviderInv, TypeInv
  <2>5. /\ socket' = "open"
        /\ stage' = "ready" => waiting' = <<>>
    BY <1>1, <1>2 DEF ProviderInv, TypeInv
  <2> QED BY <2>3, <2>4, <2>5 DEF TypeInv
<1>21. MessagesInv'
  <2>1. \A n \in ToServer' :
          n.type \in {"auth", "step1", "step2", "update", "close"} /\ n.data \subseteq doc'
    BY <1>8, <1>9, <1>15 DEF ProviderInv, MessagesInv
  <2>2. \A n \in In(down)' :
          /\ n.type # "auth"
          /\ n.type \in {"step1", "step2", "update"} => n.data \subseteq serverDoc'
    BY <1>1, <1>5 DEF ProviderInv, MessagesInv
  <2> QED BY <2>1, <2>2 DEF MessagesInv
<1>22. GetsToServer'
  <2> SUFFICES ASSUME Connected', Takes', NEW u \in doc', u \notin serverDoc',
                      ~WillSync',
                      \A n \in In(down)' : ~(n.type = "step1" /\ u \notin n.data)
               PROVE  \E n \in ToServer' : n.type \in {"step2", "update"} /\ u \in n.data
    BY DEF GetsToServer
  <2>1. /\ Connected /\ Takes /\ u \in doc /\ u \notin serverDoc /\ isAttached
        /\ ~WillSync
    BY <1>1, <1>14, <1>15 DEF Connected, Takes
  <2>2. \/ \E n \in ToServer : n.type \in {"step2", "update"} /\ u \in n.data
        \/ \E n \in In(down) : n.type = "step1" /\ u \notin n.data
    BY <2>1 DEF ProviderInv, GetsToServer
  <2>3. CASE m.type = "step1" /\ u \notin m.data
    BY <1>8, <1>9, <2>1, <2>3
  <2> QED BY <1>5, <1>9, <2>2, <2>3
<1>23. GetsToClient'
  <2> SUFFICES ASSUME Connected', stage' = "ready", NEW u \in serverDoc', u \notin doc',
                      ~WillSync'
               PROVE  \E n \in In(down)' : n.type \in {"step2", "update"} /\ u \in n.data
    BY DEF GetsToClient
  <2>1. /\ Connected /\ stage = "ready" /\ u \in serverDoc /\ u \notin doc /\ isAttached
        /\ ~WillSync
    BY <1>1, <1>14, <1>15 DEF Connected
  <2>2. \E n \in In(down) : n.type \in {"step2", "update"} /\ u \in n.data
    BY <2>1 DEF ProviderInv, GetsToClient
  <2> QED BY <1>5, <1>7, <2>1, <2>2
<1>24. GetsSynced'
  <2> SUFFICES ASSUME Connected', stage' = "ready", ~WillSync'
               PROVE  \/ AtLast(down', "step2")
                      \/ isSynced' /\ \A n \in In(down)' : n.type # "close"
    BY DEF GetsSynced
  <2>1. Connected /\ stage = "ready" /\ isAttached /\ ~WillSync
    BY <1>1, <1>14 DEF Connected
  <2>2. \/ AtLast(down, "step2")
        \/ isSynced /\ \A n \in In(down) : n.type # "close"
    BY <2>1 DEF ProviderInv, GetsSynced
  <2>3. CASE AtLast(down, "step2")
    BY <1>1, <1>3, <1>7, <2>1, <2>3 DEF In
  <2>4. CASE isSynced /\ \A n \in In(down) : n.type # "close"
    BY <1>5, <1>7, <2>4
  <2> QED BY <2>2, <2>3, <2>4
<1>25. StepFollows'
  BY <1>1, <1>9 DEF ProviderInv, StepFollows
<1>26. UnsyncedInv'
  <2> SUFFICES ASSUME Connected', ~readOnly', ~denied', ~dismissed', ~(opening' > 0)
               PROVE  unsyncedChanges' <=
                        CountToServer(Acknowledged)' + Count(down', Acknowledging)
    BY DEF UnsyncedInv
  <2>1. /\ isAttached
        /\ unsyncedChanges <= CountToServer(Acknowledged) + Count(down, Acknowledging)
    BY <1>1 DEF ProviderInv, UnsyncedInv, Connected
  <2>2. CASE m.type = "step1"
    BY <1>2, <1>7, <1>11, <1>12, <1>13, <2>1, <2>2
  <2>3. CASE m.type = "saved"
    BY <1>2, <1>7, <1>11, <1>12, <1>13, <2>1, <2>3
  <2>4. CASE m.type \notin {"step1", "saved"}
    BY <1>2, <1>7, <1>11, <1>12, <1>13, <2>1, <2>4
  <2> QED BY <2>2, <2>3, <2>4
<1>27. AuthenticatedInv'
  <2>1. \A n \in In(down)' : n.type = "denied" => denied'
    BY <1>1, <1>5 DEF ProviderInv, AuthenticatedInv
  <2> SUFFICES ASSUME detaches' = 0
               PROVE  /\ isAttached'
                      /\ \A n \in ToServer' : n.type # "close"
                      /\ (stage' = "ready" /\ ~denied') =>
                           \/ AtLast(down', "authenticated")
                           \/ isAuthenticated' /\ \A n \in In(down)' : n.type # "close"
    BY <2>1 DEF AuthenticatedInv
  <2>2. /\ isAttached
        /\ \A n \in ToServer : n.type # "close"
        /\ (stage = "ready" /\ ~denied) =>
             \/ AtLast(down, "authenticated")
             \/ isAuthenticated /\ \A n \in In(down) : n.type # "close"
        /\ ~denied => m.type # "denied"
    BY <1>1, <1>5 DEF ProviderInv, AuthenticatedInv
  <2>3. \A n \in ToServer' : n.type # "close"
    BY <1>8, <1>9, <2>2
  <2>4. ASSUME stage' = "ready", ~denied', AtLast(down, "authenticated")
        PROVE  \/ AtLast(down', "authenticated")
               \/ isAuthenticated' /\ \A n \in In(down)' : n.type # "close"
    BY <1>1, <1>3, <1>7, <2>2, <2>4 DEF In
  <2>5. ASSUME stage' = "ready", ~denied', isAuthenticated, \A n \in In(down) : n.type # "close"
        PROVE  isAuthenticated' /\ \A n \in In(down)' : n.type # "close"
    BY <1>1, <1>5, <1>7, <2>2, <2>5
  <2> QED BY <1>1, <2>2, <2>3, <2>4, <2>5
<1>28. HandshakeToCome \in Nat /\ SavedToCome \in Nat
  BY <1>2, SavedIsHandshake
<1>29. isAttached => HandshakeToCome = HandshakeToCome' + IF m.type = "saved" THEN 1 ELSE 0
  <2>1. CASE m.type = "step1"
    BY <1>11, <1>12, <1>13, <2>1 DEF HandshakeToCome
  <2>2. CASE m.type # "step1"
    BY <1>11, <1>12, <1>13, <2>2 DEF HandshakeToCome
  <2> QED BY <2>1, <2>2
<1>30. HandshakeToCome' \in Nat /\ SavedToCome' \in Nat
  BY <1>11, <1>12, <1>13 DEF HandshakeToCome, SavedToCome
<1>31. OnceInv'
  <2> SUFFICES ASSUME Once' PROVE OnceInv'
    BY DEF OnceInv
  <2>1. Once /\ OnceInv /\ isAttached
    BY <1>1 DEF Once, ProviderInv, AuthenticatedInv
  <2>2. HandshakeToCome = 0 => HandshakeToCome' = 0
    <3>1. HandshakeToCome = HandshakeToCome' + IF m.type = "saved" THEN 1 ELSE 0
      BY <1>29, <2>1
    <3> QED BY <1>28, <1>30, <3>1 DEF HandshakeToCome
  <2>3. AuthToCome' = AuthToCome
    BY <1>12 DEF AuthToCome
  <2> QED BY <1>1, <2>1, <2>2, <2>3 DEF OnceInv
<1>32. HonestInv'
  <2> SUFFICES ASSUME Once', ~denied'
               PROVE  IF doc' \cap OwnUpdates = {} THEN unsyncedChanges' = HandshakeToCome'
                      ELSE SavedToCome' < unsyncedChanges'
    BY DEF HonestInv
  <2>1. /\ readOnly /\ isAttached /\ serverDoc \cap OwnUpdates = {}
        /\ IF doc \cap OwnUpdates = {} THEN unsyncedChanges = HandshakeToCome
           ELSE SavedToCome < unsyncedChanges
    BY <1>1 DEF Once, ProviderInv, HonestInv, AuthenticatedInv, TypeInv
  <2>2. doc' \cap OwnUpdates = doc \cap OwnUpdates
    BY <1>15, <2>1
  <2>3. CASE doc \cap OwnUpdates = {}
    <3>1. /\ unsyncedChanges = HandshakeToCome
          /\ HandshakeToCome = HandshakeToCome' + IF m.type = "saved" THEN 1 ELSE 0
      BY <1>29, <2>1, <2>3
    <3>2. unsyncedChanges' = IF m.type = "saved" /\ unsyncedChanges > 0
                             THEN unsyncedChanges - 1 ELSE unsyncedChanges
      BY <1>7, <2>1
    <3>3. unsyncedChanges' = HandshakeToCome'
      <4> DEFINE h == HandshakeToCome
                 n == HandshakeToCome'
      <4>1. h \in Nat /\ n \in Nat
        BY <1>28, <1>30
      <4> HIDE DEF h, n
      <4>2. h = n + IF m.type = "saved" THEN 1 ELSE 0
        BY <3>1 DEF h, n
      <4>3. unsyncedChanges = h
        BY <3>1 DEF h
      <4>4. unsyncedChanges' = n
        BY <3>2, <4>1, <4>2, <4>3
      <4> QED BY <4>4 DEF n
    <3> QED BY <2>2, <2>3, <3>3
  <2>4. CASE doc \cap OwnUpdates # {}
    <3>1. m.type = "step1" => (doc \ m.data) \cap OwnUpdates # {}
      BY <1>6, <2>1, <2>4
    <3>2. CountToServer(Clean)' = CountToServer(Clean)
      BY <1>11, <1>12, <3>1
    <3>3. SavedToCome = SavedToCome' + IF m.type = "saved" THEN 1 ELSE 0
      BY <1>11, <1>13, <3>2 DEF SavedToCome
    <3>4. SavedToCome < unsyncedChanges
      BY <2>1, <2>4
    <3>5. CASE m.type = "saved"
      <4>1. unsyncedChanges' = IF unsyncedChanges > 0 THEN unsyncedChanges - 1
                               ELSE unsyncedChanges
        BY <1>7, <2>1, <3>5
      <4>2. SavedToCome' < unsyncedChanges'
        BY <1>2, <1>28, <1>30, <3>3, <3>4, <3>5, <4>1 DEF SavedToCome
      <4> QED BY <2>2, <2>4, <4>2
    <3>6. CASE m.type # "saved"
      <4>1. unsyncedChanges' = unsyncedChanges /\ SavedToCome' = SavedToCome
        BY <1>7, <1>28, <1>30, <3>3, <3>6 DEF SavedToCome
      <4> QED BY <2>2, <2>4, <3>4, <4>1
    <3> QED BY <3>5, <3>6
  <2> QED BY <2>3, <2>4
<1> QED
  BY <1>20, <1>21, <1>22, <1>23, <1>24, <1>25, <1>26, <1>27, <1>31, <1>32 DEF ProviderInv

-----------------------------------------------------------------------------
(* The invariant.                                                          *)

LEMMA ProviderInitially == Init => ProviderInv
<1> SUFFICES ASSUME Init PROVE ProviderInv
  OBVIOUS
<1>1. /\ doc = {} /\ serverDoc \in {{}, OtherUpdates} /\ unsyncedChanges = 0 /\ opening = 0
      /\ isSynced = FALSE /\ isAuthenticated = FALSE /\ isAttached = TRUE
      /\ socket = "connecting" /\ attempt = TRUE
      /\ handshake = FALSE /\ denied = FALSE /\ readOnly \in BOOLEAN
      /\ dismissed = FALSE /\ dismissals = 0 /\ checks = 0
      /\ messageQueue = <<>> /\ up = <<>> /\ down = <<>>
      /\ stage = "none" /\ waiting = <<>> /\ inbox = <<>>
      /\ closes = 0 /\ denials = 0 /\ detaches = 0 /\ syncs = 0
  BY DEF Init
<1>2. ToServer = {} /\ In(down) = {}
  BY <1>1, InEmpty DEF ToServer
<1>3. ASSUME NEW M PROVE CountSent(M) = 0 /\ CountToServer(M) = 0 /\ Count(down, M) = 0
  BY <1>1, CountEmpty DEF CountSent, CountToServer
<1>4. HandshakeToCome = 0 /\ SavedToCome = 0 /\ AuthToCome = 0
  BY <1>3 DEF HandshakeToCome, SavedToCome, AuthToCome
<1>5. TypeInv
  <2>1. Events = 0 /\ 0 <= MaxEvents
    BY <1>1, ProviderAssumption DEF Events
  <2>2. <<>> \in Seq(Message)
    OBVIOUS
  <2>3. TypeOK
    BY <1>1, <2>1, <2>2 DEF TypeOK, Updates
  <2> QED BY <1>1, <2>3, ProviderAssumption DEF TypeInv
<1>6. MessagesInv
  BY <1>2 DEF MessagesInv
<1>7. GetsToServer /\ GetsToClient /\ GetsSynced /\ UnsyncedInv
  BY <1>1 DEF GetsToServer, GetsToClient, GetsSynced, UnsyncedInv, Connected
<1>8. StepFollows
  BY <1>1, FollowedEmpty DEF StepFollows
<1>9. AuthenticatedInv
  BY <1>1, <1>2 DEF AuthenticatedInv
<1>10. OnceInv /\ HonestInv
  BY <1>1, <1>4 DEF OnceInv, HonestInv, Once
<1> QED BY <1>5, <1>6, <1>7, <1>8, <1>9, <1>10 DEF ProviderInv

LEMMA ProviderStutters == ASSUME ProviderInv, UNCHANGED vars PROVE ProviderInv'
<1>1. UNCHANGED <<doc, unsyncedChanges, isSynced, isAuthenticated, isAttached, opening,
                  socket, attempt, messageQueue, handshake, up, down, stage, waiting, inbox,
                  serverDoc, readOnly, denied, dismissed, closes, denials, detaches, syncs,
                  dismissals, checks>>
  BY DEF vars, clientVars, network, serverVars, counters
<1>2. /\ UNCHANGED ToServer
      /\ \A M : UNCHANGED <<CountSent(M), CountToServer(M), Count(down, M)>>
  BY <1>1 DEF ToServer, CountSent, CountToServer
<1>3. UNCHANGED <<HandshakeToCome, SavedToCome, AuthToCome>>
  BY <1>1, <1>2 DEF HandshakeToCome, SavedToCome, AuthToCome
<1>4. TypeInv'
  <2>1. TypeOK'
    BY <1>1 DEF ProviderInv, TypeInv, TypeOK, Events
  <2> QED BY <1>1, <2>1 DEF ProviderInv, TypeInv
<1>5. MessagesInv' /\ GetsToServer' /\ GetsToClient' /\ GetsSynced' /\ StepFollows'
  BY <1>1, <1>2
  DEF ProviderInv, MessagesInv, GetsToServer, Takes, GetsToClient, GetsSynced, StepFollows,
      Connected, WillSync
<1>6. UnsyncedInv' /\ AuthenticatedInv'
  BY <1>1, <1>2 DEF ProviderInv, UnsyncedInv, AuthenticatedInv, Connected
<1>7. OnceInv' /\ HonestInv'
  BY <1>1, <1>3 DEF ProviderInv, OnceInv, HonestInv, Once
<1> QED BY <1>4, <1>5, <1>6, <1>7 DEF ProviderInv

LEMMA ProviderNext == ProviderInv /\ [Next]_vars => ProviderInv'
<1> SUFFICES ASSUME ProviderInv, [Next]_vars PROVE ProviderInv'
  OBVIOUS
<1>1. CASE \E u \in OwnUpdates : Edit(u)
  BY <1>1, EditInv
<1>2. CASE \E u \in OtherUpdates : OtherEdits(u)
  BY <1>2, OtherEditsInv
<1>3. CASE ForceSync
  BY <1>3, ForceSyncInv
<1>4. CASE TokenSettles
  BY <1>4, TokenSettlesInv
<1>5. CASE WebSocketOpens
  BY <1>5, WebSocketOpensInv
<1>6. CASE WebSocketCloses
  BY <1>6, WebSocketClosesInv
<1>7. CASE Reconnect
  BY <1>7, ReconnectInv
<1>8. CASE Detach
  BY <1>8, DetachInv
<1>9. CASE Attach
  BY <1>9, AttachInv
<1>10. CASE ClientReceive
  BY <1>10, ClientReceiveInv
<1>11. CASE ServerReceive
  BY <1>11, ServerReceiveInv
<1>12. CASE ServerAuthenticates
  BY <1>12, ServerAuthenticatesInv
<1>13. CASE ServerDenies
  BY <1>13, ServerDeniesInv
<1>14. CASE ServerHandle
  BY <1>14, ServerHandleInv
<1>15. CASE CheckConnection
  BY <1>15, CheckConnectionInv
<1>16. CASE ServerCloses
  BY <1>16, ServerClosesInv
<1>17. CASE ServerThrows
  BY <1>17, ServerThrowsInv
<1>18. CASE UNCHANGED vars
  BY <1>18, ProviderStutters
<1> QED
  BY <1>1, <1>2, <1>3, <1>4, <1>5, <1>6, <1>7, <1>8, <1>9, <1>10, <1>11, <1>12, <1>13, <1>14,
     <1>15, <1>16, <1>17, <1>18
  DEF Next

LEMMA ProviderInvariant == Spec => []ProviderInv
BY ProviderInitially, ProviderNext, PTL DEF Spec

LEMMA NothingToCome ==
    ASSUME ProviderInv, Served
    PROVE  /\ ToServer = {} /\ In(down) = {} /\ opening = 0 /\ ~WillSync /\ Connected
           /\ \A M : CountToServer(M) = 0 /\ Count(down, M) = 0
<1>1. /\ messageQueue = <<>> /\ up = <<>> /\ down = <<>> /\ inbox = <<>> /\ opening = 0
      /\ socket = "open" /\ isAttached /\ stage = "ready"
  BY DEF Served, Settled
<1>2. waiting = <<>>
  BY <1>1 DEF ProviderInv, TypeInv
<1>3. ToServer = {} /\ In(down) = {}
  BY <1>1, <1>2, InEmpty DEF ToServer
<1>4. ASSUME NEW M PROVE CountToServer(M) = 0 /\ Count(down, M) = 0
  BY <1>1, <1>2, CountEmpty DEF CountToServer, CountSent
<1> QED BY <1>1, <1>3, <1>4 DEF WillSync, Connected

\* Once everything has been exchanged, over a websocket that may write and on which
\* permission was not denied, the two copies are equal and the provider says so
\* (`synced' and hasUnsyncedChanges, CollabApiProvider.ts), after any number of
\* edits, closes, denials, detachments, forced synchronisations, and connections that
\* the server closed; what it dropped may stay counted.
THEOREM ProviderServedIsSynced == Spec => []ServedIsSynced
<1>1. ProviderInv => ServedIsSynced
  <2> SUFFICES ASSUME ProviderInv, Served, ~readOnly, ~denied
               PROVE  doc = serverDoc /\ isSynced /\ (unsyncedChanges = 0 \/ dismissed)
    BY DEF ServedIsSynced
  <2>1. /\ ToServer = {} /\ In(down) = {} /\ opening = 0 /\ ~WillSync /\ Connected
        /\ CountToServer(Acknowledged) = 0 /\ Count(down, Acknowledging) = 0
    BY NothingToCome
  <2>2. stage = "ready" /\ down = <<>> /\ unsyncedChanges \in Nat
    BY DEF Served, Settled, ProviderInv, TypeInv, TypeOK
  <2>3. doc \subseteq serverDoc
    BY <2>1, <2>2 DEF ProviderInv, GetsToServer, Takes
  <2>4. serverDoc \subseteq doc
    BY <2>1, <2>2 DEF ProviderInv, GetsToClient
  <2>5. isSynced
    <3>1. ~AtLast(down, "step2")
      BY <2>2 DEF AtLast
    <3> QED BY <2>1, <2>2, <3>1 DEF ProviderInv, GetsSynced
  <2>6. unsyncedChanges = 0 \/ dismissed
    BY <2>1, <2>2 DEF ProviderInv, UnsyncedInv
  <2> QED BY <2>3, <2>4, <2>5, <2>6
<1> QED BY <1>1, ProviderInvariant, PTL

\* A provider that was never detached and that the server serves knows that it is
\* authenticated (isAuthenticated, CollabApiProvider.ts), whatever onOpen calls of
\* earlier websockets sent their token later, and whatever connections the server
\* closed.
THEOREM ProviderServedIsAuthenticated == Spec => []ServedIsAuthenticated
<1>1. ProviderInv => ServedIsAuthenticated
  <2> SUFFICES ASSUME ProviderInv, Served, ~denied, detaches = 0 PROVE isAuthenticated
    BY DEF ServedIsAuthenticated
  <2>1. down = <<>> /\ stage = "ready"
    BY DEF Served, Settled
  <2>2. ~AtLast(down, "authenticated")
    BY <2>1 DEF AtLast
  <2> QED BY <2>1, <2>2 DEF ProviderInv, AuthenticatedInv
<1> QED BY <1>1, ProviderInvariant, PTL

\* A read-only connection that is synchronised once has unsynced changes exactly if
\* the client made an edit that the server does not have (applySyncStatusMessage,
\* and tests/provider/hasUnsyncedChanges.ts:41-60).
THEOREM ProviderReadOnlyIsHonest == Spec => []ReadOnlyIsHonest
<1>1. ProviderInv => ReadOnlyIsHonest
  <2> SUFFICES ASSUME ProviderInv, Served, readOnly, SyncedOnce
               PROVE  serverDoc \subseteq doc /\ (unsyncedChanges = 0 <=> doc \subseteq serverDoc)
    BY DEF ReadOnlyIsHonest
  <2>1. /\ In(down) = {} /\ ~WillSync /\ Connected
        /\ CountToServer(Handshake) = 0 /\ CountToServer(Clean) = 0
        /\ Count(down, Acknowledging) = 0 /\ Count(down, Saved) = 0
    BY NothingToCome
  <2>2. stage = "ready" /\ Once
    BY DEF Served, Once, SyncedOnce
  <2>3. ~denied
    BY <2>2 DEF ProviderInv, OnceInv
  <2>4. /\ serverDoc \cap OwnUpdates = {} /\ doc \subseteq OwnUpdates \cup serverDoc
        /\ unsyncedChanges \in Nat
    BY DEF ProviderInv, TypeInv, TypeOK
  <2>5. serverDoc \subseteq doc
    BY <2>1, <2>2 DEF ProviderInv, GetsToClient
  <2>6. IF doc \cap OwnUpdates = {} THEN unsyncedChanges = 0 ELSE 0 < unsyncedChanges
    BY <2>1, <2>2, <2>3 DEF ProviderInv, HonestInv, HandshakeToCome, SavedToCome
  <2>7. doc \cap OwnUpdates = {} <=> doc \subseteq serverDoc
    BY <2>4
  <2> QED BY <2>4, <2>5, <2>6, <2>7
<1> QED BY <1>1, ProviderInvariant, PTL

\* The state keeps its types; the bound on the events is kept as well.
THEOREM ProviderTypeOK == Spec => []TypeOK
<1>1. ProviderInv => TypeOK
  BY DEF ProviderInv, TypeInv
<1> QED BY <1>1, ProviderInvariant, PTL
=============================================================================
