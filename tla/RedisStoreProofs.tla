-------------------------- MODULE RedisStoreProofs --------------------------
(***************************************************************************)
(* For every number of instances and updates: the copies agree when        *)
(* nothing is in transit, a store that began then and keeps its lock       *)
(* overwrites nothing, and every edit is stored in the end unless a store  *)
(* failed, overwrote an update, or was skipped too early.                  *)
(***************************************************************************)
EXTENDS RedisStore, SequenceTheorems, TLAPS

BoxesOK ==
    /\ inbox \in [Instances -> Seq(Message)]
    /\ \A i \in Instances : ~Subscribed(i) => inbox[i] = <<>>

CopiesOK ==
    /\ phase \in [Instances -> Phases] /\ client \in [Instances -> BOOLEAN]
    /\ doc \in [Instances -> SUBSET Updates] /\ storage \subseteq Updates
    /\ dropped \in BOOLEAN

\* A store has read the copy of a document that is in memory.
StoresOK ==
    /\ pending \in [Instances -> BOOLEAN] /\ storing \in [Instances -> BOOLEAN]
    /\ snapshot \in [Instances -> SUBSET Updates]
    /\ \A i \in Instances : storing[i] => InDocuments(i) /\ snapshot[i] \subseteq doc[i]

-----------------------------------------------------------------------------
(* What is in transit.                                                     *)

\* A message that brings u, and one whose answer is to all and brings u if the one
\* who answers has it.
Brings(m, u) == m.type = "step2" /\ u \in m.data
AsksFor(m, u) == m.type \in {"step1", "reply1"} /\ u \notin m.data

IsComing(j, u) == \E p \in DOMAIN inbox[j] : Brings(inbox[j][p], u)
WillAsk(j) == \E p \in DOMAIN inbox[j] : inbox[j][p].type = "step1"
WillAnswer(i, p, u) == \E q \in DOMAIN inbox[i] : q > p /\ AsksFor(inbox[i][q], u)

\* What i has, or will have from position p on, gets to j.
GetsTo(j, i, p, u) == u \in doc[j] \/ IsComing(j, u) \/ WillAsk(j) \/ WillAnswer(i, p, u)

\* What an instance has gets to all others.
HeldGetsToAll ==
    \A i, j \in Instances : (Subscribed(i) /\ Subscribed(j)) =>
        \A u \in doc[i] : GetsTo(j, i, 0, u)

\* So does what an instance will be sent.
BroughtGetsToAll ==
    \A i, j \in Instances : (Subscribed(i) /\ Subscribed(j)) =>
        \A p \in DOMAIN inbox[i] : \A u \in Updates :
            Brings(inbox[i][p], u) => GetsTo(j, i, p, u)

\* What is stored is had by whoever has loaded the document, or will get to it.
StoredIsHeld ==
    \A u \in storage : \A j \in Instances : phase[j] # "none" =>
        u \in doc[j] \/ \E k \in Instances : Subscribed(k) /\ u \in doc[k]

TransitInv == ~dropped => HeldGetsToAll /\ BroughtGetsToAll /\ StoredIsHeld

\* Who has a sound store holds the lock, and what it is about to write has what the
\* storage has and what the other running stores are about to write.
LockInv ==
    /\ lock \in Instances \cup {NoInstance} /\ sound \in [Instances -> BOOLEAN]
    /\ \A i \in Instances : sound[i] => storing[i] /\ lock = i

SoundInv ==
    ~dropped => \A i \in Instances : sound[i] =>
        /\ storage \subseteq snapshot[i]
        /\ \A j \in Instances : storing[j] => snapshot[j] \subseteq snapshot[i]

\* An edit is stored or about to be written, or a store is scheduled where it is had.
Backed(u) == u \in StoredOrWritten \/ \E i \in Instances : pending[i] /\ u \in doc[i]

EditsInv ==
    /\ \A i \in Instances : pending[i] => InDocuments(i)
    /\ lossy \in BOOLEAN
    /\ ~lossy => \A u \in made : Backed(u)

-----------------------------------------------------------------------------
(* Boxes.                                                                  *)

LEMMA BoxIsSeq ==
    ASSUME NEW b \in Seq(Message)
    PROVE  /\ DOMAIN b = 1 .. Len(b) /\ Len(b) \in Nat
           /\ \A p \in DOMAIN b : b[p] \in Message
BY LenProperties, ElementOfSeq

\* What is published is put behind what each other subscriber is being sent.
LEMMA PublishedBox ==
    ASSUME NEW box \in [Instances -> Seq(Message)], NEW i \in Instances,
           NEW messages \in Seq(Message), NEW j \in Instances
    PROVE  LET b == Published(box, i, messages)[j] IN
           /\ b \in Seq(Message)
           /\ \A p \in DOMAIN box[j] : p \in DOMAIN b /\ b[p] = box[j][p]
           /\ (j = i \/ ~Subscribed(j)) => b = box[j]
           /\ (j # i /\ Subscribed(j)) =>
                \A q \in DOMAIN messages :
                    /\ Len(box[j]) + q \in DOMAIN b
                    /\ b[Len(box[j]) + q] = messages[q]
           /\ \A p \in DOMAIN b :
                \/ p \in DOMAIN box[j]
                \/ /\ j # i /\ Subscribed(j)
                   /\ \E q \in DOMAIN messages : b[p] = messages[q]
<1> DEFINE b == Published(box, i, messages)[j]
<1>1. /\ box[j] \in Seq(Message) /\ DOMAIN box[j] = 1 .. Len(box[j]) /\ Len(box[j]) \in Nat
      /\ DOMAIN messages = 1 .. Len(messages) /\ Len(messages) \in Nat
  BY BoxIsSeq
<1>2. CASE j = i \/ ~Subscribed(j)
  <2>1. b = box[j]
    BY <1>2 DEF Published
  <2> HIDE DEF b
  <2> QED BY <1>1, <1>2, <2>1 DEF b
<1>3. CASE j # i /\ Subscribed(j)
  <2>1. b = box[j] \o messages
    BY <1>3 DEF Published
  <2> HIDE DEF b
  <2>2. /\ b \in Seq(Message) /\ Len(b) = Len(box[j]) + Len(messages)
        /\ \A p \in 1 .. Len(box[j]) + Len(messages) :
             b[p] = IF p <= Len(box[j]) THEN box[j][p] ELSE messages[p - Len(box[j])]
    BY <1>1, <2>1, ConcatProperties
  <2>3. DOMAIN b = 1 .. Len(box[j]) + Len(messages)
    BY <2>2, BoxIsSeq
  <2>4. \A p \in DOMAIN box[j] : p \in DOMAIN b /\ b[p] = box[j][p]
    BY <1>1, <2>2, <2>3
  <2>5. \A q \in DOMAIN messages :
           Len(box[j]) + q \in DOMAIN b /\ b[Len(box[j]) + q] = messages[q]
    <3> SUFFICES ASSUME NEW q \in DOMAIN messages
                 PROVE  Len(box[j]) + q \in DOMAIN b /\ b[Len(box[j]) + q] = messages[q]
      OBVIOUS
    <3>1. /\ Len(box[j]) + q \in 1 .. Len(box[j]) + Len(messages)
          /\ ~(Len(box[j]) + q <= Len(box[j])) /\ (Len(box[j]) + q) - Len(box[j]) = q
      BY <1>1
    <3> QED BY <2>2, <2>3, <3>1
  <2>6. ASSUME NEW p \in DOMAIN b, p \notin DOMAIN box[j]
        PROVE  \E q \in DOMAIN messages : b[p] = messages[q]
    <3>1. p - Len(box[j]) \in DOMAIN messages /\ b[p] = messages[p - Len(box[j])]
      BY <1>1, <2>2, <2>3, <2>6
    <3> QED BY <3>1
  <2> QED BY <1>3, <2>2, <2>4, <2>5, <2>6 DEF b
<1> QED BY <1>2, <1>3

LEMMA PublishedIsTyped ==
    ASSUME NEW box \in [Instances -> Seq(Message)], NEW i \in Instances,
           NEW messages \in Seq(Message)
    PROVE  /\ Published(box, i, messages) \in [Instances -> Seq(Message)]
           /\ \A j \in Instances : (j = i \/ ~Subscribed(j)) =>
                Published(box, i, messages)[j] = box[j]
<1>1. \A j \in Instances : box[j] \o messages \in Seq(Message)
  BY ConcatProperties
<1> QED BY <1>1 DEF Published

LEMMA MessagesAreTyped ==
    /\ \A copy \in SUBSET Updates : FirstSyncStep(copy) \in Seq(Message)
    /\ \A i \in Instances, m \in Message :
         doc \in [Instances -> SUBSET Updates] => Replies(i, m) \in Seq(Message)
<1>1. ASSUME NEW copy \in SUBSET Updates PROVE FirstSyncStep(copy) \in Seq(Message)
  <2>1. Msg("step1", copy) \in Message
    BY DEF Msg, Message
  <2> QED BY <2>1 DEF FirstSyncStep
<1>2. ASSUME NEW i \in Instances, NEW m \in Message, doc \in [Instances -> SUBSET Updates]
      PROVE  Replies(i, m) \in Seq(Message)
  <2>1. /\ Msg("reply1", doc[i]) \in Message /\ Msg("step2", doc[i] \ m.data) \in Message
        /\ m.type \in {"step1", "reply1", "step2"}
    BY <1>2 DEF Msg, Message
  <2>2. CASE m.type = "step1"
    <3>1. Replies(i, m) = <<Msg("reply1", doc[i]), Msg("step2", doc[i] \ m.data)>>
      BY <2>2 DEF Replies
    <3> QED BY <2>1, <3>1
  <2>3. CASE m.type = "reply1"
    <3>1. Replies(i, m) = <<Msg("step2", doc[i] \ m.data)>>
      BY <2>3 DEF Replies
    <3> QED BY <2>1, <3>1
  <2>4. CASE m.type = "step2"
    <3>1. Replies(i, m) = <<>>
      BY <2>4 DEF Replies
    <3> QED BY <3>1
  <2> QED BY <2>1, <2>2, <2>3, <2>4
<1> QED BY <1>1, <1>2

\* The first message is taken.
LEMMA TakenBox ==
    ASSUME NEW b \in Seq(Message), b # <<>>, NEW t, t = Tail(b)
    PROVE  /\ t \in Seq(Message) /\ 1 \in DOMAIN b /\ Head(b) = b[1] /\ Head(b) \in Message
           /\ \A p \in DOMAIN t : p \in Nat \ {0} /\ p + 1 \in DOMAIN b /\ t[p] = b[p + 1]
           /\ \A p \in DOMAIN b : p # 1 => p - 1 \in DOMAIN t /\ t[p - 1] = b[p]
<1>1. /\ t \in Seq(Message) /\ Len(t) = Len(b) - 1 /\ Head(b) \in Message
      /\ \A p \in 1 .. Len(t) : t[p] = b[p + 1]
  BY HeadTailProperties
<1>2. /\ DOMAIN b = 1 .. Len(b) /\ Len(b) \in Nat \ {0} /\ DOMAIN t = 1 .. Len(t)
  BY <1>1, BoxIsSeq, EmptySeq
<1>3. Head(b) = b[1]
  OBVIOUS
<1>4. ASSUME NEW p \in DOMAIN b, p # 1 PROVE p - 1 \in DOMAIN t /\ t[p - 1] = b[p]
  <2>1. p - 1 \in 1 .. Len(t) /\ (p - 1) + 1 = p
    BY <1>1, <1>2, <1>4
  <2> QED BY <1>1, <1>2, <2>1
<1> QED BY <1>1, <1>2, <1>3, <1>4

-----------------------------------------------------------------------------
(* What is in transit gets to everyone.                                    *)

\* A first sync message asks everyone for what its sender does not have, and makes
\* everyone ask for what it has.
LEMMA FirstStepKeepsTransit ==
    ASSUME BoxesOK, HeldGetsToAll, BroughtGetsToAll, NEW i \in Instances,
           doc \in [Instances -> SUBSET Updates], doc'[i] \in SUBSET Updates,
           \A j \in Instances \ {i} : doc'[j] = doc[j],
           \A j \in Instances \ {i} : Subscribed(j)' <=> Subscribed(j),
           inbox' = Published(inbox, i, FirstSyncStep(doc'[i]))
    PROVE  inbox' \in [Instances -> Seq(Message)] /\ HeldGetsToAll' /\ BroughtGetsToAll'
<1> DEFINE first == Msg("step1", doc'[i])
<1>1. first \in Message /\ first.type = "step1" /\ first.data = doc'[i]
  BY DEF Msg, Message
<1> HIDE DEF first
<1>2. FirstSyncStep(doc'[i]) = <<first>> /\ <<first>> \in Seq(Message)
      /\ DOMAIN <<first>> = {1} /\ <<first>>[1] = first
  BY <1>1 DEF FirstSyncStep, first
<1>3. ASSUME NEW j \in Instances
      PROVE  /\ inbox'[j] \in Seq(Message)
             /\ \A p \in DOMAIN inbox[j] : p \in DOMAIN inbox'[j] /\ inbox'[j][p] = inbox[j][p]
             /\ j = i => inbox'[j] = inbox[j]
             /\ (j # i /\ Subscribed(j)) =>
                  /\ Len(inbox[j]) + 1 \in DOMAIN inbox'[j]
                  /\ inbox'[j][Len(inbox[j]) + 1] = first
             /\ \A p \in DOMAIN inbox'[j] : p \in DOMAIN inbox[j] \/ inbox'[j][p] = first
  <2>0. inbox \in [Instances -> Seq(Message)]
    BY DEF BoxesOK
  <2>1. inbox' = Published(inbox, i, <<first>>)
    BY <1>2
  <2> DEFINE messages == <<first>>
             b == inbox'[j]
  <2>2. messages \in Seq(Message) /\ b = Published(inbox, i, messages)[j]
    BY <1>2, <2>1
  <2> HIDE DEF messages, b
  <2>3. /\ b \in Seq(Message)
        /\ \A p \in DOMAIN inbox[j] : p \in DOMAIN b /\ b[p] = inbox[j][p]
        /\ (j = i \/ ~Subscribed(j)) => b = inbox[j]
        /\ (j # i /\ Subscribed(j)) =>
             \A q \in DOMAIN messages :
                 Len(inbox[j]) + q \in DOMAIN b /\ b[Len(inbox[j]) + q] = messages[q]
        /\ \A p \in DOMAIN b :
             p \in DOMAIN inbox[j] \/ \E q \in DOMAIN messages : b[p] = messages[q]
    BY <2>0, <2>2, PublishedBox
  <2> QED BY <1>2, <2>3 DEF messages, b
<1>4. inbox' \in [Instances -> Seq(Message)]
  BY <1>3 DEF Published
<1>5. \A j \in Instances : DOMAIN inbox[j] = 1 .. Len(inbox[j]) /\ Len(inbox[j]) \in Nat
  BY BoxIsSeq DEF BoxesOK
<1>6. ASSUME NEW j \in Instances \ {i}, Subscribed(j), NEW k \in Instances, NEW p, NEW u
      PROVE  GetsTo(j, k, p, u) => GetsTo(j, k, p, u)'
  BY <1>3, <1>6 DEF GetsTo, IsComing, WillAsk, WillAnswer
<1>7. ASSUME NEW j \in Instances \ {i}, Subscribed(j) PROVE WillAsk(j)'
  BY <1>1, <1>3, <1>7 DEF WillAsk
<1>8. ASSUME NEW k \in Instances \ {i}, Subscribed(k), NEW p \in DOMAIN inbox[k] \cup {0}, NEW u
      PROVE  GetsTo(i, k, p, u)'
  <2>1. Len(inbox[k]) + 1 > p
    BY <1>5
  <2> QED BY <1>1, <1>3, <1>8, <2>1 DEF GetsTo, WillAnswer, AsksFor
<1>9. HeldGetsToAll'
  <2> SUFFICES ASSUME NEW k \in Instances, NEW j \in Instances, Subscribed(k)', Subscribed(j)',
                      NEW u \in doc'[k]
               PROVE  GetsTo(j, k, 0, u)'
    BY DEF HeldGetsToAll
  <2>1. CASE j = k
    BY <2>1 DEF GetsTo
  <2>2. CASE j # i /\ k = i
    BY <1>7, <2>2 DEF GetsTo
  <2>3. CASE j # i /\ k # i
    BY <1>6, <2>3 DEF HeldGetsToAll
  <2>4. CASE j = i /\ k # i
    BY <1>8, <2>4
  <2> QED BY <2>1, <2>2, <2>3, <2>4
<1>10. BroughtGetsToAll'
  <2> SUFFICES ASSUME NEW k \in Instances, NEW j \in Instances, Subscribed(k)', Subscribed(j)',
                      NEW p \in DOMAIN inbox'[k], NEW u \in Updates, Brings(inbox'[k][p], u)
               PROVE  GetsTo(j, k, p, u)'
    BY DEF BroughtGetsToAll
  <2>1. p \in DOMAIN inbox[k] /\ Brings(inbox[k][p], u)
    BY <1>1, <1>3 DEF Brings
  <2>2. CASE j = k
    BY <2>2 DEF GetsTo, IsComing
  <2>3. CASE j # i /\ k = i
    BY <1>7, <2>3 DEF GetsTo
  <2>4. CASE j # i /\ k # i
    BY <1>6, <2>1, <2>4 DEF BroughtGetsToAll
  <2>5. CASE j = i /\ k # i
    BY <1>8, <2>1, <2>5
  <2> QED BY <2>2, <2>3, <2>4, <2>5
<1> QED BY <1>4, <1>9, <1>10

\* A message that is handled is answered to everyone.
LEMMA DeliverKeepsTransit ==
    ASSUME BoxesOK, HeldGetsToAll, BroughtGetsToAll,
           doc \in [Instances -> SUBSET Updates],
           NEW i \in Instances, Deliver(i), InDocuments(i)
    PROVE  inbox' \in [Instances -> Seq(Message)] /\ HeldGetsToAll' /\ BroughtGetsToAll'
<1> DEFINE m == Head(inbox[i])
           box == [inbox EXCEPT ![i] = Tail(inbox[i])]
           R == Replies(i, m)
<1>1. /\ inbox[i] # <<>> /\ inbox' = Published(box, i, R)
      /\ doc' = IF m.type = "step2" THEN [doc EXCEPT ![i] = doc[i] \cup m.data] ELSE doc
      /\ UNCHANGED phase
  BY DEF Deliver
<1>2. inbox \in [Instances -> Seq(Message)] /\ inbox[i] \in Seq(Message)
  BY DEF BoxesOK
<1> HIDE DEF m
<1>3. /\ m \in Message /\ 1 \in DOMAIN inbox[i] /\ m = inbox[i][1]
      /\ Tail(inbox[i]) \in Seq(Message)
      /\ \A p \in DOMAIN Tail(inbox[i]) :
           /\ p \in Nat \ {0} /\ p + 1 \in DOMAIN inbox[i]
           /\ Tail(inbox[i])[p] = inbox[i][p + 1]
      /\ \A p \in DOMAIN inbox[i] : p # 1 =>
           p - 1 \in DOMAIN Tail(inbox[i]) /\ Tail(inbox[i])[p - 1] = inbox[i][p]
  BY <1>1, <1>2, TakenBox DEF m
<1>4. /\ m.type \in {"step1", "reply1", "step2"} /\ m.data \in SUBSET Updates
      /\ doc[i] \in SUBSET Updates
  BY <1>3 DEF Message
<1> DEFINE reply == Msg("reply1", doc[i])
           answer == Msg("step2", doc[i] \ m.data)
<1>5. /\ reply \in Message /\ reply.type = "reply1" /\ reply.data = doc[i]
      /\ answer \in Message /\ answer.type = "step2" /\ answer.data = doc[i] \ m.data
  BY <1>4 DEF Msg, Message
<1>6. R = IF m.type = "step1" THEN <<reply, answer>>
          ELSE IF m.type = "reply1" THEN <<answer>> ELSE <<>>
  BY <1>4 DEF Replies
<1> HIDE DEF reply, answer, R
\* The messages that are published.
<1>7. /\ R \in Seq(Message)
      /\ m.type = "step1" => \E q \in DOMAIN R : R[q] = reply
      /\ m.type # "step2" => \E q \in DOMAIN R : R[q] = answer
      /\ \A q \in DOMAIN R : R[q] \in {reply, answer}
      /\ m.type = "step2" => DOMAIN R = {}
  <2>1. CASE m.type = "step1"
    <3>1. R = <<reply, answer>>
      BY <1>6, <2>1
    <3>2. R \in Seq(Message) /\ DOMAIN R = {1, 2} /\ R[1] = reply /\ R[2] = answer
      BY <1>5, <3>1
    <3> QED BY <2>1, <3>2
  <2>2. CASE m.type = "reply1"
    <3>1. R = <<answer>>
      BY <1>6, <2>2
    <3>2. R \in Seq(Message) /\ DOMAIN R = {1} /\ R[1] = answer
      BY <1>5, <3>1
    <3> QED BY <2>2, <3>2
  <2>3. CASE m.type = "step2"
    <3>1. R = <<>>
      BY <1>6, <2>3
    <3> QED BY <2>3, <3>1
  <2> QED BY <1>4, <2>1, <2>2, <2>3
<1>8. box \in [Instances -> Seq(Message)] /\ box[i] = Tail(inbox[i])
      /\ \A j \in Instances \ {i} : box[j] = inbox[j]
  BY <1>2, <1>3
<1> HIDE DEF box
\* The boxes of the others grow.
<1>9. ASSUME NEW j \in Instances \ {i}
      PROVE  /\ inbox'[j] \in Seq(Message)
             /\ \A p \in DOMAIN inbox[j] : p \in DOMAIN inbox'[j] /\ inbox'[j][p] = inbox[j][p]
             /\ Subscribed(j) => \A q \in DOMAIN R :
                  /\ Len(inbox[j]) + q \in DOMAIN inbox'[j]
                  /\ inbox'[j][Len(inbox[j]) + q] = R[q]
             /\ \A p \in DOMAIN inbox'[j] :
                  p \in DOMAIN inbox[j] \/ \E q \in DOMAIN R : inbox'[j][p] = R[q]
  <2> DEFINE b == inbox'[j]
  <2>1. b = Published(box, i, R)[j] /\ box[j] = inbox[j]
    BY <1>1, <1>8
  <2> HIDE DEF b
  <2>2. /\ b \in Seq(Message)
        /\ \A p \in DOMAIN box[j] : p \in DOMAIN b /\ b[p] = box[j][p]
        /\ (j # i /\ Subscribed(j)) =>
             \A q \in DOMAIN R :
                 Len(box[j]) + q \in DOMAIN b /\ b[Len(box[j]) + q] = R[q]
        /\ \A p \in DOMAIN b :
             p \in DOMAIN box[j] \/ \E q \in DOMAIN R : b[p] = R[q]
    BY <1>7, <1>8, <2>1, PublishedBox
  <2> QED BY <2>1, <2>2 DEF b
<1>10. inbox'[i] = Tail(inbox[i])
  BY <1>1, <1>8 DEF Published
<1>11. inbox' \in [Instances -> Seq(Message)]
  BY <1>1, <1>3, <1>9, <1>10 DEF Published
<1>12. \A j \in Instances : DOMAIN inbox[j] = 1 .. Len(inbox[j]) /\ Len(inbox[j]) \in Nat
  BY <1>2, BoxIsSeq
<1>13. /\ \A j \in Instances : Subscribed(j)' <=> Subscribed(j)
       /\ Subscribed(i)
       /\ \A j \in Instances : doc[j] \subseteq doc'[j]
       /\ \A j \in Instances \ {i} : doc'[j] = doc[j]
       /\ m.type = "step2" => doc'[i] = doc[i] \cup m.data
       /\ m.type # "step2" => doc'[i] = doc[i]
  BY <1>1, <1>4 DEF Subscribed, InDocuments
\* What i sends reaches everyone.
<1>14. ASSUME NEW j \in Instances \ {i}, Subscribed(j), m.type # "step2",
              NEW u \in doc[i] \ m.data
       PROVE  IsComing(j, u)'
  <2>1. PICK q \in DOMAIN R : R[q] = answer
    BY <1>7, <1>14
  <2>2. Len(inbox[j]) + q \in DOMAIN inbox'[j] /\ inbox'[j][Len(inbox[j]) + q] = answer
    BY <1>9, <1>14, <2>1
  <2> QED BY <1>5, <1>14, <2>2 DEF IsComing, Brings
<1>15. ASSUME NEW k \in Instances \ {i}, Subscribed(k), m.type = "step1",
              NEW u, u \notin doc[i], NEW p \in DOMAIN inbox[k] \cup {0}
       PROVE  WillAnswer(k, p, u)'
  <2>1. PICK q \in DOMAIN R : R[q] = reply
    BY <1>7, <1>15
  <2>2. Len(inbox[k]) + q \in DOMAIN inbox'[k] /\ inbox'[k][Len(inbox[k]) + q] = reply
    BY <1>9, <1>15, <2>1
  <2>3. Len(inbox[k]) + q > p
    <3>1. q \in Nat \ {0}
      BY <1>7, <2>1, BoxIsSeq
    <3> QED BY <1>12, <3>1
  <2> QED BY <1>5, <1>15, <2>2, <2>3 DEF WillAnswer, AsksFor
\* What gets to j still does.
<1>16. ASSUME NEW j \in Instances, NEW k \in Instances, Subscribed(j), Subscribed(k), j # k,
              NEW p \in DOMAIN inbox[k] \cup {0}, NEW u,
              GetsTo(j, k, p, u), p = 0 /\ k = i => u \in doc[i]
       PROVE  GetsTo(j, k, IF k = i /\ p # 0 THEN p - 1 ELSE p, u)'
  <2>1. CASE u \in doc[j]
    BY <1>13, <2>1 DEF GetsTo
  <2>2. CASE IsComing(j, u)
    <3>1. PICK q \in DOMAIN inbox[j] : Brings(inbox[j][q], u)
      BY <2>2 DEF IsComing
    <3>2. CASE j # i
      BY <1>9, <3>1, <3>2 DEF GetsTo, IsComing
    <3>3. CASE j = i /\ q = 1
      BY <1>3, <1>13, <3>1, <3>3 DEF GetsTo, Brings
    <3>4. CASE j = i /\ q # 1
      BY <1>3, <1>10, <3>1, <3>4 DEF GetsTo, IsComing
    <3> QED BY <3>2, <3>3, <3>4
  <2>3. CASE WillAsk(j)
    <3>1. PICK q \in DOMAIN inbox[j] : inbox[j][q].type = "step1"
      BY <2>3 DEF WillAsk
    <3>2. CASE j # i
      BY <1>9, <3>1, <3>2 DEF GetsTo, WillAsk
    <3>3. CASE j = i /\ q = 1
      <4>1. m.type = "step1" /\ k # i
        BY <1>3, <1>16, <3>1, <3>3
      <4> QED BY <1>13, <1>15, <1>16, <3>3, <4>1 DEF GetsTo
    <3>4. CASE j = i /\ q # 1
      <4>1. q - 1 \in DOMAIN inbox'[i] /\ inbox'[i][q - 1] = inbox[i][q]
        BY <1>3, <1>10, <3>1, <3>4
      <4> QED BY <3>1, <3>4, <4>1 DEF GetsTo, WillAsk
    <3> QED BY <3>2, <3>3, <3>4
  <2>4. CASE WillAnswer(k, p, u)
    <3>1. PICK q \in DOMAIN inbox[k] : q > p /\ AsksFor(inbox[k][q], u)
      BY <2>4 DEF WillAnswer
    <3>2. CASE k # i
      BY <1>9, <3>1, <3>2 DEF GetsTo, WillAnswer
    <3>3. CASE k = i /\ q = 1
      <4>1. p = 0 /\ u \in doc[i] /\ m.type # "step2" /\ u \notin m.data /\ j # i
        BY <1>3, <1>12, <1>16, <3>1, <3>3 DEF AsksFor
      <4> QED BY <1>14, <1>16, <4>1 DEF GetsTo
    <3>4. CASE k = i /\ q # 1
      <4>1. q - 1 \in DOMAIN inbox'[i] /\ inbox'[i][q - 1] = inbox[i][q]
        BY <1>3, <1>10, <3>1, <3>4
      <4>2. q - 1 > (IF k = i /\ p # 0 THEN p - 1 ELSE p)
        BY <1>12, <3>1, <3>4
      <4> QED BY <3>1, <3>4, <4>1, <4>2 DEF GetsTo, WillAnswer
    <3> QED BY <3>2, <3>3, <3>4
  <2> QED BY <1>16, <2>1, <2>2, <2>3, <2>4 DEF GetsTo
<1>17. HeldGetsToAll'
  <2> SUFFICES ASSUME NEW k \in Instances, NEW j \in Instances, Subscribed(k), Subscribed(j),
                      j # k, NEW u \in doc'[k]
               PROVE  GetsTo(j, k, 0, u)'
    BY <1>13 DEF HeldGetsToAll, GetsTo
  <2>1. CASE u \in doc[k]
    BY <1>16, <2>1 DEF HeldGetsToAll
  <2>2. CASE u \notin doc[k]
    <3>1. k = i /\ m.type = "step2" /\ u \in m.data /\ u \in Updates
      BY <1>4, <1>13, <2>2
    <3>2. Brings(inbox[i][1], u)
      BY <1>3, <3>1 DEF Brings
    <3>3. GetsTo(j, i, 1, u)
      BY <1>3, <3>1, <3>2 DEF BroughtGetsToAll
    <3>4. GetsTo(j, i, IF i = i /\ 1 # 0 THEN 1 - 1 ELSE 1, u)'
      BY <1>3, <1>16, <3>1, <3>3
    <3>5. (IF i = i /\ 1 # 0 THEN 1 - 1 ELSE 1) = 0
      OBVIOUS
    <3> QED BY <3>1, <3>4, <3>5
  <2> QED BY <2>1, <2>2
<1>18. BroughtGetsToAll'
  <2> SUFFICES ASSUME NEW k \in Instances, NEW j \in Instances, Subscribed(k), Subscribed(j),
                      NEW p \in DOMAIN inbox'[k], NEW u \in Updates, Brings(inbox'[k][p], u)
               PROVE  GetsTo(j, k, p, u)'
    BY <1>13 DEF BroughtGetsToAll
  <2>1. CASE j = k
    BY <2>1 DEF GetsTo, IsComing
  <2>2. CASE j # k /\ k = i
    <3>1. p \in Nat \ {0} /\ p + 1 \in DOMAIN inbox[i] /\ inbox'[i][p] = inbox[i][p + 1]
      BY <1>3, <1>10, <2>2
    <3>2. GetsTo(j, i, p + 1, u)
      BY <2>2, <3>1 DEF BroughtGetsToAll
    <3>3. GetsTo(j, i, IF i = i /\ p + 1 # 0 THEN (p + 1) - 1 ELSE p + 1, u)'
      BY <1>16, <2>2, <3>1, <3>2
    <3>4. (IF i = i /\ p + 1 # 0 THEN (p + 1) - 1 ELSE p + 1) = p
      BY <3>1
    <3> QED BY <2>2, <3>3, <3>4
  <2>3. CASE j # k /\ k # i /\ p \in DOMAIN inbox[k]
    <3>1. GetsTo(j, k, p, u)
      BY <1>9, <2>3 DEF BroughtGetsToAll
    <3> QED BY <1>12, <1>16, <2>3, <3>1
  <2>4. CASE j # k /\ k # i /\ p \notin DOMAIN inbox[k]
    <3>1. PICK q \in DOMAIN R : inbox'[k][p] = R[q]
      BY <1>9, <2>4
    <3>2. m.type # "step2" /\ u \in doc[i] \ m.data
      BY <1>5, <1>7, <3>1 DEF Brings
    <3> QED BY <1>13, <1>14, <2>4, <3>2 DEF GetsTo
  <2> QED BY <2>1, <2>2, <2>3, <2>4
<1> QED BY <1>11, <1>17, <1>18

\* A document that moves on without being unloaded.
LEMMA PhaseKeepsTransit ==
    ASSUME BoxesOK, TransitInv,
           \A j \in Instances : (Subscribed(j)' <=> Subscribed(j))
                               /\ (phase'[j] = "none" <=> phase[j] = "none"),
           UNCHANGED <<doc, inbox, storage, dropped>>
    PROVE  BoxesOK' /\ TransitInv'
<1>1. BoxesOK'
  BY DEF BoxesOK
<1>2. HeldGetsToAll => HeldGetsToAll'
  BY DEF HeldGetsToAll, GetsTo, IsComing, WillAsk, WillAnswer
<1>3. BroughtGetsToAll => BroughtGetsToAll'
  BY DEF BroughtGetsToAll, GetsTo, IsComing, WillAsk, WillAnswer
<1>4. StoredIsHeld => StoredIsHeld'
  BY DEF StoredIsHeld
<1> QED BY <1>1, <1>2, <1>3, <1>4 DEF TransitInv

LEMMA PhaseAfterIsInMemory ==
    ASSUME CopiesOK, NEW i \in Instances, NEW hasClient, NEW hasPending,
           phase' = PhaseAfter(i, hasClient, hasPending)
    PROVE  /\ phase' \in [Instances -> Phases]
           /\ \A j \in Instances : /\ InDocuments(j)' <=> InDocuments(j)
                                   /\ Subscribed(j)' <=> Subscribed(j)
                                   /\ phase'[j] = "none" <=> phase[j] = "none"
BY DEF CopiesOK, PhaseAfter, Phases, InDocuments, Subscribed

\* When nothing is in transit, the copies agree and have what is stored.
LEMMA QuietCopies ==
    ASSUME BoxesOK, TransitInv, Quiet, ~dropped,
           NEW i \in Instances, NEW j \in Instances, InDocuments(i), InDocuments(j)
    PROVE  doc[i] \subseteq doc[j] /\ storage \subseteq doc[j]
<1>1. \A k \in Instances : inbox[k] = <<>> /\ DOMAIN inbox[k] = {}
  BY DEF Quiet
<1>2. \A k \in Instances : Subscribed(k) => doc[k] \subseteq doc[j]
  BY <1>1 DEF TransitInv, HeldGetsToAll, GetsTo, IsComing, WillAsk, WillAnswer, Subscribed
<1>3. storage \subseteq doc[j]
  BY <1>2 DEF TransitInv, StoredIsHeld, InDocuments
<1> QED BY <1>2, <1>3 DEF Subscribed

RedisInv == CopiesOK /\ StoresOK /\ BoxesOK /\ TransitInv

-----------------------------------------------------------------------------
(* Step by step.                                                           *)

LEMMA RedisConnect == ASSUME RedisInv, NEW i \in Instances, Connect(i) PROVE RedisInv'
<1>1. /\ client' = [client EXCEPT ![i] = TRUE]
      /\ UNCHANGED <<inbox, made, dropped, pending, storing, snapshot, storage>>
  BY DEF Connect, storeVars
<1>2. CASE phase[i] # "none"
  <2>1. UNCHANGED <<phase, doc>>
    BY <1>2 DEF Connect
  <2>2. CopiesOK' /\ StoresOK'
    BY <1>1, <2>1 DEF RedisInv, CopiesOK, StoresOK, InDocuments
  <2>3. BoxesOK' /\ TransitInv'
    BY <1>1, <2>1, PhaseKeepsTransit DEF RedisInv, Subscribed, InDocuments
  <2> QED BY <2>2, <2>3 DEF RedisInv
<1>3. CASE phase[i] = "none"
  <2>1. phase' = [phase EXCEPT ![i] = "loaded"] /\ doc' = [doc EXCEPT ![i] = storage]
    BY <1>3 DEF Connect
  <2>2. /\ \A j \in Instances : /\ InDocuments(j)' <=> InDocuments(j)
                                /\ Subscribed(j)' <=> Subscribed(j)
                                /\ Subscribed(j) => doc'[j] = doc[j]
        /\ \A j \in Instances \ {i} : doc'[j] = doc[j] /\ phase'[j] = phase[j]
        /\ doc'[i] = storage /\ ~InDocuments(i)
    BY <1>3, <2>1 DEF RedisInv, CopiesOK, InDocuments, Subscribed
  <2>3. CopiesOK'
    BY <1>1, <2>1 DEF RedisInv, CopiesOK, Phases
  <2>4. StoresOK'
    BY <1>1, <2>2 DEF RedisInv, StoresOK
  <2>5. BoxesOK'
    BY <1>1, <2>2 DEF RedisInv, BoxesOK
  <2>6. HeldGetsToAll => HeldGetsToAll'
    BY <1>1, <2>2 DEF HeldGetsToAll, GetsTo, IsComing, WillAsk, WillAnswer
  <2>7. BroughtGetsToAll => BroughtGetsToAll'
    BY <1>1, <2>2 DEF BroughtGetsToAll, GetsTo, IsComing, WillAsk, WillAnswer
  <2>8. StoredIsHeld => StoredIsHeld'
    BY <1>1, <2>2 DEF StoredIsHeld
  <2> QED BY <1>1, <2>3, <2>4, <2>5, <2>6, <2>7, <2>8 DEF RedisInv, TransitInv
<1> QED BY <1>2, <1>3

LEMMA RedisSubscribe == ASSUME RedisInv, NEW i \in Instances, Subscribe(i) PROVE RedisInv'
<1>1. /\ phase[i] = "loaded"
      /\ \/ phase' = [phase EXCEPT ![i] = "subscribed"]
         \/ phase' = [phase EXCEPT ![i] = "ready"]
      /\ inbox' = Published(inbox, i, FirstSyncStep(doc[i]))
      /\ UNCHANGED <<client, doc, made, dropped, pending, storing, snapshot, storage>>
  BY DEF Subscribe, storeVars
<1>2. /\ \A j \in Instances \ {i} : /\ phase'[j] = phase[j]
                                    /\ Subscribed(j)' <=> Subscribed(j)
                                    /\ InDocuments(j)' <=> InDocuments(j)
      /\ ~Subscribed(i) /\ Subscribed(i)' /\ ~InDocuments(i)
  BY <1>1 DEF RedisInv, CopiesOK, InDocuments, Subscribed
<1>3. CopiesOK'
  BY <1>1 DEF RedisInv, CopiesOK, Phases
<1>4. StoresOK'
  BY <1>1, <1>2 DEF RedisInv, StoresOK
<1>5. inbox' \in [Instances -> Seq(Message)]
      /\ (HeldGetsToAll /\ BroughtGetsToAll => HeldGetsToAll' /\ BroughtGetsToAll')
  <2>1. /\ doc \in [Instances -> SUBSET Updates] /\ doc'[i] \in SUBSET Updates
        /\ \A j \in Instances \ {i} : doc'[j] = doc[j]
        /\ inbox' = Published(inbox, i, FirstSyncStep(doc'[i]))
    BY <1>1 DEF RedisInv, CopiesOK
  <2>2. inbox' \in [Instances -> Seq(Message)]
    BY <2>1, MessagesAreTyped, PublishedIsTyped DEF RedisInv, BoxesOK
  <2> QED BY <1>2, <2>1, <2>2, FirstStepKeepsTransit DEF RedisInv
<1>6. BoxesOK'
  <2>1. \A j \in Instances : ~Subscribed(j)' => inbox'[j] = <<>>
    BY <1>1, <1>2 DEF RedisInv, BoxesOK, Published
  <2> QED BY <1>5, <2>1 DEF BoxesOK
<1>7. StoredIsHeld => StoredIsHeld'
  BY <1>1, <1>2 DEF StoredIsHeld
<1> QED BY <1>1, <1>3, <1>4, <1>5, <1>6, <1>7 DEF RedisInv, TransitInv

LEMMA RedisIsReady == ASSUME RedisInv, NEW i \in Instances, IsReady(i) PROVE RedisInv'
<1>1. /\ phase[i] = "subscribed" /\ phase' = [phase EXCEPT ![i] = "ready"]
      /\ UNCHANGED <<client, doc, inbox, made, dropped, pending, storing, snapshot, storage>>
  BY DEF IsReady, storeVars
<1>2. \A j \in Instances : /\ Subscribed(j)' <=> Subscribed(j)
                           /\ InDocuments(j) => InDocuments(j)'
                           /\ phase'[j] = "none" <=> phase[j] = "none"
  BY <1>1 DEF RedisInv, CopiesOK, Subscribed, InDocuments
<1>3. CopiesOK' /\ StoresOK'
  BY <1>1, <1>2 DEF RedisInv, CopiesOK, StoresOK, Phases
<1> QED BY <1>1, <1>2, <1>3, PhaseKeepsTransit DEF RedisInv

LEMMA RedisEdit ==
    ASSUME RedisInv, NEW i \in Instances, NEW u \in Updates, Edit(i, u) PROVE RedisInv'
<1>1. /\ InDocuments(i) /\ made' = made \cup {u}
      /\ doc' = [doc EXCEPT ![i] = doc[i] \cup {u}]
      /\ inbox' = Published(inbox, i, FirstSyncStep(doc'[i]))
      /\ pending' = [pending EXCEPT ![i] = TRUE]
      /\ UNCHANGED <<phase, client, dropped, storing, snapshot, storage>>
  BY DEF Edit
<1>2. /\ doc'[i] = doc[i] \cup {u} /\ doc'[i] \in SUBSET Updates
      /\ \A j \in Instances \ {i} : doc'[j] = doc[j]
      /\ \A j \in Instances : /\ Subscribed(j)' <=> Subscribed(j)
                              /\ InDocuments(j)' <=> InDocuments(j)
      /\ doc \in [Instances -> SUBSET Updates]
  BY <1>1 DEF RedisInv, CopiesOK, Subscribed, InDocuments
<1>3. CopiesOK'
  BY <1>1 DEF RedisInv, CopiesOK
<1>4. StoresOK'
  BY <1>1, <1>2 DEF RedisInv, StoresOK
<1>5. inbox' \in [Instances -> Seq(Message)]
      /\ (HeldGetsToAll /\ BroughtGetsToAll => HeldGetsToAll' /\ BroughtGetsToAll')
  <2>1. inbox' \in [Instances -> Seq(Message)]
    BY <1>1, <1>2, MessagesAreTyped, PublishedIsTyped DEF RedisInv, BoxesOK
  <2> QED BY <1>1, <1>2, <2>1, FirstStepKeepsTransit DEF RedisInv
<1>6. BoxesOK'
  <2>1. \A j \in Instances : ~Subscribed(j)' => inbox'[j] = <<>>
    BY <1>1, <1>2 DEF RedisInv, BoxesOK, Published
  <2> QED BY <1>5, <2>1 DEF BoxesOK
<1>7. StoredIsHeld => StoredIsHeld'
  BY <1>1, <1>2 DEF StoredIsHeld
<1> QED BY <1>1, <1>3, <1>4, <1>5, <1>6, <1>7 DEF RedisInv, TransitInv

LEMMA RedisDeliver == ASSUME RedisInv, NEW i \in Instances, Deliver(i) PROVE RedisInv'
<1> DEFINE m == Head(inbox[i])
           box == [inbox EXCEPT ![i] = Tail(inbox[i])]
<1>1. /\ inbox[i] # <<>>
      /\ inbox' = IF InDocuments(i) THEN Published(box, i, Replies(i, m)) ELSE box
      /\ doc' = IF InDocuments(i) /\ m.type = "step2"
                THEN [doc EXCEPT ![i] = doc[i] \cup m.data] ELSE doc
      /\ dropped' = (dropped \/ ~InDocuments(i))
      /\ UNCHANGED <<phase, client, made, pending, storing, snapshot, storage>>
  BY DEF Deliver, storeVars
<1>2. doc \in [Instances -> SUBSET Updates] /\ inbox \in [Instances -> Seq(Message)]
  BY DEF RedisInv, CopiesOK, BoxesOK
<1>3. m \in Message /\ Tail(inbox[i]) \in Seq(Message)
  <2>1. inbox[i] \in Seq(Message)
    BY <1>2
  <2> QED BY <1>1, <2>1, TakenBox
<1>4. box \in [Instances -> Seq(Message)] /\ \A j \in Instances \ {i} : box[j] = inbox[j]
  BY <1>2, <1>3
<1>5. m.data \in SUBSET Updates
  BY <1>3 DEF Message
<1> HIDE DEF m, box
<1>6. /\ doc' \in [Instances -> SUBSET Updates]
      /\ \A j \in Instances : /\ doc[j] \subseteq doc'[j]
                              /\ Subscribed(j)' <=> Subscribed(j)
                              /\ InDocuments(j)' <=> InDocuments(j)
  BY <1>1, <1>2, <1>5 DEF Subscribed, InDocuments
<1>7. CopiesOK'
  BY <1>1, <1>6 DEF RedisInv, CopiesOK
<1>8. StoresOK'
  BY <1>1, <1>6 DEF RedisInv, StoresOK
<1>9. BoxesOK'
  <2>1. /\ inbox' \in [Instances -> Seq(Message)]
        /\ \A j \in Instances : (j # i /\ ~Subscribed(j)) => inbox'[j] = inbox[j]
    BY <1>1, <1>2, <1>3, <1>4, MessagesAreTyped, PublishedIsTyped
  <2>2. Subscribed(i)
    BY <1>1 DEF RedisInv, BoxesOK
  <2> QED BY <1>6, <2>1, <2>2 DEF RedisInv, BoxesOK
<1>10. TransitInv'
  <2> SUFFICES ASSUME ~dropped' PROVE HeldGetsToAll' /\ BroughtGetsToAll' /\ StoredIsHeld'
    BY DEF TransitInv
  <2>1. ~dropped /\ InDocuments(i)
    BY <1>1
  <2>2. HeldGetsToAll /\ BroughtGetsToAll /\ StoredIsHeld
    BY <2>1 DEF RedisInv, TransitInv
  <2>3. StoredIsHeld'
    BY <1>1, <1>6, <2>2 DEF StoredIsHeld
  <2> QED BY <1>2, <2>1, <2>2, <2>3, DeliverKeepsTransit DEF RedisInv
<1> QED BY <1>7, <1>8, <1>9, <1>10 DEF RedisInv

LEMMA RedisDisconnect == ASSUME RedisInv, NEW i \in Instances, Disconnect(i) PROVE RedisInv'
<1>1. /\ client' = [client EXCEPT ![i] = FALSE]
      /\ phase' = PhaseAfter(i, FALSE, pending[i] \/ storing[i])
      /\ UNCHANGED <<doc, inbox, made, dropped, pending, storing, snapshot, storage>>
  BY DEF Disconnect, storeVars
<1> DEFINE hasPending == pending[i] \/ storing[i]
<1> HIDE DEF hasPending
<1>2. phase' = PhaseAfter(i, FALSE, hasPending)
  BY <1>1 DEF hasPending
<1>3. /\ phase' \in [Instances -> Phases]
      /\ \A j \in Instances : /\ InDocuments(j)' <=> InDocuments(j)
                              /\ Subscribed(j)' <=> Subscribed(j)
                              /\ phase'[j] = "none" <=> phase[j] = "none"
  BY <1>2, PhaseAfterIsInMemory DEF RedisInv
<1>4. CopiesOK' /\ StoresOK'
  BY <1>1, <1>3 DEF RedisInv, CopiesOK, StoresOK
<1> QED BY <1>1, <1>3, <1>4, PhaseKeepsTransit DEF RedisInv

LEMMA RedisUnloadEnds == ASSUME RedisInv, NEW i \in Instances, UnloadEnds(i) PROVE RedisInv'
<1>1. /\ phase[i] = "unloading" /\ Quiet
      /\ UNCHANGED <<client, inbox, made, dropped, pending, storing, storage>>
  BY DEF UnloadEnds
<1>2. CASE StillUsed(i)
  <2>1. phase' = [phase EXCEPT ![i] = "ready"] /\ UNCHANGED <<doc, snapshot>>
    BY <1>2 DEF UnloadEnds
  <2>2. \A j \in Instances : /\ InDocuments(j)' <=> InDocuments(j)
                             /\ Subscribed(j)' <=> Subscribed(j)
                             /\ phase'[j] = "none" <=> phase[j] = "none"
    BY <1>1, <2>1 DEF RedisInv, CopiesOK, InDocuments, Subscribed
  <2>3. CopiesOK' /\ StoresOK'
    BY <1>1, <2>1, <2>2 DEF RedisInv, CopiesOK, StoresOK, Phases
  <2> QED BY <1>1, <2>1, <2>2, <2>3, PhaseKeepsTransit DEF RedisInv
<1>3. CASE ~StillUsed(i)
  <2>1. /\ phase' = [phase EXCEPT ![i] = "none"] /\ doc' = [doc EXCEPT ![i] = {}]
        /\ snapshot' = [snapshot EXCEPT ![i] = {}]
    BY <1>3 DEF UnloadEnds
  <2>2. /\ \A j \in Instances \ {i} : /\ phase'[j] = phase[j] /\ doc'[j] = doc[j]
                                      /\ snapshot'[j] = snapshot[j]
                                      /\ InDocuments(j)' <=> InDocuments(j)
                                      /\ Subscribed(j)' <=> Subscribed(j)
        /\ phase'[i] = "none" /\ ~InDocuments(i)' /\ ~Subscribed(i)' /\ ~storing[i]
    BY <1>3, <2>1 DEF RedisInv, CopiesOK, StoresOK, InDocuments, Subscribed, StillUsed
  <2>3. CopiesOK'
    BY <1>1, <2>1 DEF RedisInv, CopiesOK, Phases
  <2>4. StoresOK'
    BY <1>1, <2>1, <2>2 DEF RedisInv, StoresOK
  <2>5. BoxesOK'
    BY <1>1, <2>2 DEF RedisInv, BoxesOK, Quiet
  <2>6. HeldGetsToAll => HeldGetsToAll'
    BY <1>1, <2>2 DEF HeldGetsToAll, GetsTo, IsComing, WillAsk, WillAnswer
  <2>7. BroughtGetsToAll => BroughtGetsToAll'
    BY <1>1, <2>2 DEF BroughtGetsToAll, GetsTo, IsComing, WillAsk, WillAnswer
  \* Whoever is left has what is stored.
  <2>8. ~dropped => StoredIsHeld'
    <3> SUFFICES ASSUME ~dropped, NEW u \in storage, NEW j \in Instances \ {i}, phase[j] # "none"
                 PROVE  u \in doc[j]
      BY <1>1, <2>2 DEF StoredIsHeld
    <3>1. InDocuments(i) /\ InDocuments(j)
      BY <1>1 DEF RedisInv, CopiesOK, Phases, InDocuments, Quiet
    <3> QED BY <1>1, <3>1, QuietCopies DEF RedisInv
  <2> QED BY <1>1, <2>3, <2>4, <2>5, <2>6, <2>7, <2>8 DEF RedisInv, TransitInv
<1> QED BY <1>2, <1>3

LEMMA RedisStoreStarts == ASSUME RedisInv, NEW i \in Instances, StoreStarts(i) PROVE RedisInv'
<1>1. /\ InDocuments(i) /\ pending' = [pending EXCEPT ![i] = FALSE]
      /\ UNCHANGED <<client, doc, inbox, made, dropped, storage>>
  BY DEF StoreStarts
<1>2. CASE Acquired(i)
  <2>1. /\ storing' = [storing EXCEPT ![i] = TRUE]
        /\ snapshot' = [snapshot EXCEPT ![i] = doc[i]] /\ UNCHANGED phase
    BY <1>2 DEF StoreStarts
  <2>2. \A j \in Instances : /\ InDocuments(j)' <=> InDocuments(j)
                             /\ Subscribed(j)' <=> Subscribed(j)
    BY <2>1 DEF InDocuments, Subscribed
  <2>3. CopiesOK' /\ StoresOK'
    BY <1>1, <2>1, <2>2 DEF RedisInv, CopiesOK, StoresOK
  <2> QED BY <1>1, <2>1, <2>2, <2>3, PhaseKeepsTransit DEF RedisInv
<1>3. CASE ~Acquired(i)
  <2>1. phase' = PhaseAfter(i, client[i], FALSE) /\ UNCHANGED <<storing, snapshot>>
    BY <1>3 DEF StoreStarts
  <2>2. /\ phase' \in [Instances -> Phases]
        /\ \A j \in Instances : /\ InDocuments(j)' <=> InDocuments(j)
                                /\ Subscribed(j)' <=> Subscribed(j)
                                /\ phase'[j] = "none" <=> phase[j] = "none"
    BY <2>1, PhaseAfterIsInMemory DEF RedisInv
  <2>3. CopiesOK' /\ StoresOK'
    BY <1>1, <2>1, <2>2 DEF RedisInv, CopiesOK, StoresOK
  <2> QED BY <1>1, <2>2, <2>3, PhaseKeepsTransit DEF RedisInv
<1> QED BY <1>2, <1>3

LEMMA RedisStoreEnds == ASSUME RedisInv, NEW i \in Instances, StoreEnds(i) PROVE RedisInv'
<1>1. /\ storing[i] /\ storing' = [storing EXCEPT ![i] = FALSE] /\ storage' = snapshot[i]
      /\ phase' = PhaseAfter(i, client[i], pending[i])
      /\ UNCHANGED <<client, doc, inbox, made, dropped, pending, snapshot>>
  BY DEF StoreEnds
<1>2. /\ phase' \in [Instances -> Phases]
      /\ \A j \in Instances : /\ InDocuments(j)' <=> InDocuments(j)
                              /\ Subscribed(j)' <=> Subscribed(j)
                              /\ phase'[j] = "none" <=> phase[j] = "none"
  BY <1>1, PhaseAfterIsInMemory DEF RedisInv
<1>3. snapshot[i] \subseteq doc[i] /\ snapshot[i] \subseteq Updates /\ Subscribed(i)
  BY <1>1 DEF RedisInv, StoresOK, Subscribed
<1>4. CopiesOK' /\ StoresOK'
  BY <1>1, <1>2, <1>3 DEF RedisInv, CopiesOK, StoresOK
<1>5. BoxesOK'
  BY <1>1, <1>2 DEF RedisInv, BoxesOK
<1>6. HeldGetsToAll => HeldGetsToAll'
  BY <1>1, <1>2 DEF HeldGetsToAll, GetsTo, IsComing, WillAsk, WillAnswer
<1>7. BroughtGetsToAll => BroughtGetsToAll'
  BY <1>1, <1>2 DEF BroughtGetsToAll, GetsTo, IsComing, WillAsk, WillAnswer
<1>8. StoredIsHeld'
  BY <1>1, <1>2, <1>3 DEF StoredIsHeld
<1> QED BY <1>1, <1>4, <1>5, <1>6, <1>7, <1>8 DEF RedisInv, TransitInv

\* A store that fails, a lock that expires, and a stutter.
LEMMA RedisSameCopies ==
    ASSUME RedisInv, UNCHANGED <<copyVars, pending, snapshot, storage>>,
           storing' = storing \/ \E i \in Instances : storing' = [storing EXCEPT ![i] = FALSE]
    PROVE  RedisInv'
<1>1. UNCHANGED <<phase, client, doc, inbox, made, dropped, pending, snapshot, storage>>
  BY DEF copyVars
<1>2. \A j \in Instances : /\ InDocuments(j)' <=> InDocuments(j)
                           /\ Subscribed(j)' <=> Subscribed(j)
  BY <1>1 DEF InDocuments, Subscribed
<1>3. CopiesOK'
  BY <1>1 DEF RedisInv, CopiesOK
<1>4. StoresOK'
  BY <1>1, <1>2 DEF RedisInv, StoresOK
<1> QED BY <1>1, <1>2, <1>3, <1>4, PhaseKeepsTransit DEF RedisInv

LEMMA RedisInit == Init => RedisInv
<1> SUFFICES ASSUME Init PROVE RedisInv
  OBVIOUS
<1>1. CopiesOK
  BY DEF Init, CopiesOK, Phases
<1>2. StoresOK
  BY DEF Init, StoresOK
<1>3. \A i \in Instances : ~Subscribed(i) /\ inbox[i] = <<>>
  BY DEF Init, Subscribed, InDocuments
<1>4. BoxesOK
  BY <1>3 DEF Init, BoxesOK
<1>5. TransitInv
  BY <1>3 DEF Init, TransitInv, HeldGetsToAll, BroughtGetsToAll, StoredIsHeld
<1> QED BY <1>1, <1>2, <1>4, <1>5 DEF RedisInv

LEMMA RedisNext == RedisInv /\ [Next]_vars => RedisInv'
<1> SUFFICES ASSUME RedisInv, [Next]_vars PROVE RedisInv'
  OBVIOUS
<1>1. CASE UNCHANGED vars
  BY <1>1, RedisSameCopies DEF vars, storeVars
<1>2. ASSUME NEW i \in Instances, StoreFails(i) PROVE RedisInv'
  BY <1>2, RedisSameCopies DEF StoreFails
<1>3. CASE LockExpires
  BY <1>3, RedisSameCopies DEF LockExpires
<1> QED
  BY <1>1, <1>2, <1>3, RedisConnect, RedisSubscribe, RedisIsReady, RedisEdit, RedisDeliver,
     RedisDisconnect, RedisUnloadEnds, RedisStoreStarts, RedisStoreEnds
  DEF Next

LEMMA RedisInvariant == Spec => []RedisInv
BY RedisInit, RedisNext, PTL DEF Spec

\* "syncs updates between servers and clients" (tests/extension-redis/onChange.ts:9): for any
\* number of instances and of updates, and with any bounds, the copies that are in memory are
\* the same when nothing is in transit, unless a reply came too early.
THEOREM RedisQuietAgree == Spec => []QuietAgree
<1>1. RedisInv => QuietAgree
  <2> SUFFICES ASSUME RedisInv, Quiet, ~dropped, NEW i \in Instances, NEW j \in Instances,
                      InDocuments(i), InDocuments(j)
               PROVE  doc[i] = doc[j]
    BY DEF QuietAgree
  <2>1. doc[i] \subseteq doc[j]
    BY QuietCopies DEF RedisInv
  <2>2. doc[j] \subseteq doc[i]
    BY QuietCopies DEF RedisInv
  <2> QED BY <2>1, <2>2
<1> QED BY <1>1, RedisInvariant, PTL

-----------------------------------------------------------------------------
(* What is stored.                                                         *)

LEMMA LockNextInv == RedisInv /\ LockInv /\ [Next]_vars => LockInv'
<1> SUFFICES ASSUME RedisInv, LockInv, [Next]_vars PROVE LockInv'
  OBVIOUS
<1>1. CASE UNCHANGED <<lock, storing, sound>>
  BY <1>1 DEF LockInv
<1>2. ASSUME NEW i \in Instances, StoreStarts(i) PROVE LockInv'
  <2>1. CASE Acquired(i)
    <3>1. /\ lock = NoInstance /\ lock' = i /\ storing' = [storing EXCEPT ![i] = TRUE]
          /\ sound' = [sound EXCEPT ![i] = Quiet]
      BY <1>2, <2>1 DEF StoreStarts, Acquired
    <3>2. Quiet \in BOOLEAN
      BY DEF Quiet
    <3>3. \A j \in Instances : ~sound[j]
      BY <3>1, RedisStoreAssumption DEF LockInv
    <3> HIDE DEF Quiet
    <3> QED BY <3>1, <3>2, <3>3 DEF LockInv, RedisInv, StoresOK
  <2>2. CASE ~Acquired(i)
    BY <1>2, <2>2 DEF StoreStarts, LockInv
  <2> QED BY <2>1, <2>2
<1>3. ASSUME NEW i \in Instances, StoreEnds(i) PROVE LockInv'
  BY <1>3 DEF StoreEnds, LockInv, RedisInv, StoresOK
<1>4. ASSUME NEW i \in Instances, StoreFails(i) PROVE LockInv'
  BY <1>4 DEF StoreFails, LockInv, RedisInv, StoresOK
<1>5. CASE LockExpires
  BY <1>5 DEF LockExpires, LockInv
<1> QED
  BY <1>1, <1>2, <1>3, <1>4, <1>5
  DEF Next, Connect, Subscribe, IsReady, Deliver, Disconnect, UnloadEnds, Edit, storeVars, vars

LEMMA LockInvariant == Spec => [](RedisInv /\ LockInv)
<1>1. Init => LockInv
  BY RedisStoreAssumption DEF Init, LockInv
<1> QED BY <1>1, RedisInvariant, LockNextInv, PTL DEF Spec

\* A store that begins when nothing is in transit has read a copy that has what is stored
\* and what every running store writes; as long as it has the lock, no other one begins.
LEMMA SoundNext ==
    ASSUME RedisInv, LockInv, SoundInv, [Next]_vars
    PROVE  SoundInv'
<1>1. CASE UNCHANGED <<storing, snapshot, storage, sound, dropped>>
  BY <1>1 DEF SoundInv
<1>2. ASSUME NEW i \in Instances, Deliver(i) PROVE SoundInv'
  BY <1>2 DEF Deliver, storeVars, SoundInv
<1>3. ASSUME NEW i \in Instances, UnloadEnds(i) PROVE SoundInv'
  <2>1. UNCHANGED <<storing, storage, sound, dropped>>
    BY <1>3 DEF UnloadEnds
  <2>2. \A j \in Instances : storing[j] => snapshot'[j] = snapshot[j]
    BY <1>3 DEF UnloadEnds, StillUsed, RedisInv, StoresOK
  <2> QED BY <2>1, <2>2 DEF SoundInv, LockInv
<1>4. ASSUME NEW i \in Instances, StoreStarts(i) PROVE SoundInv'
  <2>1. InDocuments(i) /\ ~storing[i] /\ UNCHANGED <<storage, dropped>>
    BY <1>4 DEF StoreStarts
  <2>2. CASE ~Acquired(i)
    <3>1. UNCHANGED <<storing, snapshot, sound>>
      BY <1>4, <2>2 DEF StoreStarts
    <3> QED BY <1>1, <2>1, <3>1
  <2>3. CASE Acquired(i)
    <3>1. /\ lock = NoInstance /\ storing' = [storing EXCEPT ![i] = TRUE]
          /\ snapshot' = [snapshot EXCEPT ![i] = doc[i]]
          /\ sound' = [sound EXCEPT ![i] = Quiet]
      BY <1>4, <2>3 DEF StoreStarts, Acquired
    <3>2. \A j \in Instances : ~sound[j]
      BY <3>1, RedisStoreAssumption DEF LockInv
    <3>3. /\ \A j \in Instances : sound'[j] => j = i /\ Quiet
          /\ snapshot'[i] = doc[i]
          /\ \A j \in Instances \ {i} : snapshot'[j] = snapshot[j] /\ storing'[j] = storing[j]
      BY <3>1, <3>2 DEF LockInv, RedisInv, StoresOK
    <3>4. ASSUME ~dropped, Quiet, NEW j \in Instances, storing[j]
          PROVE  snapshot[j] \subseteq doc[i]
      BY <2>1, <3>4, QuietCopies DEF RedisInv, StoresOK
    <3>5. ASSUME ~dropped, Quiet PROVE storage \subseteq doc[i]
      BY <2>1, <3>5, QuietCopies DEF RedisInv
    <3> HIDE DEF Quiet
    <3> QED BY <2>1, <3>3, <3>4, <3>5 DEF SoundInv
  <2> QED BY <2>2, <2>3
<1>5. ASSUME NEW i \in Instances, StoreEnds(i) PROVE SoundInv'
  BY <1>5 DEF StoreEnds, SoundInv, RedisInv, StoresOK, LockInv
<1>6. ASSUME NEW i \in Instances, StoreFails(i) PROVE SoundInv'
  BY <1>6 DEF StoreFails, copyVars, SoundInv, RedisInv, StoresOK, LockInv
<1>7. CASE LockExpires
  BY <1>7 DEF LockExpires, copyVars, SoundInv, LockInv
<1> QED
  BY <1>1, <1>2, <1>3, <1>4, <1>5, <1>6, <1>7
  DEF Next, Connect, Subscribe, IsReady, Edit, Disconnect, copyVars, storeVars, vars

LEMMA SoundStep ==
    ASSUME RedisInv, LockInv, SoundInv, [Next]_vars,
           NEW i \in Instances, sound[i], storing[i], ~storing'[i], ~dropped
    PROVE  storage \subseteq storage'
<1>1. CASE UNCHANGED <<storing, storage>>
  BY <1>1
<1>2. ASSUME NEW j \in Instances, StoreStarts(j) PROVE storage \subseteq storage'
  BY <1>2 DEF StoreStarts
<1>3. ASSUME NEW j \in Instances, StoreEnds(j) PROVE storage \subseteq storage'
  <2>1. j = i
    BY <1>3 DEF StoreEnds, RedisInv, StoresOK
  <2> QED BY <1>3, <2>1 DEF StoreEnds, SoundInv
<1>4. ASSUME NEW j \in Instances, StoreFails(j) PROVE storage \subseteq storage'
  BY <1>4 DEF StoreFails
<1> QED
  BY <1>1, <1>2, <1>3, <1>4
  DEF Next, Connect, Subscribe, IsReady, Deliver, Edit, Disconnect, UnloadEnds, LockExpires,
      copyVars, storeVars, vars

\* "stores documents without conflicts" (tests/extension-redis/onStoreDocument.ts:8): with any
\* number of instances, a store that began when nothing was in transit, and whose lock did not
\* expire, takes nothing out of the storage, whatever the stores beside it do.
THEOREM RedisStorageKeeps == Spec => StorageKeeps
<1> DEFINE Kept == \A i \in Instances : (sound[i] /\ storing[i] /\ ~storing'[i] /\ ~dropped) =>
                       storage \subseteq storage'
<1>1. Init => SoundInv
  BY DEF Init, SoundInv
<1>2. RedisInv /\ LockInv /\ SoundInv /\ [Next]_vars => SoundInv' /\ [Kept]_vars
  BY SoundNext, SoundStep
<1>3. Spec => [](RedisInv /\ LockInv /\ SoundInv)
  BY <1>1, <1>2, LockInvariant, PTL DEF Spec
<1>4. Spec => [][Kept]_vars
  BY <1>2, <1>3, PTL DEF Spec
<1> QED BY <1>4 DEF StorageKeeps

-----------------------------------------------------------------------------
(* No edit is forgotten.                                                   *)

LEMMA EditsNext ==
    ASSUME RedisInv, EditsInv, [Next]_vars
    PROVE  EditsInv'
<1>1. ASSUME UNCHANGED <<made, pending, storing, snapshot, storage, lossy>>,
             \A j \in Instances : /\ InDocuments(j) => InDocuments(j)'
                                  /\ InDocuments(j) => doc[j] \subseteq doc'[j]
      PROVE  EditsInv'
  BY <1>1 DEF EditsInv, Backed, StoredOrWritten
<1>2. ASSUME NEW i \in Instances, Connect(i) PROVE EditsInv'
  BY <1>1, <1>2 DEF Connect, storeVars, RedisInv, CopiesOK, InDocuments
<1>3. ASSUME NEW i \in Instances, Subscribe(i) PROVE EditsInv'
  BY <1>1, <1>3 DEF Subscribe, storeVars, RedisInv, CopiesOK, InDocuments
<1>4. ASSUME NEW i \in Instances, IsReady(i) PROVE EditsInv'
  BY <1>1, <1>4 DEF IsReady, storeVars, RedisInv, CopiesOK, InDocuments
<1>5. ASSUME NEW i \in Instances, NEW u \in Updates, Edit(i, u) PROVE EditsInv'
  <2>1. /\ InDocuments(i) /\ made' = made \cup {u}
        /\ doc' = [doc EXCEPT ![i] = doc[i] \cup {u}]
        /\ pending' = [pending EXCEPT ![i] = TRUE]
        /\ UNCHANGED <<phase, storing, snapshot, storage, lossy>>
    BY <1>5 DEF Edit
  <2>2. /\ pending'[i] /\ u \in doc'[i]
        /\ \A j \in Instances : (pending[j] => pending'[j]) /\ doc[j] \subseteq doc'[j]
    BY <2>1 DEF RedisInv, CopiesOK, StoresOK
  <2> QED BY <2>1, <2>2 DEF EditsInv, Backed, StoredOrWritten, InDocuments
<1>6. ASSUME NEW i \in Instances, Deliver(i) PROVE EditsInv'
  <2> DEFINE data == Head(inbox[i]).data
  <2>1. doc' = doc \/ doc' = [doc EXCEPT ![i] = doc[i] \cup data]
    BY <1>6 DEF Deliver
  <2> HIDE DEF data
  <2>2. \A j \in Instances : doc[j] \subseteq doc'[j]
    BY <2>1 DEF RedisInv, CopiesOK
  <2> QED BY <1>1, <1>6, <2>2 DEF Deliver, storeVars, InDocuments
<1>7. ASSUME NEW i \in Instances, Disconnect(i) PROVE EditsInv'
  <2> DEFINE hasPending == pending[i] \/ storing[i]
  <2>1. phase' = PhaseAfter(i, FALSE, hasPending)
    BY <1>7 DEF Disconnect
  <2> HIDE DEF hasPending
  <2>2. \A j \in Instances : InDocuments(j)' <=> InDocuments(j)
    BY <2>1, PhaseAfterIsInMemory DEF RedisInv
  <2> QED BY <1>1, <1>7, <2>2 DEF Disconnect, storeVars
<1>8. ASSUME NEW i \in Instances, UnloadEnds(i) PROVE EditsInv'
  <2>1. UNCHANGED <<made, pending, storing, storage, lossy>>
    BY <1>8 DEF UnloadEnds
  <2>2. CASE StillUsed(i)
    BY <1>1, <1>8, <2>1, <2>2 DEF UnloadEnds, InDocuments, RedisInv, CopiesOK
  <2>3. CASE ~StillUsed(i)
    <3>1. /\ ~pending[i] /\ ~storing[i]
          /\ \A j \in Instances \ {i} : /\ doc'[j] = doc[j] /\ snapshot'[j] = snapshot[j]
                                        /\ phase'[j] = phase[j]
      BY <1>8, <2>3 DEF UnloadEnds, StillUsed, RedisInv, CopiesOK, StoresOK
    <3>2. StoredOrWritten' = StoredOrWritten
      <4>1. \A j \in {k \in Instances : storing[k]} : snapshot'[j] = snapshot[j]
        BY <3>1
      <4> QED BY <2>1, <4>1 DEF StoredOrWritten
    <3>3. \A u \in made : Backed(u) => Backed(u)'
      BY <2>1, <3>1, <3>2 DEF Backed
    <3>4. \A j \in Instances : pending[j] => (InDocuments(j) => InDocuments(j)')
      BY <3>1 DEF InDocuments
    <3> QED BY <2>1, <3>3, <3>4 DEF EditsInv
  <2> QED BY <2>2, <2>3
<1>9. ASSUME NEW i \in Instances, StoreStarts(i) PROVE EditsInv'
  <2>1. /\ InDocuments(i) /\ ~storing[i] /\ pending' = [pending EXCEPT ![i] = FALSE]
        /\ UNCHANGED <<doc, made, storage>>
    BY <1>9 DEF StoreStarts
  <2>2. CASE Acquired(i)
    <3>1. /\ storing' = [storing EXCEPT ![i] = TRUE] /\ snapshot' = [snapshot EXCEPT ![i] = doc[i]]
          /\ UNCHANGED <<phase, lossy>>
      BY <1>9, <2>2 DEF StoreStarts
    <3>2. /\ storing'[i] /\ snapshot'[i] = doc[i]
          /\ \A j \in Instances \ {i} : /\ snapshot'[j] = snapshot[j] /\ storing'[j] = storing[j]
                                        /\ pending'[j] = pending[j]
      BY <2>1, <3>1 DEF RedisInv, StoresOK
    <3>3. StoredOrWritten \subseteq StoredOrWritten' /\ doc[i] \subseteq StoredOrWritten'
      BY <2>1, <3>2 DEF StoredOrWritten
    <3>4. \A u \in made : Backed(u) => Backed(u)'
      BY <2>1, <3>2, <3>3 DEF Backed
    <3> QED BY <2>1, <3>1, <3>4 DEF EditsInv, InDocuments, RedisInv, StoresOK
  <2>3. CASE ~Acquired(i)
    <3>1. /\ phase' = PhaseAfter(i, client[i], FALSE)
          /\ lossy' = (lossy \/ ~(doc[i] \subseteq StoredOrWritten))
          /\ UNCHANGED <<storing, snapshot>>
      BY <1>9, <2>3 DEF StoreStarts
    <3>2. StoredOrWritten' = StoredOrWritten
      BY <2>1, <3>1 DEF StoredOrWritten
    <3>3. \A j \in Instances : InDocuments(j)' <=> InDocuments(j)
      BY <3>1, PhaseAfterIsInMemory DEF RedisInv
    <3>4. \A j \in Instances \ {i} : pending'[j] = pending[j]
      BY <2>1 DEF RedisInv, StoresOK
    <3>5. ASSUME ~lossy', NEW u \in made, Backed(u) PROVE Backed(u)'
      BY <2>1, <3>1, <3>2, <3>4, <3>5 DEF Backed
    <3> QED BY <2>1, <3>1, <3>3, <3>5 DEF EditsInv, RedisInv, StoresOK
  <2> QED BY <2>2, <2>3
<1>10. ASSUME NEW i \in Instances, StoreEnds(i) PROVE EditsInv'
  <2>1. /\ storing[i] /\ storing' = [storing EXCEPT ![i] = FALSE] /\ storage' = snapshot[i]
        /\ lossy' = (lossy \/ ~(storage \subseteq snapshot[i]))
        /\ phase' = PhaseAfter(i, client[i], pending[i])
        /\ UNCHANGED <<doc, made, pending, snapshot>>
    BY <1>10 DEF StoreEnds
  <2>2. \A j \in Instances : InDocuments(j)' <=> InDocuments(j)
    BY <2>1, PhaseAfterIsInMemory DEF RedisInv
  <2>3. ~lossy' => StoredOrWritten \subseteq StoredOrWritten'
    BY <2>1 DEF StoredOrWritten, RedisInv, StoresOK
  <2>4. ASSUME ~lossy', NEW u \in made, Backed(u) PROVE Backed(u)'
    BY <2>1, <2>3, <2>4 DEF Backed
  <2> QED BY <2>1, <2>2, <2>4 DEF EditsInv
<1>11. ASSUME NEW i \in Instances, StoreFails(i) PROVE EditsInv'
  BY <1>11 DEF StoreFails, copyVars, EditsInv, InDocuments
<1>12. CASE LockExpires
  BY <1>1, <1>12 DEF LockExpires, copyVars, InDocuments
<1>13. CASE UNCHANGED vars
  BY <1>1, <1>13 DEF vars, copyVars, storeVars, InDocuments
<1> QED
  BY <1>2, <1>3, <1>4, <1>5, <1>6, <1>7, <1>8, <1>9, <1>10, <1>11, <1>12, <1>13 DEF Next

\* "the data is safe on the other instance" (Redis.ts:270), as far as it is so: for any number
\* of instances, once nothing is scheduled or running, every edit is stored, unless a store
\* failed or overwrote an update, or was skipped while no running store had its updates.
THEOREM RedisEditsAreStored == Spec => []EditsAreStored
<1>1. Init => EditsInv
  BY DEF Init, EditsInv
<1>2. RedisInv /\ EditsInv /\ [Next]_vars => EditsInv'
  BY EditsNext
<1>3. Spec => []EditsInv
  BY <1>1, <1>2, RedisInvariant, PTL DEF Spec
<1>4. ASSUME EditsInv PROVE EditsAreStored
  <2> SUFFICES ASSUME ~lossy, \A i \in Instances : ~pending[i] /\ ~storing[i]
               PROVE  made \subseteq storage
    BY DEF EditsAreStored
  <2>1. StoredOrWritten = storage
    BY DEF StoredOrWritten
  <2> QED BY <1>4, <2>1 DEF EditsInv, Backed
<1> QED BY <1>3, <1>4, PTL

=============================================================================
