-------------------------- MODULE StreamingProofs --------------------------
(***************************************************************************)
(* The streamed requests keep their promises for every set of streams, for *)
(* every way correlation ids may fall to them, and for every number of     *)
(* heartbeats and cancellations.                                           *)
(***************************************************************************)
EXTENDS Streaming, SequenceTheorems, TLAPS

-----------------------------------------------------------------------------
(* The inductive invariant.                                                *)

Unique(s) == \A t \in Streams \ {s} : cid[t] # cid[s]
EndsFinal(q) == q # <<>> /\ Terminal(q[Len(q)])
NoFinal(q) == \A k \in DOMAIN q : ~ Terminal(q[k])
OwnFinal(q, s) == \E k \in DOMAIN q : Terminal(q[k]) /\ q[k].of = s

\* The two tasks of a stream follow its generator.
Phase(s) ==
  /\ gen[s] = "idle" => run[s] = "none" /\ hb[s] = "none" /\ sent[s] = <<>>
                        /\ queue[s] = <<>> /\ heard[s] = <<>>
  /\ gen[s] \in {"waiting", "yielded"} => run[s] \in {"ready", "executing", "finished", "raised"}
  /\ run[s] = "ready" => gen[s] = "waiting" /\ hb[s] = "ready"
  /\ gen[s] \in {"waiting", "yielded"} /\ run[s] # "ready" => hb[s] \in {"waiting", "done"}
  /\ gen[s] \in InCleanup => run[s] \in RunEnds \cup {"cancelling"} /\ hb[s] \in {"cancelling", "done"}
  /\ gen[s] = "closed" => run[s] \in RunEnds /\ hb[s] = "done"

\* A stream is on the bus under its own id only, from its opening to its end.
OnBus(s) ==
  /\ \A i \in Ids : s \in subscribers[i] => i = cid[s] /\ gen[s] # "idle"
  /\ gen[s] \notin {"idle", "closed"} => s \in subscribers[cid[s]]
  /\ gen[s] = "closed" /\ ~ lateCut[s] => \A i \in Ids : s \notin subscribers[i]
  /\ gen[s] = "aborted" => lateCut[s]

\* What the consumer has, with what is queued, is what was put; the generator
\* never waits on after a terminal event.
Order(s) ==
  /\ gen[s] = "waiting" => sent[s] \o queue[s] = heard[s] /\ NoFinal(sent[s])
  /\ gen[s] = "yielded" => sent[s] # <<>> /\ (EndsFinal(sent[s]) \/ sent[s] \o queue[s] = heard[s])
  /\ \A k \in DOMAIN sent[s] : Terminal(sent[s][k]) => k = Len(sent[s])

\* A stream nobody cut ends by a terminal event, or because its run returned
\* without publishing one.
Ending(s) ==
  gen[s] \in InCleanup \cup {"closed"} /\ cuts[s] = 0 =>
    EndsFinal(sent[s]) \/ (run[s] = "finished" /\ ~ OwnFinal(heard[s], s))

\* A run's terminal event is seen after the run's end only; alone under its
\* id, a stream sees no other run.
Own(s) ==
  /\ OwnFinal(queue[s], s) \/ OwnFinal(sent[s], s) => run[s] \in RunEnds
  /\ Unique(s) => /\ \A k \in DOMAIN queue[s] : queue[s][k].of = s
                  /\ \A k \in DOMAIN sent[s] : sent[s][k].of = s
                  /\ run[s] \in {"cancelling", "cancelled"} => cuts[s] > 0

StreamInv(s) == Phase(s) /\ OnBus(s) /\ Order(s) /\ Ending(s) /\ Own(s)
IInv == TypeOK /\ \A s \in Streams : StreamInv(s)
-----------------------------------------------------------------------------
(* Sequences of events.                                                    *)

LEMMA EventParts ==
  /\ \A s \in Streams : \A kind \in Kinds : Ev(kind, s) \in Event
  /\ \A s : \A kind : Ev(kind, s).of = s /\ Ev(kind, s).kind = kind
  BY DEF Ev, Event

LEMMA ConcatEvents ==
  ASSUME NEW q \in Seq(Event), NEW es \in Seq(Event)
  PROVE  /\ q \o es \in Seq(Event)
         /\ \A k \in DOMAIN (q \o es) :
              \/ k \in DOMAIN q /\ (q \o es)[k] = q[k]
              \/ \E j \in DOMAIN es : (q \o es)[k] = es[j]
<1>1. /\ q \o es \in Seq(Event) /\ Len(q \o es) = Len(q) + Len(es)
      /\ \A i \in 1..Len(q) + Len(es) : (q \o es)[i] = IF i <= Len(q) THEN q[i] ELSE es[i - Len(q)]
  BY ConcatProperties
<1>2. DOMAIN (q \o es) = 1..Len(q) + Len(es) /\ DOMAIN q = 1..Len(q) /\ DOMAIN es = 1..Len(es)
      /\ Len(q) \in Nat /\ Len(es) \in Nat
  BY <1>1, LenProperties
<1>3. ASSUME NEW k \in 1..Len(q) + Len(es)
      PROVE  \/ k \in DOMAIN q /\ (q \o es)[k] = q[k]
             \/ \E j \in DOMAIN es : (q \o es)[k] = es[j]
  <2>1. CASE k <= Len(q)
    BY <1>1, <1>2, <2>1
  <2>2. CASE ~ (k <= Len(q))
    <3>1. k - Len(q) \in DOMAIN es /\ (q \o es)[k] = es[k - Len(q)]
      BY <1>1, <1>2, <2>2
    <3> QED BY <3>1
  <2> QED BY <2>1, <2>2
<1> QED BY <1>1, <1>2, <1>3

\* A final event of a concatenation comes from one of its parts.
LEMMA OwnFinalConcat ==
  ASSUME NEW q \in Seq(Event), NEW es \in Seq(Event), NEW s, OwnFinal(q \o es, s)
  PROVE  OwnFinal(q, s) \/ OwnFinal(es, s)
<1>1. PICK k \in DOMAIN (q \o es) : Terminal((q \o es)[k]) /\ (q \o es)[k].of = s
  BY DEF OwnFinal
<1>2. \/ k \in DOMAIN q /\ (q \o es)[k] = q[k]
      \/ \E j \in DOMAIN es : (q \o es)[k] = es[j]
  BY ConcatEvents
<1> QED BY <1>1, <1>2 DEF OwnFinal

LEMMA ConcatExtends ==
  ASSUME NEW p \in Seq(Event), NEW q \in Seq(Event), NEW es \in Seq(Event)
  PROVE  p \o (q \o es) = (p \o q) \o es
  BY ConcatAssociative

LEMMA AppendEvent ==
  ASSUME NEW q \in Seq(Event), NEW e \in Event
  PROVE  /\ Append(q, e) \in Seq(Event) /\ Append(q, e) # <<>>
         /\ Len(Append(q, e)) = Len(q) + 1 /\ Append(q, e)[Len(q) + 1] = e
         /\ \A k \in DOMAIN Append(q, e) :
              \/ k \in DOMAIN q /\ k # Len(q) + 1 /\ Append(q, e)[k] = q[k]
              \/ k = Len(q) + 1 /\ Append(q, e)[k] = e
<1>1. /\ Append(q, e) \in Seq(Event) /\ Append(q, e) # <<>> /\ Len(Append(q, e)) = Len(q) + 1
      /\ Append(q, e)[Len(q) + 1] = e /\ \A i \in 1..Len(q) : Append(q, e)[i] = q[i]
  BY AppendProperties
<1>2. DOMAIN Append(q, e) = 1..Len(q) + 1 /\ DOMAIN q = 1..Len(q) /\ Len(q) \in Nat
  BY <1>1, LenProperties
<1> QED BY <1>1, <1>2

LEMMA TakeEvent ==
  ASSUME NEW p \in Seq(Event), NEW q \in Seq(Event), q # <<>>
  PROVE  /\ Head(q) \in Event /\ Tail(q) \in Seq(Event)
         /\ \E j \in DOMAIN q : Head(q) = q[j]
         /\ \A k \in DOMAIN Tail(q) : \E j \in DOMAIN q : Tail(q)[k] = q[j]
         /\ Append(p, Head(q)) \o Tail(q) = p \o q
<1>1. /\ Head(q) \in Event /\ Tail(q) \in Seq(Event) /\ Len(Tail(q)) = Len(q) - 1
      /\ \A i \in 1..Len(Tail(q)) : Tail(q)[i] = q[i + 1]
  BY HeadTailProperties
<1>2. /\ Len(q) \in Nat \ {0} /\ Len(p) \in Nat
      /\ DOMAIN q = 1..Len(q) /\ DOMAIN Tail(q) = 1..(Len(q) - 1)
  BY <1>1, LenProperties, EmptySeq
<1>3. Head(q) = q[1] /\ 1 \in DOMAIN q
  BY <1>2
<1>4. ASSUME NEW k \in DOMAIN Tail(q) PROVE Tail(q)[k] = q[k + 1] /\ k + 1 \in DOMAIN q
  BY <1>1, <1>2
<1>5. /\ Append(p, Head(q)) \in Seq(Event) /\ Len(Append(p, Head(q))) = Len(p) + 1
      /\ \A i \in 1..Len(p) : Append(p, Head(q))[i] = p[i]
      /\ Append(p, Head(q))[Len(p) + 1] = q[1]
  BY <1>1, <1>3, AppendProperties
<1> DEFINE a == Append(p, Head(q))  t == Tail(q)
<1>6. /\ a \o t \in Seq(Event) /\ Len(a \o t) = Len(a) + Len(t)
      /\ \A i \in 1..Len(a) + Len(t) : (a \o t)[i] = IF i <= Len(a) THEN a[i] ELSE t[i - Len(a)]
  BY <1>1, <1>5, ConcatProperties
<1>7. /\ p \o q \in Seq(Event) /\ Len(p \o q) = Len(p) + Len(q)
      /\ \A i \in 1..Len(p) + Len(q) : (p \o q)[i] = IF i <= Len(p) THEN p[i] ELSE q[i - Len(p)]
  BY ConcatProperties
<1>8. Len(a \o t) = Len(p \o q) /\ Len(p \o q) = Len(p) + Len(q) /\ Len(a) = Len(p) + 1
      /\ Len(a) + Len(t) = Len(p) + Len(q)
  BY <1>1, <1>2, <1>5, <1>6, <1>7
<1>9. ASSUME NEW i \in 1..Len(a \o t) PROVE (a \o t)[i] = (p \o q)[i]
  <2>1. CASE i <= Len(p)
    BY <1>2, <1>5, <1>6, <1>7, <1>8, <2>1
  <2>2. CASE i = Len(p) + 1
    BY <1>2, <1>5, <1>6, <1>7, <1>8, <2>2
  <2>3. CASE i > Len(p) + 1
    <3>1. i - Len(a) \in DOMAIN t /\ (i - Len(a)) + 1 = i - Len(p)
      BY <1>2, <1>8, <2>3
    <3>2. (a \o t)[i] = t[i - Len(a)]
      BY <1>2, <1>6, <1>8, <2>3
    <3>3. (p \o q)[i] = q[i - Len(p)]
      BY <1>2, <1>7, <1>8, <2>3
    <3> QED BY <1>4, <3>1, <3>2, <3>3
  <2> QED BY <1>2, <1>8, <2>1, <2>2, <2>3
<1>10. a \o t = p \o q
  <2> HIDE DEF a, t
  <2> QED BY <1>6, <1>7, <1>8, <1>9, SeqEqual
<1> QED BY <1>1, <1>3, <1>4, <1>10
-----------------------------------------------------------------------------
(* Streams a step leaves alone.                                            *)

LEMMA Frame ==
  ASSUME NEW t \in Streams, StreamInv(t), cid' = cid, cid[t] \in Ids,
         gen'[t] = gen[t], run'[t] = run[t], hb'[t] = hb[t], sent'[t] = sent[t],
         cuts'[t] = cuts[t], lateCut'[t] = lateCut[t],
         queue'[t] = queue[t], heard'[t] = heard[t],
         \A i \in Ids : t \in subscribers'[i] <=> t \in subscribers[i]
  PROVE  StreamInv(t)'
<1> USE DEF StreamInv
<1>1. Phase(t)'
  BY DEF Phase
<1>2. OnBus(t)'
  BY DEF OnBus
<1>3. Order(t)'
  BY DEF Order, NoFinal, EndsFinal
<1>4. Ending(t)'
  BY DEF Ending, EndsFinal, OwnFinal
<1>5. Own(t)'
  BY DEF Own, OwnFinal, Unique
<1> QED BY <1>1, <1>2, <1>3, <1>4, <1>5

-----------------------------------------------------------------------------
(* Steps that publish: the events of one stream reach the streams that     *)
(* share its id, and a terminal one only as the run ends.                  *)

LEMMA PublishKeepsIInv ==
  ASSUME IInv, NEW s \in Streams, NEW es \in Seq(Event), Publish(cid[s], es),
         \A k \in DOMAIN es : es[k].of = s,
         NoFinal(es) \/ (run[s] \in {"ready", "executing"} /\ run'[s] \in RunEnds),
         UNCHANGED <<cid, gen, sent, cuts, lateCut>>,
         \A t \in Streams \ {s} : run'[t] = run[t] /\ hb'[t] = hb[t],
         run'[s] = run[s] \/ (run[s] \notin RunEnds /\ run'[s] \in {"executing", "finished"}),
         run' \in [Streams -> RunStates], hb' \in [Streams -> HbStates],
         beats' \in 0..MaxHeartbeats, Phase(s)'
  PROVE  IInv'
<1> USE DEF IInv
<1>1. ASSUME NEW t \in Streams
      PROVE  /\ queue'[t] = IF t \in subscribers[cid[s]] THEN queue[t] \o es ELSE queue[t]
             /\ heard'[t] = IF t \in subscribers[cid[s]] THEN heard[t] \o es ELSE heard[t]
             /\ queue'[t] \in Seq(Event) /\ heard'[t] \in Seq(Event)
  <2>1. queue[t] \in Seq(Event) /\ heard[t] \in Seq(Event)
    BY DEF TypeOK
  <2>2. queue[t] \o es \in Seq(Event) /\ heard[t] \o es \in Seq(Event)
    BY <2>1, ConcatProperties
  <2> QED BY <2>1, <2>2 DEF Publish
<1>2. TypeOK'
  <2>1. queue' \in [Streams -> Seq(Event)] /\ heard' \in [Streams -> Seq(Event)]
    BY <1>1 DEF Publish
  <2> QED BY <2>1 DEF TypeOK, Publish
<1>3. ASSUME NEW t \in Streams PROVE StreamInv(t)'
  <2> USE DEF StreamInv
  <2>1. /\ StreamInv(t) /\ cid' = cid /\ gen'[t] = gen[t] /\ sent'[t] = sent[t]
        /\ cuts'[t] = cuts[t] /\ lateCut'[t] = lateCut[t] /\ subscribers' = subscribers
        /\ cid[t] \in Ids /\ cid[s] \in Ids
        /\ queue[t] \in Seq(Event) /\ heard[t] \in Seq(Event) /\ sent[t] \in Seq(Event)
    BY DEF Publish, TypeOK
  <2>2. t # s => run'[t] = run[t] /\ hb'[t] = hb[t]
    OBVIOUS
  <2>3. Phase(t)'
    <3>1. t \in subscribers[cid[s]] => gen[t] # "idle"
      BY <2>1 DEF OnBus
    <3>2. CASE t # s
      BY <1>1, <2>1, <2>2, <3>1, <3>2 DEF Phase
    <3> QED BY <3>2
  <2>4. OnBus(t)'
    BY <2>1 DEF OnBus
  <2>5. Order(t)'
    <3>1. sent[t] \o queue[t] = heard[t] => sent[t] \o (queue[t] \o es) = heard[t] \o es
      <4>1. sent[t] \in Seq(Event) /\ queue[t] \in Seq(Event)
        BY <2>1
      <4>2. sent[t] \o (queue[t] \o es) = (sent[t] \o queue[t]) \o es
        BY <4>1, ConcatExtends, Zenon
      <4> QED BY <4>2, Zenon
    <3>2. sent[t] \o queue[t] = heard[t] => sent'[t] \o queue'[t] = heard'[t]
      BY <1>1, <2>1, <3>1
    <3> QED BY <2>1, <3>2 DEF Order, NoFinal, EndsFinal
  <2>6. ASSUME t \in subscribers[cid[s]], Unique(t) PROVE t = s
    <3>1. cid[s] = cid[t]
      BY <2>1, <2>6 DEF OnBus
    <3> QED BY <2>6, <3>1 DEF Unique
  <2>7. OwnFinal(es, t) => t = s /\ run[s] \in {"ready", "executing"} /\ run'[s] \in RunEnds
    BY DEF OwnFinal, NoFinal
  <2>8. ASSUME OwnFinal(queue'[t], t) PROVE OwnFinal(queue[t], t) \/ OwnFinal(es, t)
    BY <1>1, <2>1, <2>8, OwnFinalConcat, SMTT(30)
  <2>9. ASSUME OwnFinal(heard'[t], t) PROVE OwnFinal(heard[t], t) \/ OwnFinal(es, t)
    BY <1>1, <2>1, <2>9, OwnFinalConcat, ZenonT(30)
  <2>10. run[t] \in RunEnds => run'[t] = run[t]
    BY <2>2
  <2>11. Ending(t)'
    <3>1. SUFFICES ASSUME gen[t] \in InCleanup \cup {"closed"}, cuts[t] = 0, ~ EndsFinal(sent[t])
                   PROVE  run'[t] = "finished" /\ ~ OwnFinal(heard'[t], t)
      BY <2>1 DEF Ending, EndsFinal
    <3>2. run[t] = "finished" /\ ~ OwnFinal(heard[t], t)
      BY <2>1, <3>1 DEF Ending
    <3>3. ~ OwnFinal(es, t)
      BY <2>7, <3>2
    <3> QED BY <2>9, <2>10, <3>2, <3>3 DEF RunEnds
  <2>12. Own(t)'
    <3>1. OwnFinal(queue'[t], t) \/ OwnFinal(sent'[t], t) => run'[t] \in RunEnds
      BY <2>1, <2>7, <2>8, <2>10 DEF Own
    <3>2. Unique(t)' => Unique(t)
      BY <2>1 DEF Unique
    <3>3. ASSUME Unique(t), NEW k \in DOMAIN queue'[t] PROVE queue'[t][k].of = t
      <4>1. CASE t \in subscribers[cid[s]]
        <5>1. queue'[t] = queue[t] \o es /\ t = s
          BY <1>1, <2>6, <3>3, <4>1
        <5>2. \/ k \in DOMAIN queue[t] /\ queue'[t][k] = queue[t][k]
              \/ \E j \in DOMAIN es : queue'[t][k] = es[j]
          BY <2>1, <5>1, ConcatEvents
        <5> QED BY <2>1, <3>3, <5>1, <5>2 DEF Own
      <4>2. CASE t \notin subscribers[cid[s]]
        BY <1>1, <2>1, <3>3, <4>2 DEF Own
      <4> QED BY <4>1, <4>2
    <3>4. run'[t] \in {"cancelling", "cancelled"} => run[t] \in {"cancelling", "cancelled"}
      BY <2>2
    <3>5. ASSUME Unique(t)
          PROVE  /\ \A k \in DOMAIN sent'[t] : sent'[t][k].of = t
                 /\ run'[t] \in {"cancelling", "cancelled"} => cuts'[t] > 0
      BY <2>1, <3>4, <3>5 DEF Own
    <3> QED BY <3>1, <3>2, <3>3, <3>5 DEF Own, OwnFinal
  <2> QED BY <2>3, <2>4, <2>5, <2>11, <2>12
<1> QED BY <1>2, <1>3

-----------------------------------------------------------------------------
(* Steps of one stream.                                                    *)

\* The step changes nothing of the other streams.
OnlyStream(s) ==
  /\ cid' = cid
  /\ \A t \in Streams \ {s} :
       /\ gen'[t] = gen[t] /\ run'[t] = run[t] /\ hb'[t] = hb[t] /\ sent'[t] = sent[t]
       /\ cuts'[t] = cuts[t] /\ lateCut'[t] = lateCut[t]
       /\ queue'[t] = queue[t] /\ heard'[t] = heard[t]
       /\ \A i \in Ids : t \in subscribers'[i] <=> t \in subscribers[i]

LEMMA OneStream ==
  ASSUME IInv, NEW s \in Streams, TypeOK', OnlyStream(s), StreamInv(s)'
  PROVE  IInv'
<1>1. ASSUME NEW t \in Streams, t # s PROVE StreamInv(t)'
  <2>1. StreamInv(t) /\ cid[t] \in Ids
    BY DEF IInv, TypeOK
  <2>2. /\ cid' = cid /\ gen'[t] = gen[t] /\ run'[t] = run[t] /\ hb'[t] = hb[t]
        /\ sent'[t] = sent[t] /\ cuts'[t] = cuts[t] /\ lateCut'[t] = lateCut[t]
        /\ queue'[t] = queue[t] /\ heard'[t] = heard[t]
        /\ \A i \in Ids : t \in subscribers'[i] <=> t \in subscribers[i]
    BY <1>1 DEF OnlyStream
  <2> QED BY <2>1, <2>2, Frame
<1> QED BY <1>1 DEF IInv

\* The parts of the invariant that are left alone by a step that leaves the
\* events and the generator of its stream alone.
LEMMA TaskStepKeepsIInv ==
  ASSUME IInv, NEW s \in Streams, UNCHANGED <<subscribers, queue, heard, cid, gen, beats, sent, cuts, lateCut>>,
         run' \in [Streams -> RunStates], hb' \in [Streams -> HbStates],
         \A t \in Streams \ {s} : run'[t] = run[t] /\ hb'[t] = hb[t],
         run'[s] = run[s] \/ run[s] \notin RunEnds,
         run'[s] \in {"cancelling", "cancelled"} => run[s] \in {"cancelling", "cancelled"},
         Phase(s)'
  PROVE  IInv'
<1>1. TypeOK' /\ OnlyStream(s)
  BY DEF IInv, TypeOK, OnlyStream
<1>2. OnBus(s)' /\ Order(s)'
  BY DEF IInv, StreamInv, OnBus, Order, NoFinal, EndsFinal
<1>3. Ending(s)'
  BY DEF IInv, StreamInv, Ending, EndsFinal, OwnFinal, RunEnds
<1>4. Own(s)'
  <2>1. Own(s)
    BY DEF IInv, StreamInv
  <2>2. run[s] \in RunEnds => run'[s] \in RunEnds
    OBVIOUS
  <2> QED BY <2>1, <2>2 DEF Own, OwnFinal, Unique
<1> QED BY <1>1, <1>2, <1>3, <1>4, OneStream DEF StreamInv

LEMMA RunStepKeepsIInv ==
  ASSUME IInv, NEW s \in Streams, RunStep(s)
  PROVE  IInv'
<1> USE DEF RunEnds, RunStates, HbStates
<1>1. Phase(s) /\ gen \in [Streams -> GenStates] /\ run \in [Streams -> RunStates]
      /\ hb \in [Streams -> HbStates] /\ beats \in 0..MaxHeartbeats
      /\ subscribers \in [Ids -> SUBSET Streams]
  BY DEF IInv, StreamInv, TypeOK
<1>2. CASE RunReachesDatabase(s)
  <2> DEFINE es == <<Ev("started", s)>>
  <2>1. es \in Seq(Event) /\ DOMAIN es = {1} /\ es[1] = Ev("started", s)
    BY EventParts DEF Kinds
  <2>2. NoFinal(es) /\ \A k \in DOMAIN es : es[k].of = s
    BY <2>1, EventParts DEF NoFinal, Terminal
  <2>3. Phase(s)'
    BY <1>1, <1>2 DEF RunReachesDatabase, Publish, Phase, InCleanup
  <2>4. /\ Publish(cid[s], es) /\ UNCHANGED <<cid, gen, sent, cuts, lateCut, beats>>
        /\ run' \in [Streams -> RunStates] /\ hb' \in [Streams -> HbStates]
        /\ run[s] = "ready" /\ run'[s] = "executing"
        /\ \A t \in Streams \ {s} : run'[t] = run[t] /\ hb'[t] = hb[t]
    BY <1>1, <1>2 DEF RunReachesDatabase
  <2> HIDE DEF es
  <2> QED BY <1>1, <2>1, <2>2, <2>3, <2>4, PublishKeepsIInv
<1>3. CASE RunEndsEarly(s)
  <2> DEFINE es == <<Ev("started", s), Ev("final", s)>>
  <2>1. es \in Seq(Event) /\ DOMAIN es = {1, 2} /\ es[1] = Ev("started", s) /\ es[2] = Ev("final", s)
    BY EventParts DEF Kinds
  <2>2. \A k \in DOMAIN es : es[k].of = s
    BY <2>1, EventParts
  <2>3. Phase(s)'
    BY <1>1, <1>3 DEF RunEndsEarly, Publish, Phase, InCleanup
  <2>4. /\ Publish(cid[s], es) /\ UNCHANGED <<cid, gen, sent, cuts, lateCut, beats>>
        /\ run' \in [Streams -> RunStates] /\ hb' \in [Streams -> HbStates]
        /\ run[s] = "ready" /\ run'[s] = "finished"
        /\ \A t \in Streams \ {s} : run'[t] = run[t] /\ hb'[t] = hb[t]
    BY <1>1, <1>3 DEF RunEndsEarly
  <2> HIDE DEF es
  <2> QED BY <1>1, <2>1, <2>2, <2>3, <2>4, PublishKeepsIInv
<1>4. CASE RunEndsFinal(s)
  <2> DEFINE es == <<Ev("final", s)>>
  <2>1. es \in Seq(Event) /\ DOMAIN es = {1} /\ es[1] = Ev("final", s)
    BY EventParts DEF Kinds
  <2>2. \A k \in DOMAIN es : es[k].of = s
    BY <2>1, EventParts
  <2>3. Phase(s)'
    BY <1>1, <1>4 DEF RunEndsFinal, Publish, Phase, InCleanup
  <2>4. /\ Publish(cid[s], es) /\ UNCHANGED <<cid, gen, sent, cuts, lateCut, beats, hb>>
        /\ run' \in [Streams -> RunStates]
        /\ run[s] = "executing" /\ run'[s] = "finished"
        /\ \A t \in Streams \ {s} : run'[t] = run[t]
    BY <1>1, <1>4 DEF RunEndsFinal
  <2> HIDE DEF es
  <2> QED BY <1>1, <2>1, <2>2, <2>3, <2>4, PublishKeepsIInv
<1>5. ASSUME NEW end \in {"raised", "finished"}, RunEndsMute(s, end) PROVE IInv'
  <2>1. Phase(s)'
    BY <1>1, <1>5 DEF RunEndsMute, Phase, InCleanup
  <2> QED BY <1>1, <1>5, <2>1, TaskStepKeepsIInv DEF RunEndsMute
<1>6. CASE RunCancelled(s)
  <2>1. Phase(s)'
    BY <1>1, <1>6 DEF RunCancelled, Phase, InCleanup
  <2> QED BY <1>1, <1>6, <2>1, TaskStepKeepsIInv DEF RunCancelled
<1> QED BY <1>2, <1>3, <1>4, <1>5, <1>6 DEF RunStep

LEMMA HeartbeatKeepsIInv ==
  ASSUME IInv, NEW s \in Streams, HeartbeatFires(s) \/ HeartbeatEnds(s)
  PROVE  IInv'
<1> USE DEF RunEnds, RunStates, HbStates
<1>1. Phase(s) /\ gen \in [Streams -> GenStates] /\ run \in [Streams -> RunStates]
      /\ hb \in [Streams -> HbStates] /\ beats \in 0..MaxHeartbeats /\ MaxHeartbeats \in Nat
  BY StreamingAssumption DEF IInv, StreamInv, TypeOK
<1>2. CASE HeartbeatFires(s)
  <2> DEFINE es == <<Ev("heartbeat", s)>>
  <2>1. es \in Seq(Event) /\ DOMAIN es = {1} /\ es[1] = Ev("heartbeat", s)
    BY EventParts DEF Kinds
  <2>2. NoFinal(es) /\ \A k \in DOMAIN es : es[k].of = s
    BY <2>1, EventParts DEF NoFinal, Terminal
  <2>3. Phase(s)'
    <3>1. gen[s] \in {"waiting", "yielded"} /\ run[s] # "ready"
      BY <1>1, <1>2 DEF HeartbeatFires, Phase, GenStates, InCleanup
    <3> QED BY <1>1, <1>2, <3>1 DEF HeartbeatFires, Phase, InCleanup
  <2>4. /\ Publish(cid[s], es) /\ UNCHANGED <<cid, gen, sent, cuts, lateCut, run>>
        /\ hb' \in [Streams -> HbStates] /\ \A t \in Streams \ {s} : hb'[t] = hb[t]
    BY <1>1, <1>2 DEF HeartbeatFires
  <2>5. beats' \in 0..MaxHeartbeats
    BY <1>1, <1>2 DEF HeartbeatFires
  <2> HIDE DEF es
  <2> QED BY <1>1, <2>1, <2>2, <2>3, <2>4, <2>5, PublishKeepsIInv
<1>3. CASE HeartbeatEnds(s)
  <2>1. Phase(s)'
    BY <1>1, <1>3 DEF HeartbeatEnds, Phase, InCleanup
  <2> QED BY <1>1, <1>3, <2>1, TaskStepKeepsIInv DEF HeartbeatEnds
<1> QED BY <1>2, <1>3

\* Entering the `finally` keeps the tasks in step with the generator.
LEMMA EnterCleanupPhase ==
  ASSUME IInv, NEW s \in Streams, NEW how \in InCleanup, EnterCleanup(s, how),
         gen[s] \in {"waiting", "yielded"}
  PROVE  /\ gen' \in [Streams -> GenStates] /\ run' \in [Streams -> RunStates]
         /\ hb' \in [Streams -> HbStates] /\ gen'[s] = how
         /\ run[s] \in RunEnds => run'[s] = run[s]
         /\ \A t \in Streams \ {s} : gen'[t] = gen[t] /\ run'[t] = run[t] /\ hb'[t] = hb[t]
         /\ Phase(s)'
<1> USE DEF RunEnds, RunStates, HbStates, GenStates, InCleanup
<1>1. gen \in [Streams -> GenStates] /\ run \in [Streams -> RunStates] /\ hb \in [Streams -> HbStates]
  BY DEF IInv, TypeOK
<1>2. /\ gen' \in [Streams -> GenStates] /\ run' \in [Streams -> RunStates]
      /\ hb' \in [Streams -> HbStates] /\ gen'[s] = how
      /\ run[s] \in RunEnds => run'[s] = run[s]
      /\ run'[s] \in RunEnds \cup {"cancelling"} /\ hb'[s] \in {"cancelling", "done"}
      /\ \A t \in Streams \ {s} : gen'[t] = gen[t] /\ run'[t] = run[t] /\ hb'[t] = hb[t]
  BY <1>1 DEF EnterCleanup
<1>3. Phase(s)'
  BY <1>2 DEF Phase
<1> QED BY <1>2, <1>3

LEMMA OpenKeepsIInv ==
  ASSUME IInv, NEW s \in Streams, Open(s)
  PROVE  IInv'
<1>1. TypeOK
  BY DEF IInv
<1>2. /\ Phase(s) /\ OnBus(s) /\ Order(s) /\ Own(s) /\ Ending(s)
      /\ gen[s] = "idle" /\ sent[s] = <<>> /\ queue[s] = <<>> /\ heard[s] = <<>>
  BY DEF IInv, StreamInv, Open, Phase
<1>3. /\ gen'[s] = "waiting" /\ run'[s] = "ready" /\ hb'[s] = "ready" /\ sent' = sent /\ queue' = queue
      /\ heard' = heard /\ cid' = cid /\ cuts' = cuts /\ lateCut' = lateCut
      /\ subscribers' = [subscribers EXCEPT ![cid[s]] = @ \cup {s}]
      /\ cid[s] \in Ids
  BY <1>1 DEF Open, Subscribe, TypeOK
<1>4. TypeOK' /\ OnlyStream(s)
  BY <1>1 DEF Open, Subscribe, TypeOK, OnlyStream, GenStates, RunStates, HbStates
<1>5. Phase(s)'
  BY <1>3 DEF Phase, InCleanup, RunEnds
<1>6. OnBus(s)'
  BY <1>1, <1>2, <1>3 DEF OnBus, TypeOK
<1>7. Order(s)'
  <2>1. <<>> \o <<>> = <<>>
    BY ConcatEmptySeq, EmptySeq
  <2>2. DOMAIN <<>> = {}
    OBVIOUS
  <2> QED BY <1>2, <1>3, <2>1, <2>2 DEF Order, NoFinal
<1>8. Ending(s)'
  BY <1>3 DEF Ending, InCleanup
<1>9. Own(s)'
  BY <1>2, <1>3 DEF Own, OwnFinal
<1> QED BY <1>4, <1>5, <1>6, <1>7, <1>8, <1>9, OneStream DEF StreamInv

LEMMA DeliverKeepsIInv ==
  ASSUME IInv, NEW s \in Streams, Deliver(s)
  PROVE  IInv'
<1> DEFINE e == Head(queue[s])
<1>1. TypeOK /\ sent[s] \in Seq(Event) /\ queue[s] \in Seq(Event) /\ queue[s] # <<>>
  BY DEF IInv, TypeOK, Deliver, Take
<1>2. Phase(s) /\ OnBus(s) /\ Order(s) /\ Own(s) /\ gen[s] = "waiting" /\ run[s] # "ready"
  BY DEF IInv, StreamInv, Deliver
<1>3. /\ e \in Event /\ Tail(queue[s]) \in Seq(Event)
      /\ \E j \in DOMAIN queue[s] : e = queue[s][j]
      /\ \A k \in DOMAIN Tail(queue[s]) : \E j \in DOMAIN queue[s] : Tail(queue[s])[k] = queue[s][j]
      /\ Append(sent[s], e) \o Tail(queue[s]) = sent[s] \o queue[s]
  BY <1>1, TakeEvent
<1>4. /\ Append(sent[s], e) \in Seq(Event) /\ Append(sent[s], e) # <<>>
      /\ Len(Append(sent[s], e)) = Len(sent[s]) + 1
      /\ \A k \in DOMAIN Append(sent[s], e) :
           \/ k \in DOMAIN sent[s] /\ k # Len(sent[s]) + 1 /\ Append(sent[s], e)[k] = sent[s][k]
           \/ k = Len(sent[s]) + 1 /\ Append(sent[s], e)[k] = e
  BY <1>1, <1>3, AppendEvent
<1>5. /\ gen'[s] = "yielded" /\ run' = run /\ hb' = hb /\ cid' = cid /\ cuts' = cuts
      /\ lateCut' = lateCut /\ heard' = heard /\ subscribers' = subscribers
      /\ sent'[s] = Append(sent[s], e) /\ queue'[s] = Tail(queue[s])
  BY <1>1 DEF Deliver, Take, TypeOK
<1>6. TypeOK' /\ OnlyStream(s)
  <2>1. sent' \in [Streams -> Seq(Event)] /\ queue' \in [Streams -> Seq(Event)]
    BY <1>1, <1>3, <1>4 DEF Deliver, Take, TypeOK
  <2>2. gen' \in [Streams -> GenStates]
    BY <1>1 DEF Deliver, TypeOK, GenStates
  <2>3. \A t \in Streams \ {s} : gen'[t] = gen[t] /\ sent'[t] = sent[t] /\ queue'[t] = queue[t]
    BY <1>1 DEF Deliver, Take, TypeOK
  <2> QED BY <1>1, <1>5, <2>1, <2>2, <2>3 DEF Deliver, Take, TypeOK, OnlyStream
<1>7. sent[s] \o queue[s] = heard[s] /\ NoFinal(sent[s])
  BY <1>2 DEF Order
<1> HIDE DEF e
<1>8. Phase(s)'
  BY <1>2, <1>5 DEF Phase, InCleanup
<1>9. OnBus(s)'
  BY <1>2, <1>5 DEF OnBus
<1>10. Order(s)'
  <2>1. sent'[s] \o queue'[s] = heard'[s]
    BY <1>3, <1>5, <1>7, Zenon
  <2>2. \A k \in DOMAIN sent'[s] : Terminal(sent'[s][k]) => k = Len(sent'[s])
    BY <1>4, <1>5, <1>7 DEF NoFinal
  <2> QED BY <1>4, <1>5, <2>1, <2>2 DEF Order
<1>11. Ending(s)'
  BY <1>5 DEF Ending, InCleanup
<1>12. Own(s)'
  <2>1. OwnFinal(queue'[s], s) => OwnFinal(queue[s], s)
    BY <1>3, <1>5 DEF OwnFinal
  <2>2. OwnFinal(sent'[s], s) => OwnFinal(sent[s], s) \/ OwnFinal(queue[s], s)
    BY <1>3, <1>4, <1>5 DEF OwnFinal
  <2>3. Unique(s)' => Unique(s)
    BY <1>5 DEF Unique
  <2>4. ASSUME Unique(s)
        PROVE  /\ \A k \in DOMAIN queue'[s] : queue'[s][k].of = s
               /\ \A k \in DOMAIN sent'[s] : sent'[s][k].of = s
    BY <1>2, <1>3, <1>4, <1>5, <2>4 DEF Own
  <2> QED BY <1>2, <1>5, <2>1, <2>2, <2>3, <2>4 DEF Own, OwnFinal
<1> QED BY <1>6, <1>8, <1>9, <1>10, <1>11, <1>12, OneStream DEF StreamInv

LEMMA ResumeKeepsIInv ==
  ASSUME IInv, NEW s \in Streams, Resume(s)
  PROVE  IInv'
<1>1. TypeOK /\ sent[s] \in Seq(Event)
  BY DEF IInv, TypeOK
<1>2. Phase(s) /\ OnBus(s) /\ Order(s) /\ Own(s) /\ gen[s] = "yielded" /\ sent[s] # <<>>
  BY DEF IInv, StreamInv, Resume, Order
<1>3. Len(sent[s]) \in DOMAIN sent[s]
  BY <1>1, <1>2, EmptySeq, LenProperties
<1>4. /\ cid' = cid /\ cuts' = cuts /\ lateCut' = lateCut /\ heard' = heard /\ queue' = queue
      /\ sent' = sent /\ subscribers' = subscribers /\ beats' = beats
  BY DEF Resume
<1>5. CASE Terminal(sent[s][Len(sent[s])])
  <2>1. EnterCleanup(s, "closing")
    BY <1>5 DEF Resume
  <2>2. /\ gen' \in [Streams -> GenStates] /\ run' \in [Streams -> RunStates]
        /\ hb' \in [Streams -> HbStates] /\ gen'[s] = "closing"
        /\ run[s] \in RunEnds => run'[s] = run[s]
        /\ \A t \in Streams \ {s} : gen'[t] = gen[t] /\ run'[t] = run[t] /\ hb'[t] = hb[t]
        /\ Phase(s)'
    BY <1>2, <2>1, EnterCleanupPhase DEF InCleanup
  <2>3. TypeOK' /\ OnlyStream(s)
    BY <1>1, <1>4, <2>2 DEF TypeOK, OnlyStream
  <2>4. OnBus(s)' /\ Order(s)'
    BY <1>2, <1>4, <2>2 DEF OnBus, Order
  <2>5. Ending(s)'
    BY <1>2, <1>4, <1>5 DEF Ending, EndsFinal
  <2>6. Own(s)'
    <3>1. Unique(s) => run[s] \in RunEnds
      BY <1>2, <1>3, <1>5 DEF Own, OwnFinal
    <3>2. run[s] \notin {"cancelling", "cancelled"}
      BY <1>2 DEF Phase
    <3> QED BY <1>2, <1>4, <2>2, <3>1, <3>2 DEF Own, OwnFinal, Unique
  <2> QED BY <2>2, <2>3, <2>4, <2>5, <2>6, OneStream DEF StreamInv
<1>6. CASE ~ Terminal(sent[s][Len(sent[s])])
  <2>1. /\ gen' = [gen EXCEPT ![s] = "waiting"] /\ run' = run /\ hb' = hb
        /\ gen'[s] = "waiting"
    BY <1>1, <1>6 DEF Resume, TypeOK
  <2>2. TypeOK' /\ OnlyStream(s)
    BY <1>1, <1>4, <2>1 DEF TypeOK, OnlyStream, GenStates
  <2>3. Phase(s)' /\ OnBus(s)' /\ Ending(s)'
    BY <1>2, <1>4, <2>1 DEF Phase, OnBus, Ending, InCleanup
  <2>4. Order(s)'
    <3>1. NoFinal(sent[s]) /\ sent[s] \o queue[s] = heard[s]
      BY <1>2, <1>6 DEF Order, NoFinal, EndsFinal
    <3> QED BY <1>2, <1>4, <2>1, <3>1 DEF Order, NoFinal
  <2>5. Own(s)'
    BY <1>2, <1>4, <2>1 DEF Own, OwnFinal, Unique
  <2> QED BY <2>2, <2>3, <2>4, <2>5, OneStream DEF StreamInv
<1> QED BY <1>5, <1>6

LEMMA DefensiveYieldKeepsIInv ==
  ASSUME IInv, NEW s \in Streams, DefensiveYield(s)
  PROVE  IInv'
<1> DEFINE e == Ev("final", s)
<1>1. TypeOK /\ sent[s] \in Seq(Event)
  BY DEF IInv, TypeOK
<1>2. Phase(s) /\ OnBus(s) /\ Order(s) /\ Own(s) /\ gen[s] = "waiting" /\ run[s] = "raised"
  BY DEF IInv, StreamInv, DefensiveYield
<1>3. e \in Event /\ e.of = s /\ Terminal(e)
  BY EventParts DEF Kinds, Terminal
<1>4. /\ Append(sent[s], e) \in Seq(Event) /\ Append(sent[s], e) # <<>>
      /\ Len(Append(sent[s], e)) = Len(sent[s]) + 1 /\ Append(sent[s], e)[Len(sent[s]) + 1] = e
      /\ \A k \in DOMAIN Append(sent[s], e) :
           \/ k \in DOMAIN sent[s] /\ k # Len(sent[s]) + 1 /\ Append(sent[s], e)[k] = sent[s][k]
           \/ k = Len(sent[s]) + 1 /\ Append(sent[s], e)[k] = e
  BY <1>1, <1>3, AppendEvent
<1>5. /\ gen'[s] = "yielded" /\ run' = run /\ hb' = hb /\ cid' = cid /\ cuts' = cuts
      /\ lateCut' = lateCut /\ heard' = heard /\ subscribers' = subscribers
      /\ sent'[s] = Append(sent[s], e) /\ queue' = queue
  BY <1>1 DEF DefensiveYield, TypeOK
<1>6. TypeOK' /\ OnlyStream(s)
  <2>1. sent' \in [Streams -> Seq(Event)] /\ gen' \in [Streams -> GenStates]
    BY <1>1, <1>4 DEF DefensiveYield, TypeOK, GenStates
  <2>2. \A t \in Streams \ {s} : gen'[t] = gen[t] /\ sent'[t] = sent[t]
    BY <1>1 DEF DefensiveYield, TypeOK
  <2> QED BY <1>1, <1>5, <2>1, <2>2 DEF DefensiveYield, TypeOK, OnlyStream
<1>7. NoFinal(sent[s])
  BY <1>2 DEF Order
<1> HIDE DEF e
<1>8. Phase(s)' /\ OnBus(s)' /\ Ending(s)'
  BY <1>2, <1>5 DEF Phase, OnBus, Ending, InCleanup
<1>9. Order(s)'
  <2>1. EndsFinal(sent'[s])
    BY <1>3, <1>4, <1>5 DEF EndsFinal
  <2>2. \A k \in DOMAIN sent'[s] : Terminal(sent'[s][k]) => k = Len(sent'[s])
    BY <1>4, <1>5, <1>7 DEF NoFinal
  <2> QED BY <1>5, <2>1, <2>2 DEF Order, EndsFinal
<1>10. Own(s)'
  <2>1. run'[s] \in RunEnds /\ run'[s] \notin {"cancelling", "cancelled"}
    BY <1>2, <1>5 DEF RunEnds
  <2>2. Unique(s)' => Unique(s)
    BY <1>5 DEF Unique
  <2>3. ASSUME Unique(s)
        PROVE  /\ \A k \in DOMAIN queue'[s] : queue'[s][k].of = s
               /\ \A k \in DOMAIN sent'[s] : sent'[s][k].of = s
    BY <1>2, <1>3, <1>4, <1>5, <2>3 DEF Own
  <2> QED BY <2>1, <2>2, <2>3 DEF Own
<1> QED BY <1>6, <1>8, <1>9, <1>10, OneStream DEF StreamInv

LEMMA DefensiveReturnKeepsIInv ==
  ASSUME IInv, NEW s \in Streams, DefensiveReturn(s)
  PROVE  IInv'
<1>1. TypeOK /\ sent[s] \in Seq(Event)
  BY DEF IInv, TypeOK
<1>2. /\ Phase(s) /\ OnBus(s) /\ Order(s) /\ Own(s) /\ gen[s] = "waiting" /\ queue[s] = <<>>
      /\ run[s] = "finished"
  BY DEF IInv, StreamInv, DefensiveReturn, Phase
<1>3. /\ cid' = cid /\ cuts' = cuts /\ lateCut' = lateCut /\ heard' = heard /\ queue' = queue
      /\ sent' = sent /\ subscribers' = subscribers /\ beats' = beats /\ EnterCleanup(s, "closing")
  BY DEF DefensiveReturn
<1>4. /\ gen' \in [Streams -> GenStates] /\ run' \in [Streams -> RunStates]
      /\ hb' \in [Streams -> HbStates] /\ gen'[s] = "closing" /\ run'[s] = "finished"
      /\ \A t \in Streams \ {s} : gen'[t] = gen[t] /\ run'[t] = run[t] /\ hb'[t] = hb[t]
      /\ Phase(s)'
  BY <1>2, <1>3, EnterCleanupPhase DEF InCleanup, RunEnds
<1>5. TypeOK' /\ OnlyStream(s)
  BY <1>1, <1>3, <1>4 DEF TypeOK, OnlyStream
<1>6. OnBus(s)' /\ Order(s)'
  BY <1>2, <1>3, <1>4 DEF OnBus, Order
<1>7. Ending(s)'
  <2>1. sent[s] \o <<>> = sent[s]
    BY <1>1, ConcatEmptySeq
  <2>2. heard[s] = sent[s] /\ NoFinal(sent[s])
    BY <1>2, <2>1 DEF Order
  <2>3. ~ OwnFinal(heard[s], s)
    BY <2>2 DEF OwnFinal, NoFinal
  <2> QED BY <1>3, <1>4, <2>3 DEF Ending, OwnFinal
<1>8. Own(s)'
  BY <1>2, <1>3, <1>4 DEF Own, OwnFinal, Unique, RunEnds
<1> QED BY <1>4, <1>5, <1>6, <1>7, <1>8, OneStream DEF StreamInv

LEMMA CutKeepsIInv ==
  ASSUME IInv, NEW s \in Streams, Cut(s)
  PROVE  IInv'
<1>1. TypeOK /\ cuts[s] \in 0..MaxCuts /\ MaxCuts \in Nat
  BY StreamingAssumption DEF IInv, TypeOK
<1>2. Phase(s) /\ OnBus(s) /\ Order(s) /\ Own(s)
  BY DEF IInv, StreamInv
<1>3. /\ cid' = cid /\ heard' = heard /\ queue' = queue
      /\ sent' = sent /\ subscribers' = subscribers /\ beats' = beats
  BY DEF Cut
<1>4. /\ cuts' \in [Streams -> 0..MaxCuts] /\ cuts'[s] > 0
      /\ \A t \in Streams \ {s} : cuts'[t] = cuts[t]
  BY <1>1 DEF Cut, TypeOK
<1>5. /\ Ending(s)'
  BY <1>1, <1>4 DEF Ending
<1>6. CASE gen[s] \in {"waiting", "yielded"}
  <2>1. PICK how \in {"closing", "detached"} : EnterCleanup(s, how) /\ lateCut' = lateCut
    BY <1>6 DEF Cut
  <2>2. /\ gen' \in [Streams -> GenStates] /\ run' \in [Streams -> RunStates]
        /\ hb' \in [Streams -> HbStates] /\ gen'[s] = how
        /\ run[s] \in RunEnds => run'[s] = run[s]
        /\ \A t \in Streams \ {s} : gen'[t] = gen[t] /\ run'[t] = run[t] /\ hb'[t] = hb[t]
        /\ Phase(s)'
    BY <1>6, <2>1, EnterCleanupPhase DEF InCleanup
  <2>3. TypeOK' /\ OnlyStream(s)
    BY <1>1, <1>3, <1>4, <2>1, <2>2 DEF TypeOK, OnlyStream
  <2>4. OnBus(s)' /\ Order(s)'
    BY <1>2, <1>3, <1>6, <2>1, <2>2 DEF OnBus, Order
  <2>5. Own(s)'
    BY <1>2, <1>3, <1>4, <2>2 DEF Own, OwnFinal, Unique
  <2> QED BY <1>5, <2>2, <2>3, <2>4, <2>5, OneStream DEF StreamInv
<1>7. CASE gen[s] = "closing"
  <2>1. /\ gen' = [gen EXCEPT ![s] = "aborted"] /\ lateCut' = [lateCut EXCEPT ![s] = TRUE]
        /\ run' = run /\ hb' = hb
    BY <1>7 DEF Cut
  <2>2. gen'[s] = "aborted" /\ lateCut'[s]
    BY <1>1, <2>1 DEF TypeOK
  <2>3. TypeOK' /\ OnlyStream(s)
    BY <1>1, <1>3, <1>4, <2>1 DEF TypeOK, OnlyStream, GenStates
  <2>4. Phase(s)'
    BY <1>2, <1>3, <1>7, <2>1, <2>2 DEF Phase, InCleanup
  <2>5. OnBus(s)' /\ Order(s)'
    BY <1>2, <1>3, <1>7, <2>2 DEF OnBus, Order
  <2>6. Own(s)'
    BY <1>2, <1>3, <1>4, <2>1 DEF Own, OwnFinal, Unique
  <2> QED BY <1>5, <2>3, <2>4, <2>5, <2>6, OneStream DEF StreamInv
<1> QED BY <1>6, <1>7 DEF Cut

LEMMA CleanupKeepsIInv ==
  ASSUME IInv, NEW s \in Streams, CleanupEnds(s) \/ CleanupAborts(s)
  PROVE  IInv'
<1>1. TypeOK
  BY DEF IInv
<1>2. Phase(s) /\ OnBus(s) /\ Order(s) /\ Ending(s) /\ Own(s)
  BY DEF IInv, StreamInv
<1>3. /\ cid' = cid /\ heard' = heard /\ sent' = sent /\ beats' = beats /\ cuts' = cuts
      /\ lateCut' = lateCut /\ run' = run /\ hb' = hb
      /\ gen' = [gen EXCEPT ![s] = "closed"] /\ gen'[s] = "closed"
      /\ gen[s] \in InCleanup /\ run[s] \in RunEnds /\ hb[s] = "done"
  BY <1>1 DEF CleanupEnds, CleanupAborts, Unsubscribe, TasksDone, TypeOK, InCleanup
<1>4. Phase(s)'
  BY <1>3 DEF Phase, InCleanup, RunEnds
<1>5. Order(s)' /\ Ending(s)'
  BY <1>2, <1>3 DEF Order, Ending, EndsFinal, OwnFinal
<1>6. /\ gen' \in [Streams -> GenStates]
      /\ \A t \in Streams \ {s} : gen'[t] = gen[t]
  BY <1>1, <1>3 DEF TypeOK, GenStates
<1>7. CASE CleanupEnds(s)
  <2>1. /\ subscribers' = [subscribers EXCEPT ![cid[s]] = @ \ {s}]
        /\ queue' = [queue EXCEPT ![s] = <<>>] /\ queue'[s] = <<>>
    BY <1>1, <1>7 DEF CleanupEnds, Unsubscribe, TypeOK
  <2>2. <<>> \in Seq(Event)
    BY EmptySeq
  <2>3. TypeOK' /\ OnlyStream(s)
    BY <1>1, <1>3, <1>6, <2>1, <2>2 DEF TypeOK, OnlyStream
  <2>4. OnBus(s)'
    BY <1>1, <1>2, <1>3, <2>1 DEF OnBus, TypeOK
  <2>5. Own(s)'
    BY <1>2, <1>3, <2>1 DEF Own, OwnFinal, Unique
  <2> QED BY <1>4, <1>5, <2>3, <2>4, <2>5, OneStream DEF StreamInv
<1>8. CASE CleanupAborts(s)
  <2>1. subscribers' = subscribers /\ queue' = queue /\ gen[s] = "aborted"
    BY <1>8 DEF CleanupAborts
  <2>2. TypeOK' /\ OnlyStream(s)
    BY <1>1, <1>3, <1>6, <2>1 DEF TypeOK, OnlyStream
  <2>3. OnBus(s)'
    BY <1>2, <1>3, <2>1 DEF OnBus
  <2>4. Own(s)'
    BY <1>2, <1>3, <2>1 DEF Own, OwnFinal, Unique
  <2> QED BY <1>4, <1>5, <2>2, <2>3, <2>4, OneStream DEF StreamInv
<1> QED BY <1>7, <1>8

-----------------------------------------------------------------------------
(* The theorems.                                                           *)

LEMMA InitIInv == Init => IInv
<1> SUFFICES ASSUME Init PROVE IInv
  OBVIOUS
<1>1. <<>> \in Seq(Event) /\ DOMAIN <<>> = {}
  BY EmptySeq
<1>2. TypeOK
  BY <1>1, StreamingAssumption DEF Init, BusInit, TypeOK, GenStates, RunStates, HbStates
<1>3. ASSUME NEW s \in Streams PROVE StreamInv(s)
  <2>1. /\ gen[s] = "idle" /\ run[s] = "none" /\ hb[s] = "none" /\ sent[s] = <<>>
        /\ queue[s] = <<>> /\ heard[s] = <<>> /\ \A i \in Ids : s \notin subscribers[i]
    BY DEF Init, BusInit
  <2>2. Phase(s) /\ OnBus(s)
    BY <2>1 DEF Phase, OnBus, InCleanup
  <2>3. Order(s) /\ Ending(s) /\ Own(s)
    BY <1>1, <2>1 DEF Order, Ending, Own, OwnFinal, InCleanup
  <2> QED BY <2>2, <2>3 DEF StreamInv
<1> QED BY <1>2, <1>3 DEF IInv

LEMMA NextKeepsIInv == IInv /\ [Next]_vars => IInv'
<1> SUFFICES ASSUME IInv, [Next]_vars PROVE IInv'
  OBVIOUS
<1>1. ASSUME NEW s \in Streams, ConsumerStep(s) PROVE IInv'
  BY <1>1, DeliverKeepsIInv, ResumeKeepsIInv, DefensiveYieldKeepsIInv, DefensiveReturnKeepsIInv,
     CleanupKeepsIInv DEF ConsumerStep
<1>2. CASE Next
  BY <1>1, <1>2, OpenKeepsIInv, RunStepKeepsIInv, HeartbeatKeepsIInv, CutKeepsIInv DEF Next
<1>3. CASE UNCHANGED vars
  <2>1. TypeOK'
    BY <1>3 DEF vars, IInv, TypeOK
  <2>2. ASSUME NEW s \in Streams PROVE StreamInv(s)'
    <3>1. StreamInv(s) /\ cid[s] \in Ids
      BY DEF IInv, TypeOK
    <3> QED BY <1>3, <3>1, Frame DEF vars
  <2> QED BY <2>1, <2>2 DEF IInv
<1> QED BY <1>2, <1>3

\* The inductive invariant holds of every number of concurrent streams.
THEOREM Invariance == Spec => []IInv
  BY InitIInv, NextKeepsIInv, PTL DEF Spec

\* No closed stream leaves a task behind, nor, unless its clean-up itself was
\* cancelled, a subscription; an open one can always be unsubscribed
\* (stream_pipeline_events, its `finally`).
THEOREM StreamsCloseCleanly == Spec => []CleanClose
<1>1. IInv => CleanClose
  BY DEF IInv, StreamInv, Phase, OnBus, CleanClose
<1> QED BY Invariance, <1>1, PTL

\* The queue between bus and client loses, doubles and reorders nothing
\* (EventBus.publish, stream_pipeline_events).
THEOREM DeliveryIsFifo == Spec => []Fifo
<1>1. IInv => Fifo
  BY DEF IInv, StreamInv, Order, Fifo
<1> QED BY Invariance, <1>1, PTL

-----------------------------------------------------------------------------
(* The final event of a run that keeps ask's contract.                     *)

\* A run that returned has told its own stream so.
Told == \A s \in Streams : run[s] = "finished" => OwnFinal(heard[s], s)

\* A final event survives what is put after it.
LEMMA OwnFinalGrows ==
  ASSUME NEW q \in Seq(Event), NEW es \in Seq(Event), NEW s, OwnFinal(q, s) \/ OwnFinal(es, s)
  PROVE  OwnFinal(q \o es, s)
<1>1. /\ \A i \in 1..Len(q) + Len(es) : (q \o es)[i] = IF i <= Len(q) THEN q[i] ELSE es[i - Len(q)]
      /\ Len(q \o es) = Len(q) + Len(es) /\ q \o es \in Seq(Event)
  BY ConcatProperties
<1>2. DOMAIN (q \o es) = 1..Len(q) + Len(es) /\ DOMAIN q = 1..Len(q) /\ DOMAIN es = 1..Len(es)
      /\ Len(q) \in Nat /\ Len(es) \in Nat
  BY <1>1, LenProperties
<1>3. CASE OwnFinal(q, s)
  <2>1. PICK k \in DOMAIN q : Terminal(q[k]) /\ q[k].of = s
    BY <1>3 DEF OwnFinal
  <2>2. k \in DOMAIN (q \o es) /\ (q \o es)[k] = q[k]
    BY <1>1, <1>2
  <2> QED BY <2>1, <2>2 DEF OwnFinal
<1>4. CASE OwnFinal(es, s)
  <2>1. PICK k \in DOMAIN es : Terminal(es[k]) /\ es[k].of = s
    BY <1>4 DEF OwnFinal
  <2>2. Len(q) + k \in DOMAIN (q \o es) /\ (q \o es)[Len(q) + k] = es[k]
    BY <1>1, <1>2
  <2> QED BY <2>1, <2>2 DEF OwnFinal
<1> QED BY <1>3, <1>4

\* What a stream has heard is never taken back.
LEMMA HeardGrows ==
  ASSUME IInv, [Next]_vars, NEW t \in Streams
  PROVE  heard'[t] = heard[t] \/ \E es \in Seq(Event) : heard'[t] = heard[t] \o es
<1>1. ASSUME NEW i, NEW es \in Seq(Event), Publish(i, es)
      PROVE  heard'[t] = heard[t] \/ \E fs \in Seq(Event) : heard'[t] = heard[t] \o fs
  BY <1>1 DEF Publish
<1>2. ASSUME NEW s \in Streams, RunStep(s) \/ HeartbeatFires(s)
      PROVE  heard' = heard \/ \E es \in Seq(Event) : Publish(cid[s], es)
  <2>1. /\ <<Ev("started", s)>> \in Seq(Event) /\ <<Ev("final", s)>> \in Seq(Event)
        /\ <<Ev("heartbeat", s)>> \in Seq(Event) /\ <<Ev("started", s), Ev("final", s)>> \in Seq(Event)
    BY EventParts DEF Kinds
  <2> QED BY <1>2, <2>1 DEF RunStep, RunReachesDatabase, RunEndsEarly, RunEndsFinal, RunEndsMute,
            RunCancelled, HeartbeatFires
<1>3. ASSUME NEW s \in Streams, Open(s) \/ HeartbeatEnds(s) \/ ConsumerStep(s) \/ Cut(s)
      PROVE  heard' = heard
  BY <1>3 DEF Open, Subscribe, HeartbeatEnds, ConsumerStep, Deliver, Take, Resume, DefensiveYield,
     DefensiveReturn, CleanupEnds, Unsubscribe, CleanupAborts, Cut
<1>4. CASE Next
  <2>1. PICK s \in Streams : Open(s) \/ RunStep(s) \/ HeartbeatFires(s) \/ HeartbeatEnds(s)
                              \/ ConsumerStep(s) \/ Cut(s)
    BY <1>4 DEF Next
  <2> QED BY <1>1, <1>2, <1>3, <2>1
<1>5. CASE UNCHANGED vars
  BY <1>5 DEF vars
<1> QED BY <1>4, <1>5

\* If ask never returns without one, a run returns by publishing its final
\* event.
LEMMA RunsReturnByFinal ==
  ASSUME "silent" \notin AskEnds, IInv, [Next]_vars, NEW t \in Streams,
         run'[t] = "finished", run[t] # "finished"
  PROVE  RunEndsEarly(t) \/ RunEndsFinal(t)
<1>1. run \in [Streams -> RunStates]
  BY DEF IInv, TypeOK
<1>2. ASSUME NEW s \in Streams, EnterCleanup(s, "closing") \/ EnterCleanup(s, "detached") PROVE FALSE
  BY <1>1, <1>2 DEF EnterCleanup, RunEnds
<1>3. ASSUME NEW s \in Streams, RunStep(s) PROVE RunEndsEarly(t) \/ RunEndsFinal(t)
  <2>1. ASSUME NEW end \in {"raised", "finished"}, RunEndsMute(s, end) PROVE FALSE
    BY <1>1, <2>1 DEF RunEndsMute
  <2>2. RunEndsEarly(s) \/ RunEndsFinal(s)
    BY <1>1, <1>3, <2>1 DEF RunStep, RunReachesDatabase, RunCancelled
  <2>3. s = t
    BY <1>1, <2>2 DEF RunEndsEarly, RunEndsFinal
  <2> QED BY <2>2, <2>3
<1>4. ASSUME NEW s \in Streams,
             Open(s) \/ HeartbeatFires(s) \/ HeartbeatEnds(s) \/ ConsumerStep(s) \/ Cut(s)
      PROVE  FALSE
  <2>1. CASE Open(s) \/ HeartbeatFires(s) \/ HeartbeatEnds(s)
    BY <1>1, <2>1 DEF Open, HeartbeatFires, HeartbeatEnds
  <2>2. CASE ConsumerStep(s)
    BY <1>1, <1>2, <2>2 DEF ConsumerStep, Deliver, Resume, DefensiveYield, DefensiveReturn,
       CleanupEnds, CleanupAborts
  <2>3. CASE Cut(s)
    BY <1>1, <1>2, <2>3 DEF Cut
  <2> QED BY <1>4, <2>1, <2>2, <2>3
<1>5. CASE Next
  <2>1. PICK s \in Streams : Open(s) \/ RunStep(s) \/ HeartbeatFires(s) \/ HeartbeatEnds(s)
                              \/ ConsumerStep(s) \/ Cut(s)
    BY <1>5 DEF Next
  <2> QED BY <1>3, <1>4, <2>1
<1>6. CASE UNCHANGED vars
  BY <1>6 DEF vars
<1> QED BY <1>5, <1>6

LEMMA NextKeepsTold ==
  ASSUME "silent" \notin AskEnds
  PROVE  IInv /\ Told /\ [Next]_vars => Told'
<1> SUFFICES ASSUME IInv, Told, [Next]_vars, NEW t \in Streams, run'[t] = "finished"
             PROVE  OwnFinal(heard'[t], t)
  BY DEF Told, OwnFinal
<1>1. heard[t] \in Seq(Event) /\ Phase(t) /\ OnBus(t)
  BY DEF IInv, TypeOK, StreamInv
<1>2. CASE run[t] = "finished"
  <2>1. OwnFinal(heard[t], t)
    BY <1>2 DEF Told
  <2>2. CASE heard'[t] = heard[t]
    BY <2>1, <2>2 DEF OwnFinal
  <2>3. CASE \E es \in Seq(Event) : heard'[t] = heard[t] \o es
    BY <1>1, <2>1, <2>3, OwnFinalGrows
  <2> QED BY <2>2, <2>3, HeardGrows
<1>3. CASE run[t] # "finished"
  <2>1. RunEndsEarly(t) \/ RunEndsFinal(t)
    BY <1>3, RunsReturnByFinal
  <2>2. run[t] \in {"ready", "executing"}
    BY <2>1 DEF RunEndsEarly, RunEndsFinal
  <2>3. t \in subscribers[cid[t]]
    BY <1>1, <2>2 DEF Phase, OnBus, InCleanup, RunEnds
  <2>4. /\ <<Ev("started", t), Ev("final", t)>> \in Seq(Event) /\ <<Ev("final", t)>> \in Seq(Event)
        /\ OwnFinal(<<Ev("started", t), Ev("final", t)>>, t) /\ OwnFinal(<<Ev("final", t)>>, t)
    BY EventParts DEF Kinds, OwnFinal, Terminal
  <2>5. PICK es \in Seq(Event) : OwnFinal(es, t) /\ Publish(cid[t], es)
    BY <2>1, <2>4 DEF RunEndsEarly, RunEndsFinal
  <2>6. heard'[t] = heard[t] \o es
    BY <2>3, <2>5 DEF Publish
  <2> QED BY <1>1, <2>5, <2>6, OwnFinalGrows
<1> QED BY <1>2, <1>3

\* A terminal event is the last, and a client that stayed gets one unless its
\* run returned without one (stream_pipeline_events: the loop and its
\* defensive branch).
THEOREM FinalEventIsLast == Spec => []FinalEvent
<1>1. IInv => FinalEvent
  BY DEF IInv, StreamInv, Ending, Order, EndsFinal, OwnFinal, Silent, FinalEvent
<1> QED BY Invariance, <1>1, PTL

\* "Always emit a final event before closing", without exception.
FinalEventAlways ==
  \A s \in Streams :
    gen[s] = "closed" /\ cuts[s] = 0 => sent[s] # <<>> /\ Terminal(sent[s][Len(sent[s])])

\* Where ask keeps its contract, to publish a terminal event or at worst to
\* raise, every client that stayed gets a terminal event: no run is silent
\* (QueryMindEngine.ask, stream_pipeline_events).
THEOREM ContractGivesFinalEvent ==
  ASSUME "silent" \notin AskEnds
  PROVE  Spec => []FinalEventAlways
<1>1. Init => Told
  BY DEF Init, Told
<1>2. IInv /\ Told /\ [Next]_vars => Told'
  BY NextKeepsTold
<1>3. IInv /\ Told => FinalEventAlways
  BY DEF IInv, StreamInv, Ending, EndsFinal, Told, FinalEventAlways
<1> QED BY Invariance, <1>1, <1>2, <1>3, PTL DEF Spec

\* Alone under its id, a stream shows its own run only, and the run is
\* cancelled for its own client only (EventBus.publish,
\* stream_pipeline_events).
THEOREM StreamsStayApart == Spec => []OwnRunOnly
<1>1. IInv => OwnRunOnly
  BY DEF IInv, StreamInv, Own, Unique, OwnRunOnly
<1> QED BY Invariance, <1>1, PTL
=============================================================================
