-------------------------- MODULE CastSessionsProofs --------------------------
(***************************************************************************)
(* Theorems about CastSessions, for any receivers, content types and idle  *)
(* limit: the service and the channel keep their types and every heartbeat *)
(* is accounted for, a session that is recorded plays, and every other     *)
(* receiver is silent or was left to itself, by an operation that failed   *)
(* or with a STOP that could not be sent.                                  *)
(***************************************************************************)
EXTENDS CastSessions, SequenceTheorems, WellFoundedInduction, TLAPS

-----------------------------------------------------------------------------
(***************************************************************************)
(* The inductive invariant.                                                *)
(***************************************************************************)

\* The service and the receivers.
ServiceTypes ==
    /\ pc \in Points /\ target \in Devices
    /\ current \in [op : 0..MaxOps, device : Devices]
    /\ playing \in [Devices -> 0..MaxOps]
    /\ loads \subseteq 1..Types
    /\ beats \subseteq 1..MaxOps /\ dropped \subseteq 1..MaxOps /\ abandoned \subseteq Devices

Flags == cancel \in BOOLEAN /\ torn \in BOOLEAN

\* An operation is numbered and tries its content types in order.
OperationInv ==
    /\ ops \in 0..MaxOps /\ attempt \in 0..(Types + 1)
    /\ pc # "free" => ops \in 1..MaxOps
    /\ pc = "load" => attempt # 0
    /\ pc \in Waiting \cup {"commit"} => attempt \in 1..Types

\* The channel: what the receiver sent is read and kept once, and a LOAD goes on only
\* below the idle limit.
ChannelInv ==
    /\ idleHits \in 0..IdleLimit
    /\ pc \in Waiting => idleHits < IdleLimit
    /\ inbox \in Seq(Message) /\ wire \in Seq(Message)
    /\ reports \in 0..MaxReports /\ Len(inbox) + Len(wire) <= reports

\* Nothing is loaded and no session is recorded but at their time.
Setup == {"free", "switch", "connect", "query", "launch"}
PhaseInv ==
    /\ IsLive => pc \in {"free", "switch"}
    /\ pc \in Setup => loads = {} /\ inbox = <<>> /\ wire = <<>>

\* A report that load_media may take for its success is of a receiver that plays the
\* operation: an active status of its url, or an answer that refuses nothing.
Tells(m) == m.kind \in {"active", "empty"} /\ (m.ours \/ m.request # 0)
PlayedInv ==
    /\ pc = "commit" => playing[target] = ops
    /\ pc # "commit" => \A i \in 1..Len(inbox) : Tells(inbox[i]) => playing[target] = ops
    /\ \A i \in 1..Len(wire) : Tells(wire[i]) => playing[target] = ops

\* The receiver of an operation is excused only once the operation has taken over.
SilenceInv ==
    \A d \in Devices :
        playing[d] # 0 =>
            \/ IsLive /\ current.device = d
            \/ pc \notin {"free", "switch"} /\ target = d
            \/ d \in abandoned

IInv ==
    /\ ServiceTypes /\ Flags /\ OperationInv /\ ChannelInv /\ PhaseInv
    /\ PlayedInv /\ SilenceInv /\ SessionPlays /\ HeartbeatsAreKnown

-----------------------------------------------------------------------------
(***************************************************************************)
(* The idle count over the inbox, which is defined along it.               *)
(***************************************************************************)

LEMMA Smallest ==
  ASSUME NEW T, T \subseteq Nat, T # {}
  PROVE  \E m \in T : \A n \in T : m <= n
<1>1. PICK m \in T : \A n \in T : ~(<<n, m>> \in OpToRel(<, Nat))
  BY NatLessThanWellFounded, WFMin
<1>2. \A n \in T : ~(n < m)
  BY <1>1 DEF OpToRel
<1> QED BY <1>2

LEMMA HitsType ==
  ASSUME NEW h \in Nat, NEW m
  PROVE  HitsAfter(h, m) \in Nat /\ HitsAfter(h, m) <= h + 1
<1>1. HitsAfter(h, m) = h + 1 \/ HitsAfter(h, m) = 0 \/ HitsAfter(h, m) = h
  BY Zenon DEF HitsAfter
<1> QED BY <1>1

\* The count after a place, from the counts before it.
Count(f, k) == IF k = 0 THEN idleHits ELSE HitsAfter(f[k - 1], inbox[k])

LEMMA CountsExist ==
  ASSUME inbox \in Seq(Message), idleHits \in Nat
  PROVE  \E f \in [0..Len(inbox) -> Nat] : f = [k \in 0..Len(inbox) |-> Count(f, k)]
<1> DEFINE Has(n) == \E f \in [0..n -> Nat] : f = [k \in 0..n |-> Count(f, k)]
<1>0. Len(inbox) \in Nat
  OBVIOUS
<1>1. SUFFICES ASSUME ~Has(Len(inbox)) PROVE FALSE
  OBVIOUS
<1> DEFINE Bad == {n \in 0..Len(inbox) : ~Has(n)}
<1>2. PICK m \in Bad : \A n \in Bad : m <= n
  <2>1. Bad \subseteq Nat /\ Bad # {}
    BY <1>0, <1>1
  <2> HIDE DEF Bad
  <2> QED BY <2>1, Smallest
<1>3. m \in 0..Len(inbox) /\ ~Has(m) /\ m \in Nat
  BY <1>2
<1>4. CASE m = 0
  <2> DEFINE f == [k \in 0..0 |-> idleHits]
  <2>1. f \in [0..0 -> Nat] /\ f = [k \in 0..0 |-> Count(f, k)]
    BY DEF Count
  <2> QED BY <1>3, <1>4, <2>1
<1>5. CASE m # 0
  <2>1. m - 1 \in 0..Len(inbox) /\ ~(m <= m - 1) /\ m - 1 \in 0..(m - 1)
    BY <1>0, <1>3, <1>5
  <2>2. Has(m - 1)
    BY <1>2, <2>1
  <2>3. PICK f \in [0..(m - 1) -> Nat] : f = [k \in 0..(m - 1) |-> Count(f, k)]
    BY <2>2
  <2> DEFINE v == HitsAfter(f[m - 1], inbox[m])
             g == [k \in 0..m |-> IF k = m THEN v ELSE f[k]]
  <2>4. v \in Nat
    BY <2>1, <2>3, HitsType
  <2> HIDE DEF v
  <2>5. g \in [0..m -> Nat]
    BY <1>3, <2>3, <2>4
  <2>6. \A k \in 0..(m - 1) : g[k] = f[k]
    BY <1>3
  <2>7. ASSUME NEW k \in 0..m PROVE g[k] = Count(g, k)
    <3>1. CASE k = m
      <4>1. g[k] = v /\ g[m - 1] = f[m - 1]
        BY <1>3, <2>1, <2>6, <3>1
      <4> HIDE DEF g
      <4> QED BY <1>5, <3>1, <4>1 DEF v, Count
    <3>2. CASE k # m /\ k # 0
      <4>1. k \in 0..(m - 1) /\ k - 1 \in 0..(m - 1)
        BY <1>3, <3>2
      <4>2. g[k] = f[k] /\ g[k - 1] = f[k - 1]
        BY <2>6, <4>1
      <4> HIDE DEF g
      <4>3. f[k] = Count(f, k)
        BY <2>3, <4>1, Zenon
      <4> QED BY <3>2, <4>2, <4>3 DEF Count
    <3>3. CASE k = 0
      <4>1. 0 \in 0..(m - 1)
        BY <1>3, <1>5
      <4>2. g[0] = f[0] /\ f[0] = Count(f, 0)
        BY <2>3, <2>6, <4>1, Zenon
      <4> HIDE DEF g
      <4> QED BY <3>3, <4>2 DEF Count
    <3> QED BY <3>1, <3>2, <3>3
  <2>8. g = [k \in 0..m |-> Count(g, k)]
    BY <2>7
  <2> HIDE DEF g
  <2> QED BY <1>3, <2>5, <2>8
<1> QED BY <1>4, <1>5

LEMMA HitsAlong ==
  ASSUME inbox \in Seq(Message), idleHits \in Nat
  PROVE  /\ HitsUpTo \in [0..Len(inbox) -> Nat] /\ HitsUpTo[0] = idleHits
         /\ \A k \in 1..Len(inbox) : HitsUpTo[k] = HitsAfter(HitsUpTo[k - 1], inbox[k])
<1>1. \E f \in [0..Len(inbox) -> Nat] :
         f = [k \in 0..Len(inbox) |-> IF k = 0 THEN idleHits ELSE HitsAfter(f[k - 1], inbox[k])]
  BY CountsExist DEF Count
<1>2. HitsUpTo = [k \in 0..Len(inbox) |->
                    IF k = 0 THEN idleHits ELSE HitsAfter(HitsUpTo[k - 1], inbox[k])]
  BY <1>1, Zenon DEF HitsUpTo
<1> DEFINE h == HitsUpTo
<1>3. h[0] = idleHits
  BY <1>2
<1>4. \A k \in 1..Len(inbox) : h[k] = HitsAfter(h[k - 1], inbox[k])
  BY <1>2
<1>5. h \in [0..Len(inbox) -> Nat]
  <2>1. SUFFICES ASSUME ~(\A k \in 0..Len(inbox) : h[k] \in Nat) PROVE FALSE
    BY <1>2
  <2> DEFINE Bad == {k \in 0..Len(inbox) : h[k] \notin Nat}
  <2>2. PICK m \in Bad : \A n \in Bad : m <= n
    <3>1. Bad \subseteq Nat /\ Bad # {}
      BY <2>1
    <3> HIDE DEF Bad
    <3> QED BY <3>1, Smallest
  <2>3. m \in 1..Len(inbox) /\ m - 1 \in 0..Len(inbox) /\ ~(m <= m - 1)
    BY <1>3, <2>2
  <2>4. h[m - 1] \in Nat
    BY <2>2, <2>3
  <2> QED BY <1>4, <2>2, <2>3, <2>4, HitsType
<1> QED BY <1>3, <1>4, <1>5

LEMMA HitsLow ==
  ASSUME inbox \in Seq(Message), idleHits \in Nat, idleHits < IdleLimit,
         NEW n \in 0..Len(inbox), \A k \in 1..n : ~Decides(k)
  PROVE  HitsUpTo[n] \in Nat /\ HitsUpTo[n] < IdleLimit
<1> DEFINE h == HitsUpTo
<1>0. /\ h \in [0..Len(inbox) -> Nat] /\ h[0] = idleHits /\ Len(inbox) \in Nat
      /\ \A k \in 1..Len(inbox) : h[k] = HitsAfter(h[k - 1], inbox[k])
  BY HitsAlong
<1>1. \A k \in 1..n : ~(HitsAfter(h[k - 1], inbox[k]) >= IdleLimit)
  BY DEF Decides, Refuses, HitsBefore
<1> HIDE DEF h
<1>2. CASE n = 0
  BY <1>0, <1>2 DEF h
<1>3. CASE n # 0
  <2>1. n \in 1..n /\ n \in 1..Len(inbox)
    BY <1>0, <1>3
  <2>2. h[n] = HitsAfter(h[n - 1], inbox[n]) /\ h[n] \in Nat
    BY <1>0, <2>1
  <2>3. ~(HitsAfter(h[n - 1], inbox[n]) >= IdleLimit)
    BY <1>1, <2>1
  <2> QED BY <2>2, <2>3, CastAssumption DEF h
<1> QED BY <1>2, <1>3

-----------------------------------------------------------------------------
(***************************************************************************)
(* What load_media makes of the inbox and of a message.                    *)
(***************************************************************************)

\* The LOAD counts as accepted, by a message of the inbox or of the wire.
Takes(m) ==
    /\ Accepts(m) /\ pc' = "commit"
    /\ UNCHANGED <<ops, target, cancel, attempt, service, receivers, ghosts>>

LEMMA WithoutOne ==
  ASSUME inbox \in Seq(Message), NEW k \in 1..Len(inbox)
  PROVE  Without(k) \in Seq(Message) /\ Len(Without(k)) = Len(inbox) - 1
<1> DEFINE a == SubSeq(inbox, 1, k - 1)
           b == SubSeq(inbox, k + 1, Len(inbox))
<1>1. a \in Seq(Message) /\ Len(a) = k - 1
  BY SubSeqProperties
<1>2. b \in Seq(Message) /\ Len(b) = Len(inbox) - k
  BY SubSeqProperties
<1> HIDE DEF a, b
<1>3. a \o b \in Seq(Message) /\ Len(a \o b) = Len(a) + Len(b)
  BY <1>1, <1>2, ConcatProperties
<1>4. Without(k) = a \o b
  BY DEF Without, a, b
<1>5. k - 1 + (Len(inbox) - k) = Len(inbox) - 1
  OBVIOUS
<1> QED BY <1>1, <1>2, <1>3, <1>4, <1>5, Zenon

LEMMA ScanFacts ==
  ASSUME ChannelInv, Scan
  PROVE  /\ pc = "scan" /\ UNCHANGED <<wire, torn>> /\ idleHits' \in 0..IdleLimit
         /\ \/ NextType /\ inbox' = inbox
            \/ /\ pc' = "read" /\ idleHits' < IdleLimit /\ inbox' = inbox
               /\ UNCHANGED <<ops, target, cancel, attempt, service, receivers, ghosts>>
            \/ \E k \in 1..Len(inbox) : Takes(inbox[k]) /\ inbox' = Without(k)
<1>0. /\ inbox \in Seq(Message) /\ idleHits \in Nat /\ idleHits < IdleLimit
      /\ Len(inbox) \in Nat /\ DOMAIN inbox = 1..Len(inbox) /\ pc = "scan"
      /\ idleHits \in 0..IdleLimit
  BY CastAssumption DEF ChannelInv, Scan, Waiting
<1> DEFINE found == {k \in DOMAIN inbox : Decides(k)}
           first == CHOOSE k \in found : \A j \in found : k <= j
<1>1. CASE cancel
  BY <1>0, <1>1 DEF Scan, channel
<1>2. CASE ~cancel /\ found = {}
  <2>1. /\ pc' = "read" /\ idleHits' = HitsBefore(Len(inbox) + 1)
        /\ UNCHANGED <<ops, target, cancel, attempt, inbox, wire, torn,
                       service, receivers, ghosts>>
    BY <1>2 DEF Scan
  <2>2. \A k \in 1..Len(inbox) : ~Decides(k)
    BY <1>0, <1>2
  <2>3. HitsUpTo[Len(inbox)] \in Nat /\ HitsUpTo[Len(inbox)] < IdleLimit
    BY <1>0, <2>2, HitsLow
  <2>4. Len(inbox) + 1 - 1 = Len(inbox)
    BY <1>0
  <2>5. idleHits' = HitsUpTo[Len(inbox)]
    BY <2>1, <2>4 DEF HitsBefore
  <2>6. idleHits' \in 0..IdleLimit /\ idleHits' < IdleLimit
    BY <2>3, <2>5, CastAssumption
  <2> QED BY <1>0, <2>1, <2>6
<1>3. CASE ~cancel /\ found # {}
  <2>1. first \in found /\ \A j \in found : first <= j
    <3>1. found \subseteq Nat
      BY <1>0
    <3> HIDE DEF found
    <3>2. \E k \in found : \A j \in found : k <= j
      BY <1>3, <3>1, Smallest
    <3> QED BY <3>2
  <2>2. /\ idleHits' = HitsAfter(HitsBefore(first), inbox[first])
        /\ UNCHANGED <<wire, torn>>
        /\ IF Refuses(HitsBefore(first), inbox[first])
           THEN NextType /\ UNCHANGED inbox
           ELSE Accepted /\ inbox' = Without(first)
    BY <1>3 DEF Scan
  <2> HIDE DEF first
  <2>3. first \in 1..Len(inbox) /\ Decides(first) /\ first - 1 \in 0..Len(inbox)
    BY <1>0, <2>1
  <2>4. \A k \in 1..(first - 1) : ~Decides(k)
    BY <1>0, <2>1, <2>3
  <2>5. HitsBefore(first) \in Nat /\ HitsBefore(first) < IdleLimit
    BY <1>0, <2>3, <2>4, HitsLow DEF HitsBefore
  <2>6. idleHits' \in 0..IdleLimit
    BY <2>2, <2>5, HitsType, CastAssumption
  <2>7. CASE Refuses(HitsBefore(first), inbox[first])
    BY <1>0, <2>2, <2>6, <2>7
  <2>8. CASE ~Refuses(HitsBefore(first), inbox[first])
    <3>1. Takes(inbox[first])
      BY <2>2, <2>3, <2>8 DEF Decides, Takes, Accepted
    <3> QED BY <1>0, <2>2, <2>3, <2>6, <2>8, <3>1
  <2> QED BY <2>7, <2>8
<1> QED BY <1>1, <1>2, <1>3

LEMMA ReadFacts ==
  ASSUME ChannelInv, Read
  PROVE  /\ pc = "read" /\ wire # <<>> /\ wire' = Tail(wire) /\ UNCHANGED torn
         /\ idleHits' \in 0..IdleLimit
         /\ \/ NextType /\ inbox' = inbox
            \/ Takes(Head(wire)) /\ inbox' = inbox
            \/ /\ pc' = "scan" /\ idleHits' < IdleLimit /\ inbox' = Append(inbox, Head(wire))
               /\ UNCHANGED <<ops, target, cancel, attempt, service, receivers, ghosts>>
<1> DEFINE m == Head(wire)
<1>1. idleHits \in Nat /\ idleHits < IdleLimit
  BY CastAssumption DEF ChannelInv, Read, Waiting
<1>2. /\ pc = "read" /\ wire # <<>> /\ wire' = Tail(wire) /\ UNCHANGED torn
      /\ idleHits' = HitsAfter(idleHits, m)
  BY DEF Read
<1>3. /\ Refuses(idleHits, m) => NextType /\ UNCHANGED inbox
      /\ ~Refuses(idleHits, m) /\ Accepts(m) => Accepted /\ UNCHANGED inbox
      /\ ~Refuses(idleHits, m) /\ ~Accepts(m) =>
            /\ pc' = "scan" /\ inbox' = Append(inbox, m)
            /\ UNCHANGED <<ops, target, cancel, attempt, service, receivers, ghosts>>
  BY DEF Read
<1> HIDE DEF m
<1>4. idleHits' \in 0..IdleLimit
  BY <1>1, <1>2, HitsType, CastAssumption
<1>5. ~Refuses(idleHits, m) => ~(HitsAfter(idleHits, m) >= IdleLimit)
  BY DEF Refuses
<1>6. ~Refuses(idleHits, m) => idleHits' < IdleLimit
  BY <1>1, <1>2, <1>5, HitsType, CastAssumption
<1> QED BY <1>2, <1>3, <1>4, <1>6 DEF m, Takes, Accepted

-----------------------------------------------------------------------------
(***************************************************************************)
(* Every step keeps the invariant.                                         *)
(***************************************************************************)

Sessions == SilenceInv /\ SessionPlays /\ HeartbeatsAreKnown
Locals   == Flags /\ OperationInv /\ ChannelInv /\ PhaseInv /\ PlayedInv

LEMMA NoSessionType ==
  /\ NoSession \in [op : 0..MaxOps, device : Devices]
  /\ NoSession.op = 0
BY CastAssumption DEF NoSession, NoDevice

LEMMA Assembled == ServiceTypes /\ Locals /\ Sessions <=> IInv
  BY DEF IInv, Sessions, Locals

LEMMA StartHolds == Init => IInv
<1> SUFFICES ASSUME Init PROVE IInv
  OBVIOUS
<1> USE CastAssumption
<1>1. NoDevice \in Devices
  BY DEF NoDevice
<1>2. ServiceTypes
  BY <1>1 DEF Init, ServiceTypes, Points, NoSession
<1>3. Flags
  BY DEF Init, Flags
<1>4. OperationInv
  BY DEF Init, OperationInv, Waiting
<1>5. ChannelInv
  BY DEF Init, ChannelInv, Waiting
<1>6. PhaseInv /\ PlayedInv /\ Sessions
  BY DEF Init, PhaseInv, PlayedInv, Sessions, SilenceInv, SessionPlays, HeartbeatsAreKnown, IsLive,
         NoSession
<1> QED BY <1>2, <1>3, <1>4, <1>5, <1>6, Assembled DEF Locals

\* Whatever an operation had is gone when it returns.
LEMMA ReturnClears ==
  ASSUME Return, ops' \in 0..MaxOps
  PROVE  Locals' /\ pc' = "free" /\ target' \in Devices /\ loads' = {}
<1> USE CastAssumption DEF Return
<1>1. pc' = "free" /\ target' \in Devices /\ loads' = {}
  BY DEF NoDevice
<1>2. Flags'
  BY DEF Flags
<1>3. OperationInv'
  BY DEF OperationInv, Waiting
<1>4. ChannelInv'
  BY DEF ChannelInv, Waiting
<1>5. PhaseInv' /\ PlayedInv'
  BY DEF PhaseInv, PlayedInv
<1> QED BY <1>1, <1>2, <1>3, <1>4, <1>5 DEF Locals

LEMMA StopKeeps == ASSUME IInv, Stop PROVE IInv'
<1> USE DEF channel, IInv
<1>1. ServiceTypes'
  BY CastAssumption, NoSessionType DEF Stop, ServiceTypes, StopHeartbeat, SendStop
<1>2. Flags'
  BY DEF Stop, Flags
<1>3. OperationInv'
  BY CastAssumption DEF Stop, OperationInv, Waiting
<1>4. ChannelInv'
  BY DEF Stop, ChannelInv, Waiting
<1>5. PhaseInv' /\ PlayedInv'
  BY DEF Stop, PhaseInv, PlayedInv, Setup, IsLive, NoSession
<1>6. CASE IsLive
  <2>1. current'.op = 0 /\ pc' = pc /\ target' = target /\ dropped' = dropped
        /\ beats' = beats \ {current.op}
        /\ \/ /\ abandoned' = abandoned \ {current.device}
              /\ playing' = [playing EXCEPT ![current.device] = 0]
           \/ abandoned' = abandoned \cup {current.device} /\ playing' = playing
    BY <1>6 DEF Stop, StopHeartbeat, SendStop, NoSession
  <2>2. SilenceInv'
    BY <2>1 DEF Stop, SilenceInv, ServiceTypes, IsLive
  <2>3. SessionPlays' /\ HeartbeatsAreKnown'
    BY <2>1 DEF SessionPlays, HeartbeatsAreKnown, IsLive
  <2> QED BY <1>1, <1>2, <1>3, <1>4, <1>5, <2>2, <2>3
<1>7. CASE ~IsLive
  <2>1. current'.op = 0 /\ UNCHANGED <<pc, target, dropped, beats, abandoned, playing>>
    BY <1>7 DEF Stop, NoSession
  <2>2. SilenceInv' /\ SessionPlays'
    BY <1>7, <2>1 DEF SilenceInv, SessionPlays, IsLive
  <2>3. HeartbeatsAreKnown'
    BY <1>7, <2>1 DEF HeartbeatsAreKnown, IsLive
  <2> QED BY <1>1, <1>2, <1>3, <1>4, <1>5, <2>2, <2>3
<1> QED BY <1>6, <1>7

LEMMA BeginKeeps == ASSUME IInv, NEW d \in Devices, Begin(d) PROVE IInv'
<1> USE DEF IInv, channel, service, receivers, ghosts
<1>1. ServiceTypes'
  BY DEF Begin, ServiceTypes, Points
<1>2. Flags'
  BY DEF Begin, Flags
<1>3. OperationInv'
  BY CastAssumption DEF Begin, OperationInv, Waiting
<1>4. ChannelInv'
  BY DEF Begin, ChannelInv, Waiting
<1>5. PhaseInv' /\ PlayedInv'
  BY DEF Begin, PhaseInv, PlayedInv, Setup, IsLive
<1>6. SilenceInv' /\ SessionPlays' /\ HeartbeatsAreKnown'
  BY DEF Begin, SilenceInv, SessionPlays, HeartbeatsAreKnown, IsLive
<1> QED BY <1>1, <1>2, <1>3, <1>4, <1>5, <1>6

LEMMA CancelKeeps == ASSUME IInv, Cancel PROVE IInv'
<1> USE DEF IInv, channel, service, receivers, ghosts
<1>1. UNCHANGED <<ops, pc, target, attempt, idleHits, inbox, wire, torn, current, beats,
                  playing, loads, reports, dropped, abandoned>>
  BY DEF Cancel
<1>2. Flags'
  BY DEF Cancel, Flags
<1>3. ServiceTypes' /\ OperationInv' /\ ChannelInv' /\ PhaseInv'
  BY <1>1, Zenon DEF ServiceTypes, OperationInv, ChannelInv, PhaseInv, IsLive
<1>4. PlayedInv' /\ SilenceInv' /\ SessionPlays' /\ HeartbeatsAreKnown'
  BY <1>1, Zenon DEF PlayedInv, SilenceInv, SessionPlays, HeartbeatsAreKnown, IsLive
<1> QED BY <1>2, <1>3, <1>4

LEMMA SwitchKeeps == ASSUME IInv, Switch PROVE IInv'
<1> USE DEF IInv
<1>0. pc = "switch" /\ ops' = ops /\ ops \in 0..MaxOps
  BY DEF Switch, OperationInv
<1>1. CASE cancel
  <2>1. Return /\ UNCHANGED <<service, playing, ghosts>>
    BY <1>1 DEF Switch
  <2>2. Locals' /\ pc' = "free" /\ target' \in Devices /\ loads' = {}
    BY <1>0, <2>1, ReturnClears
  <2>3. ServiceTypes'
    BY <2>1, <2>2 DEF ServiceTypes, Points, service, ghosts
  <2>4. Sessions'
    BY <1>0, <2>1, <2>2 DEF Sessions, SilenceInv, SessionPlays, HeartbeatsAreKnown, IsLive, service,
                            ghosts
  <2> QED BY <2>2, <2>3, <2>4 DEF Sessions, Locals
<1>2. CASE ~cancel
  <2>0. pc' = "connect" /\ current' = NoSession
        /\ UNCHANGED <<target, cancel, attempt, channel, loads, reports>>
    BY <1>2 DEF Switch
  <2>1. ~IsLive' /\ current'.op = 0
    BY <2>0 DEF IsLive, NoSession
  <2>2. Locals'
    <3>1. Flags'
      BY <2>0 DEF Flags, channel
    <3>2. OperationInv'
      BY <1>0, <2>0 DEF OperationInv, Waiting
    <3>3. ChannelInv'
      BY <2>0 DEF ChannelInv, channel, Waiting
    <3>4. PhaseInv' /\ PlayedInv'
      BY <1>0, <2>0, <2>1 DEF PhaseInv, PlayedInv, Setup, channel
    <3> QED BY <3>1, <3>2, <3>3, <3>4 DEF Locals
  <2>3. CASE IsLive /\ current.device # target
    <3>1. /\ beats' = beats \ {current.op} /\ dropped' = dropped
          /\ \/ /\ abandoned' = abandoned \ {current.device}
                /\ playing' = [playing EXCEPT ![current.device] = 0]
             \/ abandoned' = abandoned \cup {current.device} /\ playing' = playing
      BY <1>2, <2>3 DEF Switch, StopHeartbeat, SendStop
    <3>2. ServiceTypes'
      BY <2>0, <3>1, CastAssumption, NoSessionType DEF ServiceTypes, Points
    <3>3. Sessions'
      BY <1>0, <2>0, <2>1, <3>1 DEF Sessions, SilenceInv, SessionPlays, HeartbeatsAreKnown,
                                    ServiceTypes, IsLive
    <3> QED BY <2>2, <3>2, <3>3 DEF Sessions, Locals
  <2>4. CASE IsLive /\ current.device = target
    <3>1. dropped' = dropped \cup {current.op} /\ UNCHANGED <<beats, playing, abandoned>>
      BY <1>2, <2>4 DEF Switch
    <3>2. current.op \in 1..MaxOps
      BY <2>4, CastAssumption DEF IsLive, ServiceTypes
    <3>3. ServiceTypes'
      BY <2>0, <3>1, <3>2, CastAssumption, NoSessionType DEF ServiceTypes, Points
    <3>4. Sessions'
      BY <1>0, <2>0, <2>1, <2>4, <3>1 DEF Sessions, SilenceInv, SessionPlays, HeartbeatsAreKnown
    <3> QED BY <2>2, <3>3, <3>4 DEF Sessions, Locals
  <2>5. CASE ~IsLive
    <3>1. UNCHANGED <<beats, playing, abandoned, dropped>>
      BY <1>2, <2>5 DEF Switch
    <3>2. ServiceTypes'
      BY <2>0, <3>1, CastAssumption, NoSessionType DEF ServiceTypes, Points
    <3>3. Sessions'
      BY <1>0, <2>0, <2>1, <2>5, <3>1 DEF Sessions, SilenceInv, SessionPlays, HeartbeatsAreKnown,
                                          IsLive
    <3> QED BY <2>2, <3>2, <3>3 DEF Sessions, Locals
  <2> QED BY <2>3, <2>4, <2>5
<1> QED BY <1>1, <1>2

\* An operation that fails leaves its receiver among the abandoned.
LEMMA FailKeeps == ASSUME IInv, pc \notin {"free", "switch"}, Fail PROVE IInv'
<1> USE DEF IInv
<1>0. /\ Return /\ UNCHANGED <<ops, service, dropped>> /\ ops \in 0..MaxOps /\ ~IsLive
      /\ abandoned' = IF loads # {} \/ playing[target] # 0
                      THEN abandoned \cup {target} ELSE abandoned
      /\ \/ playing' = playing
         \/ loads # {} /\ playing' = [playing EXCEPT ![target] = ops]
  BY DEF Fail, OperationInv, PhaseInv
<1>1. Locals' /\ pc' = "free" /\ target' \in Devices /\ loads' = {}
  BY <1>0, ReturnClears
<1>2. ServiceTypes'
  BY <1>0, <1>1 DEF ServiceTypes, Points, service
<1>3. SilenceInv'
  BY <1>0 DEF SilenceInv, ServiceTypes, service, IsLive
<1>4. SessionPlays' /\ HeartbeatsAreKnown'
  BY <1>0 DEF SessionPlays, HeartbeatsAreKnown, service, IsLive
<1> QED BY <1>1, <1>2, <1>3, <1>4 DEF Sessions, Locals

\* A step of the operation that touches neither the service nor a receiver.
LEMMA GoesOn ==
  ASSUME IInv, pc \notin {"free", "switch"}, pc' \in Points \ {"free", "switch"},
         UNCHANGED <<ops, target, service, ghosts, playing>>, loads' \subseteq 1..Types
  PROVE  ServiceTypes' /\ Sessions' /\ ~IsLive'
<1> USE DEF IInv, service, ghosts
<1>1. ServiceTypes'
  BY DEF ServiceTypes
<1>2. ~IsLive /\ ~IsLive'
  BY DEF PhaseInv, IsLive
<1>3. SilenceInv'
  BY <1>2 DEF SilenceInv
<1>4. SessionPlays'
  BY <1>2 DEF SessionPlays
<1>5. HeartbeatsAreKnown'
  BY <1>2 DEF HeartbeatsAreKnown
<1> QED BY <1>1, <1>2, <1>3, <1>4, <1>5 DEF Sessions

\* A step before the first LOAD.
LEMMA SetupStep ==
  ASSUME IInv, pc \in {"connect", "query", "launch"},
         \/ pc' \in {"query", "launch"} /\ attempt' = attempt
         \/ pc' = "load" /\ attempt' = 1,
         UNCHANGED <<ops, target, cancel, channel, service, loads, reports>>
  PROVE  Locals'
<1> USE CastAssumption DEF IInv, channel, service
<1>1. Flags'
  BY DEF Flags
<1>2. OperationInv'
  BY DEF OperationInv, Waiting
<1>3. ChannelInv'
  BY DEF ChannelInv, Waiting
<1>4. PhaseInv' /\ PlayedInv'
  BY DEF PhaseInv, PlayedInv, Setup, IsLive
<1> QED BY <1>1, <1>2, <1>3, <1>4 DEF Locals

LEMMA SetupKeeps == ASSUME IInv, Connect \/ Query \/ Launch PROVE IInv'
<1>0. pc \in {"connect", "query", "launch"}
  BY DEF Connect, Query, Launch
<1>1. CASE Fail
  BY <1>0, <1>1, FailKeeps
<1>2. CASE (Connect \/ Query) /\ ~Fail
  <2>1. /\ \/ pc' \in {"query", "launch"} /\ attempt' = attempt
           \/ pc' = "load" /\ attempt' = 1
        /\ UNCHANGED <<ops, target, cancel, channel, service, receivers, ghosts>>
    BY <1>2 DEF Connect, Query
  <2>2. Locals'
    BY <1>0, <2>1, SetupStep DEF receivers
  <2>3. ServiceTypes' /\ Sessions'
    BY <1>0, <2>1, GoesOn DEF receivers, Points, IInv, ServiceTypes
  <2> QED BY <2>2, <2>3 DEF IInv, Sessions, Locals
<1>3. CASE Launch /\ ~Fail
  <2>1. /\ pc' = "load" /\ attempt' = 1 /\ playing' = [playing EXCEPT ![target] = 0]
        /\ abandoned' = abandoned \ {target}
        /\ UNCHANGED <<ops, target, cancel, channel, service, loads, reports, dropped>>
    BY <1>3 DEF Launch
  <2>2. Locals'
    BY <1>0, <2>1, SetupStep
  <2>3. ServiceTypes'
    BY <2>1, CastAssumption DEF IInv, ServiceTypes, Points, service
  <2>4. ~IsLive /\ ~IsLive'
    BY <1>0, <2>1 DEF IInv, PhaseInv, IsLive, service
  <2>5. Sessions'
    BY <1>0, <2>1, <2>4 DEF IInv, Sessions, SilenceInv, SessionPlays, HeartbeatsAreKnown,
                            ServiceTypes, service
  <2> QED BY <2>2, <2>3, <2>5 DEF IInv, Sessions, Locals
<1> QED BY <1>1, <1>2, <1>3

LEMMA LoadKeeps == ASSUME IInv, Load PROVE IInv'
<1> USE CastAssumption
<1>0. pc = "load"
  BY DEF Load
<1>1. CASE Fail
  BY <1>0, <1>1, FailKeeps
<1>2. CASE ~Fail
  <2>1. /\ attempt \in 1..Types /\ pc' = "scan" /\ idleHits' = 0
        /\ loads' = loads \cup {attempt}
        /\ UNCHANGED <<ops, target, cancel, attempt, inbox, wire, torn, service,
                       playing, reports, ghosts>>
    BY <1>0, <1>2 DEF Load, IInv, OperationInv
  <2>2. ServiceTypes' /\ Sessions' /\ ~IsLive'
    BY <1>0, <2>1, GoesOn DEF Points, Waiting, IInv, ServiceTypes
  <2>3. Flags'
    BY <2>1 DEF IInv, Flags
  <2>4. OperationInv'
    BY <1>0, <2>1 DEF IInv, OperationInv, Waiting
  <2>5. ChannelInv'
    BY <2>1 DEF IInv, ChannelInv, Waiting
  <2>6. PhaseInv' /\ PlayedInv'
    BY <1>0, <2>1, <2>2 DEF IInv, PhaseInv, PlayedInv, Setup
  <2> QED BY <2>2, <2>3, <2>4, <2>5, <2>6 DEF IInv, Sessions
<1> QED BY <1>1, <1>2

\* A step of the negotiation that neither ends nor fails the operation: what the channel
\* holds after it, and what is known when a LOAD is accepted.
LEMMA ListenStep ==
  ASSUME IInv, pc \in Waiting, pc' \in Waiting \cup {"load", "commit"},
         UNCHANGED <<ops, target, cancel, service, receivers, ghosts>>,
         attempt' = attempt \/ (pc' = "load" /\ attempt' = attempt + 1),
         torn' \in BOOLEAN, ChannelInv', PlayedInv'
  PROVE  IInv'
<1>1. ServiceTypes' /\ Sessions' /\ ~IsLive'
  BY GoesOn DEF Points, Waiting, IInv, ServiceTypes, receivers
<1>2. Flags'
  BY DEF IInv, Flags
<1>3. OperationInv'
  BY CastAssumption DEF IInv, OperationInv, Waiting
<1>4. PhaseInv'
  BY <1>1 DEF PhaseInv, Setup, Waiting
<1> QED BY <1>1, <1>2, <1>3, <1>4 DEF IInv, Sessions

\* A report that is accepted is of a receiver that plays the operation.
LEMMA AcceptedPlays ==
  ASSUME OperationInv, pc \in Waiting, NEW m \in Message, Accepts(m) PROVE Tells(m)
<1>1. attempt # 0
  BY DEF OperationInv
<1> QED BY <1>1 DEF Accepts, Concerns, Tells

LEMMA ScanKeeps == ASSUME IInv, Scan PROVE IInv'
<1>0. /\ pc = "scan" /\ UNCHANGED <<wire, torn>> /\ idleHits' \in 0..IdleLimit
      /\ \/ NextType /\ inbox' = inbox
         \/ /\ pc' = "read" /\ idleHits' < IdleLimit /\ inbox' = inbox
            /\ UNCHANGED <<ops, target, cancel, attempt, service, receivers, ghosts>>
         \/ \E k \in 1..Len(inbox) : Takes(inbox[k]) /\ inbox' = Without(k)
  BY ScanFacts DEF IInv
<1>1. pc \in Waiting /\ torn' \in BOOLEAN
  BY <1>0 DEF IInv, Flags, Waiting
<1>2. CASE NextType /\ inbox' = inbox
  <2>1. ChannelInv'
    BY <1>0, <1>2 DEF IInv, ChannelInv, NextType, Waiting, receivers
  <2>2. PlayedInv'
    BY <1>0, <1>2 DEF IInv, PlayedInv, NextType, receivers
  <2> QED BY <1>1, <1>2, <2>1, <2>2, ListenStep DEF NextType
<1>3. CASE /\ pc' = "read" /\ idleHits' < IdleLimit /\ inbox' = inbox
           /\ UNCHANGED <<ops, target, cancel, attempt, service, receivers, ghosts>>
  <2>1. ChannelInv'
    BY <1>0, <1>3 DEF IInv, ChannelInv, Waiting, receivers
  <2>2. PlayedInv'
    BY <1>0, <1>3 DEF IInv, PlayedInv, receivers
  <2> QED BY <1>1, <1>3, <2>1, <2>2, ListenStep DEF Waiting
<1>4. CASE \E k \in 1..Len(inbox) : Takes(inbox[k]) /\ inbox' = Without(k)
  <2>1. PICK k \in 1..Len(inbox) : Takes(inbox[k]) /\ inbox' = Without(k)
    BY <1>4
  <2>2. inbox \in Seq(Message) /\ inbox[k] \in Message
    BY DEF IInv, ChannelInv
  <2>3. inbox' \in Seq(Message) /\ Len(inbox') = Len(inbox) - 1
    BY <2>1, <2>2, WithoutOne
  <2>4. ChannelInv'
    BY <1>0, <2>1, <2>3 DEF IInv, ChannelInv, Takes, receivers, Waiting
  <2>5. playing[target] = ops
    BY <1>0, <1>1, <2>1, <2>2, AcceptedPlays DEF IInv, PlayedInv, Takes
  <2>6. PlayedInv'
    BY <1>0, <2>1, <2>5 DEF PlayedInv, Takes, receivers
  <2> QED BY <1>1, <2>1, <2>4, <2>6, ListenStep DEF Takes
<1> QED BY <1>0, <1>2, <1>3, <1>4

LEMMA SeqFacts ==
  ASSUME NEW S, NEW q \in Seq(S)
  PROVE  /\ Len(q) \in Nat
         /\ q # <<>> => /\ Tail(q) \in Seq(S) /\ Len(Tail(q)) = Len(q) - 1
                        /\ Head(q) \in S /\ Head(q) = q[1] /\ 1 \in 1..Len(q)
                        /\ \A i \in 1..Len(Tail(q)) :
                              Tail(q)[i] = q[i + 1] /\ i + 1 \in 1..Len(q)
         /\ \A m \in S :
              /\ Append(q, m) \in Seq(S) /\ Len(Append(q, m)) = Len(q) + 1
              /\ \A i \in 1..Len(Append(q, m)) :
                    Append(q, m)[i] = m \/ (i \in 1..Len(q) /\ Append(q, m)[i] = q[i])
OBVIOUS

LEMMA ReadKeeps == ASSUME IInv, Read PROVE IInv'
<1> DEFINE m == Head(wire)
<1>0. /\ pc = "read" /\ wire # <<>> /\ wire' = Tail(wire) /\ UNCHANGED torn
      /\ idleHits' \in 0..IdleLimit
      /\ \/ NextType /\ inbox' = inbox
         \/ Takes(m) /\ inbox' = inbox
         \/ /\ pc' = "scan" /\ idleHits' < IdleLimit /\ inbox' = Append(inbox, m)
            /\ UNCHANGED <<ops, target, cancel, attempt, service, receivers, ghosts>>
  BY ReadFacts DEF IInv
<1>1. pc \in Waiting /\ torn' \in BOOLEAN
  BY <1>0 DEF IInv, Flags, Waiting
<1>2. /\ inbox \in Seq(Message) /\ wire \in Seq(Message)
      /\ \A i \in 1..Len(wire) : Tells(wire[i]) => playing[target] = ops
      /\ \A i \in 1..Len(inbox) : Tells(inbox[i]) => playing[target] = ops
  BY <1>0 DEF IInv, ChannelInv, PlayedInv
<1>3. m \in Message /\ (Tells(m) => playing[target] = ops)
  BY <1>0, <1>2, SeqFacts
<1>4. /\ wire' \in Seq(Message) /\ Len(wire') = Len(wire) - 1
      /\ \A i \in 1..Len(wire') : Tells(wire'[i]) => playing[target] = ops
  BY <1>0, <1>2, SeqFacts
<1> HIDE DEF m
<1>5. CASE NextType /\ inbox' = inbox
  <2>1. ChannelInv'
    BY <1>0, <1>2, <1>4, <1>5, SeqFacts DEF IInv, ChannelInv, NextType, Waiting, receivers
  <2>2. PlayedInv'
    BY <1>2, <1>4, <1>5 DEF PlayedInv, NextType, receivers
  <2> QED BY <1>0, <1>1, <1>5, <2>1, <2>2, ListenStep DEF NextType
<1>6. CASE Takes(m) /\ inbox' = inbox
  <2>1. ChannelInv'
    BY <1>0, <1>2, <1>4, <1>6, SeqFacts DEF IInv, ChannelInv, Takes, Waiting, receivers
  <2>2. playing[target] = ops
    BY <1>1, <1>3, <1>6, AcceptedPlays DEF IInv, Takes
  <2>3. PlayedInv'
    BY <2>2, <1>6 DEF PlayedInv, Takes, receivers
  <2> QED BY <1>0, <1>1, <1>6, <2>1, <2>3, ListenStep DEF Takes
<1>7. CASE /\ pc' = "scan" /\ idleHits' < IdleLimit /\ inbox' = Append(inbox, m)
           /\ UNCHANGED <<ops, target, cancel, attempt, service, receivers, ghosts>>
  <2>1. /\ inbox' \in Seq(Message) /\ Len(inbox') = Len(inbox) + 1
        /\ \A i \in 1..Len(inbox') : Tells(inbox'[i]) => playing[target] = ops
    BY <1>2, <1>3, <1>7, SeqFacts
  <2>2. ChannelInv'
    BY <1>0, <1>2, <1>4, <1>7, <2>1, SeqFacts DEF IInv, ChannelInv, Waiting, receivers
  <2>3. PlayedInv'
    BY <1>4, <1>7, <2>1 DEF PlayedInv, receivers
  <2> QED BY <1>0, <1>1, <1>7, <2>2, <2>3, ListenStep DEF Waiting
<1> QED BY <1>0, <1>5, <1>6, <1>7

LEMMA ReadEndsKeep == ASSUME IInv, ReadTimeout \/ ReadFails PROVE IInv'
<1>0. pc \in Waiting /\ torn' \in BOOLEAN /\ UNCHANGED <<idleHits, inbox, wire, receivers>>
      /\ pc' \in {"scan", "load"}
  BY DEF IInv, Flags, Waiting, ReadTimeout, ReadFails, NextType, channel
<1>1. ChannelInv'
  BY <1>0 DEF IInv, ChannelInv, Waiting, receivers
<1>2. target' = target /\ ops' = ops
  BY DEF ReadTimeout, ReadFails, NextType
<1>3. PlayedInv'
  BY <1>0, <1>2 DEF IInv, PlayedInv, receivers, Waiting
<1> QED BY <1>0, <1>1, <1>3, ListenStep DEF ReadTimeout, ReadFails, NextType, Waiting

\* The session that is recorded is of the operation whose LOAD was accepted.
LEMMA CommitKeeps == ASSUME IInv, Commit PROVE IInv'
<1> USE DEF IInv
<1>0. /\ pc = "commit" /\ Return /\ UNCHANGED <<ops, playing, dropped>> /\ ops \in 1..MaxOps
      /\ abandoned' = abandoned \ {target}
      /\ beats' = beats \cup {ops} /\ current' = [op |-> ops, device |-> target]
  BY DEF Commit, OperationInv
<1>1. ops \in 0..MaxOps /\ ops # 0
  BY <1>0, CastAssumption
<1>2. Locals' /\ pc' = "free" /\ target' \in Devices /\ loads' = {}
  BY <1>0, <1>1, ReturnClears
<1>3. current'.op = ops /\ current'.device = target /\ IsLive' /\ ~IsLive
  BY <1>0, <1>1 DEF IsLive, PhaseInv
<1>4. ServiceTypes'
  BY <1>0, <1>1, <1>2 DEF ServiceTypes, Points, ghosts
<1>5. SilenceInv'
  BY <1>0, <1>2, <1>3 DEF SilenceInv, ghosts
<1>6. SessionPlays'
  BY <1>0, <1>3 DEF SessionPlays, PlayedInv
<1>7. HeartbeatsAreKnown'
  <2>1. beats \subseteq dropped
    BY <1>3, CastAssumption DEF HeartbeatsAreKnown, IsLive, ServiceTypes
  <2> QED BY <1>0, <1>3, <2>1 DEF HeartbeatsAreKnown, ghosts
<1> QED BY <1>2, <1>4, <1>5, <1>6, <1>7 DEF Locals

-----------------------------------------------------------------------------
(***************************************************************************)
(* The receiver.                                                           *)
(***************************************************************************)

LEMMA SentFacts ==
  ASSUME NEW q \in Seq(Message), NEW ms \in Seq(Message)
  PROVE  /\ Len(q) \in Nat /\ Len(ms) \in Nat
         /\ q \o ms \in Seq(Message) /\ Len(q \o ms) = Len(q) + Len(ms)
         /\ \A i \in 1..Len(q \o ms) :
               \/ i \in 1..Len(q) /\ (q \o ms)[i] = q[i]
               \/ \E j \in 1..Len(ms) : (q \o ms)[i] = ms[j]
<1>1. q \o ms \in Seq(Message) /\ Len(q \o ms) = Len(q) + Len(ms)
      /\ \A i \in 1..(Len(q) + Len(ms)) :
            (q \o ms)[i] = IF i <= Len(q) THEN q[i] ELSE ms[i - Len(q)]
  BY ConcatProperties
<1>2. Len(q) \in Nat /\ Len(ms) \in Nat
  OBVIOUS
<1>3. ASSUME NEW i \in 1..Len(q \o ms)
      PROVE  \/ i \in 1..Len(q) /\ (q \o ms)[i] = q[i]
             \/ \E j \in 1..Len(ms) : (q \o ms)[i] = ms[j]
  <2>1. CASE i <= Len(q)
    BY <1>1, <1>2, <2>1
  <2>2. CASE ~(i <= Len(q))
    <3>1. i - Len(q) \in 1..Len(ms)
      BY <1>1, <1>2, <2>2
    <3>2. (q \o ms)[i] = ms[i - Len(q)]
      BY <1>1, <1>2, <2>2
    <3> QED BY <3>1, <3>2
  <2> QED BY <2>1, <2>2
<1> QED BY <1>1, <1>2, <1>3

\* The receiver reports while an operation waits for it; if it says that it plays, it does.
LEMMA ReceiverStep ==
  ASSUME IInv, NEW ms \in Seq(Message), Send(ms), loads # {}, loads' \subseteq loads,
         UNCHANGED <<operation, idleHits, inbox, torn, service, ghosts>>,
         playing' = playing \/ playing' = [playing EXCEPT ![target] = ops],
         \A j \in 1..Len(ms) : Tells(ms[j]) => playing'[target] = ops
  PROVE  IInv'
<1> USE DEF IInv, operation, service, ghosts
<1>0. pc \in Points \ Setup /\ ~IsLive /\ ops \in 0..MaxOps
  BY DEF PhaseInv, ServiceTypes, Setup, OperationInv
<1>1. ServiceTypes'
  BY <1>0 DEF ServiceTypes
<1>2. Flags'
  BY DEF Flags
<1>3. OperationInv'
  BY DEF OperationInv
<1>4. wire' = wire \o ms /\ reports' = reports + Len(ms) /\ reports + Len(ms) <= MaxReports
      /\ wire \in Seq(Message)
  BY DEF Send, ChannelInv
<1>5. ChannelInv'
  <2>1. wire' \in Seq(Message) /\ Len(wire') = Len(wire) + Len(ms) /\ Len(ms) \in Nat
        /\ Len(wire) \in Nat
    BY <1>4, SentFacts
  <2>2. Len(inbox) \in Nat
    BY DEF ChannelInv
  <2>3. reports' \in 0..MaxReports /\ Len(inbox) + Len(wire') <= reports'
    BY <1>4, <2>1, <2>2, CastAssumption DEF ChannelInv
  <2> QED BY <2>1, <2>3 DEF ChannelInv
<1>6. PhaseInv'
  BY <1>0 DEF PhaseInv, IsLive
<1>7. PlayedInv'
  <2>1. playing[target] = ops => playing'[target] = ops
    BY DEF ServiceTypes
  <2>2. \A i \in 1..Len(wire') : Tells(wire'[i]) => playing'[target] = ops
    BY <1>4, <2>1, SentFacts DEF PlayedInv
  <2> QED BY <2>1, <2>2 DEF PlayedInv
<1>8. SilenceInv'
  BY <1>0 DEF SilenceInv, ServiceTypes, IsLive, Setup
<1>9. SessionPlays' /\ HeartbeatsAreKnown'
  BY <1>0 DEF SessionPlays, HeartbeatsAreKnown, IsLive
<1> QED BY <1>1, <1>2, <1>3, <1>5, <1>6, <1>7, <1>8, <1>9

LEMMA ReportType ==
  ASSUME NEW k \in {"active", "idle", "dead", "empty", "rejected"}, NEW o \in BOOLEAN,
         NEW r \in 0..Types
  PROVE  /\ Report(k, o, r) \in Message
         /\ Report(k, o, r).kind = k /\ Report(k, o, r).ours = o /\ Report(k, o, r).request = r
BY DEF Report, Message

LEMMA One == ASSUME NEW S, NEW m \in S
             PROVE  <<m>> \in Seq(S) /\ \A j \in 1..Len(<<m>>) : <<m>>[j] = m
  OBVIOUS

LEMMA Two == ASSUME NEW S, NEW m \in S, NEW n \in S
             PROVE  /\ <<m, n>> \in Seq(S)
                    /\ \A j \in 1..Len(<<m, n>>) : <<m, n>>[j] = m \/ <<m, n>>[j] = n
  OBVIOUS

LEMMA ReportIdleKeeps == ASSUME IInv, ReportIdle PROVE IInv'
<1>0. 0 \in 0..Types
  BY CastAssumption
<1>1. PICK m \in {Report("idle", TRUE, 0), Report("active", FALSE, 0)} : Send(<<m>>)
  BY DEF ReportIdle
<1>2. m \in Message /\ ~Tells(m)
  <2>1. \A o \in BOOLEAN, k \in {"active", "idle"} :
           Report(k, o, 0) \in Message /\ (k = "idle" \/ ~o => ~Tells(Report(k, o, 0)))
    BY <1>0, ReportType DEF Tells
  <2>2. TRUE \in BOOLEAN /\ FALSE \in BOOLEAN
    OBVIOUS
  <2> QED BY <1>1, <2>1, <2>2
<1>3. <<m>> \in Seq(Message) /\ \A j \in 1..Len(<<m>>) : ~Tells(<<m>>[j])
  BY <1>2, One
<1>4. /\ UNCHANGED <<operation, idleHits, inbox, torn, service, ghosts>>
      /\ loads # {} /\ loads' \subseteq loads /\ playing' = playing
  BY DEF ReportIdle
<1> QED BY <1>1, <1>3, <1>4, ReceiverStep

LEMMA PlayLoadKeeps == ASSUME IInv, NEW l \in loads, PlayLoad(l) PROVE IInv'
<1>0. 0 \in 0..Types /\ l \in 0..Types
  BY CastAssumption DEF IInv, ServiceTypes
<1>1. PICK m \in {Report("active", TRUE, 0), Report("active", TRUE, l), Report("empty", FALSE, l)} :
         Send(<<m>>)
  BY DEF PlayLoad
<1>2. m \in Message
  <2>1. \A o \in BOOLEAN, k \in {"active", "empty"} :
           Report(k, o, 0) \in Message /\ Report(k, o, l) \in Message
    BY <1>0, ReportType
  <2>2. TRUE \in BOOLEAN /\ FALSE \in BOOLEAN
    OBVIOUS
  <2> QED BY <1>1, <2>1, <2>2
<1>3. <<m>> \in Seq(Message)
  BY <1>2, One
<1>4. /\ UNCHANGED <<operation, idleHits, inbox, torn, service, ghosts>>
      /\ loads # {} /\ loads' \subseteq loads /\ playing' = [playing EXCEPT ![target] = ops]
  BY DEF PlayLoad
<1>5. playing'[target] = ops
  BY <1>4 DEF IInv, ServiceTypes
<1> QED BY <1>1, <1>3, <1>4, <1>5, ReceiverStep

LEMMA RefuseLoadKeeps == ASSUME IInv, NEW l \in loads, RefuseLoad(l) PROVE IInv'
<1> DEFINE m == Report("rejected", FALSE, l)
           n == Report("dead", TRUE, 0)
<1>0. 0 \in 0..Types /\ l \in 0..Types
  BY CastAssumption DEF IInv, ServiceTypes
<1>1. m \in Message /\ ~Tells(m) /\ n \in Message /\ ~Tells(n)
  BY <1>0, ReportType DEF Tells
<1>2. /\ UNCHANGED <<operation, idleHits, inbox, torn, service, ghosts>>
      /\ loads # {} /\ loads' \subseteq loads /\ playing' = playing
      /\ Send(<<m>>) \/ Send(<<m, n>>) \/ Send(<<n, m>>)
  BY DEF RefuseLoad
<1> HIDE DEF m, n
<1>3. /\ <<m>> \in Seq(Message) /\ \A j \in 1..Len(<<m>>) : ~Tells(<<m>>[j])
      /\ <<m, n>> \in Seq(Message) /\ \A j \in 1..Len(<<m, n>>) : ~Tells(<<m, n>>[j])
      /\ <<n, m>> \in Seq(Message) /\ \A j \in 1..Len(<<n, m>>) : ~Tells(<<n, m>>[j])
  BY <1>1, One, Two
<1>4. ASSUME NEW ms \in Seq(Message), Send(ms), \A j \in 1..Len(ms) : ~Tells(ms[j]) PROVE IInv'
  BY <1>2, <1>4, ReceiverStep
<1> QED BY <1>2, <1>3, <1>4

-----------------------------------------------------------------------------
(***************************************************************************)
(* The theorems.                                                           *)
(***************************************************************************)

LEMMA StepKeeps == IInv /\ [Next]_vars => IInv'
<1> SUFFICES ASSUME IInv, [Next]_vars PROVE IInv'
  OBVIOUS
<1>1. CASE UNCHANGED vars
  <2>1. UNCHANGED <<ops, pc, target, cancel, attempt, idleHits, inbox, wire, torn, current, beats,
                    playing, loads, reports, dropped, abandoned>>
    BY <1>1 DEF vars, operation, channel, service, receivers, ghosts
  <2>2. ServiceTypes' /\ Flags' /\ OperationInv' /\ ChannelInv'
    BY <2>1, Zenon DEF IInv, ServiceTypes, Flags, OperationInv, ChannelInv
  <2>3. PhaseInv' /\ PlayedInv' /\ SilenceInv' /\ SessionPlays' /\ HeartbeatsAreKnown'
    BY <2>1, Zenon DEF IInv, PhaseInv, PlayedInv, SilenceInv, SessionPlays, HeartbeatsAreKnown,
                       IsLive
  <2> QED BY <2>2, <2>3 DEF IInv
<1> QED BY <1>1, StopKeeps, BeginKeeps, CancelKeeps, SwitchKeeps, SetupKeeps, LoadKeeps, ScanKeeps,
           ReadKeeps, ReadEndsKeep, CommitKeeps, ReportIdleKeeps, PlayLoadKeeps, RefuseLoadKeeps
        DEF Next

LEMMA Holds == Spec => []IInv
<1>1. IInv /\ [Next]_vars => IInv'
  BY StepKeeps
<1> QED BY <1>1, StartHolds, PTL DEF Spec

\* The service and the channel keep their types, no read overruns what was sent, and every
\* heartbeat thread is the live session's or one that a replay on the same receiver dropped
\* (start_heartbeat, stop_heartbeat).
THEOREM SessionsAreTyped == Spec => []SessionsOK
<1>1. IInv => SessionsOK
  <2> SUFFICES ASSUME IInv PROVE SessionsOK
    OBVIOUS
  <2>1. Len(inbox) + Len(wire) <= MaxReports
    <3>1. Len(inbox) \in Nat /\ Len(wire) \in Nat
      BY DEF IInv, ChannelInv
    <3> QED BY <3>1, CastAssumption DEF IInv, ChannelInv
  <2>2. UNION {beats, dropped} \subseteq 1..MaxOps
    BY DEF IInv, ServiceTypes
  <2>3. ops \in 0..MaxOps /\ attempt \in 0..(Types + 1)
    BY DEF IInv, OperationInv
  <2>4. idleHits \in 0..IdleLimit /\ inbox \in Seq(Message) /\ wire \in Seq(Message)
    BY DEF IInv, ChannelInv
  <2>5. CastTypeOK
    BY <2>1, <2>2, <2>3, <2>4, Zenon DEF IInv, ServiceTypes, Flags, CastTypeOK
  <2> QED BY <2>5 DEF IInv, SessionsOK
<1> QED BY <1>1, Holds, PTL

\* What load_media took for success was one: the receiver of the recorded session plays its
\* operation, whatever reports, refusals and leftovers of other LOADs it read on the way
\* (classify_media_status, receive_find).
THEOREM RecordedSessionPlays == Spec => []SessionPlays
<1>1. IInv => SessionPlays
  BY DEF IInv
<1> QED BY <1>1, Holds, PTL

\* A receiver that plays has the session, or is being set up, or was left so by an operation
\* that failed or a STOP that could not be sent (CastService::stop, the switch of receivers).
THEOREM NobodyElsePlays == Spec => []OthersAreSilent
<1>1. IInv => OthersAreSilent
  BY DEF IInv, SilenceInv, OthersAreSilent
<1> QED BY <1>1, Holds, PTL

=============================================================================
