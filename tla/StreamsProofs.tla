---------------------------- MODULE StreamsProofs ----------------------------
(***************************************************************************)
(* Theorems about MCStreams, that is about LocalPipeline and RelayFanout,  *)
(* for any queue, ring, chunk and frame sizes that fit each other and any  *)
(* number of clients: types and bounds, that samples stay on their         *)
(* channel, and that nothing is played or sent twice or out of order.      *)
(*                                                                         *)
(* The rings are counted by numbers that only grow.  At(p) is what the     *)
(* lock-free ring holds of sample number p, whatever the capacity; all     *)
(* that is needed of division and remainders is stated first.              *)
(***************************************************************************)
EXTENDS MCStreams, SequenceTheorems, WellFoundedInduction, TLAPS

\* x rounded down to a multiple of n.
LEMMA RoundDown ==
  ASSUME NEW x \in Nat, NEW n \in Nat \ {0}
  PROVE  /\ (x \div n) * n \in Nat /\ (x \div n) * n <= x /\ x < (x \div n) * n + n
         /\ x = (x \div n) * n + (x % n) /\ x \div n \in Nat /\ x % n \in 0..(n - 1)
  OBVIOUS

LEMMA Remainder ==
  ASSUME NEW x \in Nat, NEW n \in Nat \ {0}, NEW k \in Nat, NEW r \in 0..(n - 1), x = k * n + r
  PROVE  x % n = r /\ x \div n = k
  OBVIOUS

LEMMA Multiple ==
  ASSUME NEW x \in Nat, NEW n \in Nat \ {0}
  PROVE  x % n = 0 <=> \E k \in Nat : x = k * n
<1>1. ASSUME x % n = 0 PROVE \E k \in Nat : x = k * n
  <2>1. x \div n \in Nat /\ x = (x \div n) * n
    BY <1>1, RoundDown
  <2> QED BY <2>1
<1>2. ASSUME NEW k \in Nat, x = k * n PROVE x % n = 0
  <2>1. x = k * n + 0 /\ 0 \in 0..(n - 1)
    BY <1>2
  <2> QED BY <2>1, Remainder
<1> QED BY <1>1, <1>2

\* Sums, differences and multiples of multiples of n are multiples of n, and two different
\* ones are n apart.
LEMMA Multiples ==
  ASSUME NEW n \in Nat \ {0}, NEW a \in Nat, NEW b \in Nat, a % n = 0, b % n = 0
  PROVE  /\ (a + b) % n = 0
         /\ b <= a => (a - b) % n = 0
         /\ b < a => b + n <= a
         /\ \A k \in Nat : (k * a) % n = 0
<1>1. PICK i \in Nat : a = i * n
  BY Multiple
<1>2. PICK j \in Nat : b = j * n
  BY Multiple
<1>3. a + b = (i + j) * n /\ i + j \in Nat /\ a + b \in Nat
  BY <1>1, <1>2
<1>4. (a + b) % n = 0
  BY <1>3, Multiple
<1>5. ASSUME b <= a PROVE (a - b) % n = 0
  <2>1. i >= j
    BY <1>1, <1>2, <1>5
  <2>2. a - b = (i - j) * n /\ i - j \in Nat /\ a - b \in Nat
    BY <1>1, <1>2, <1>5, <2>1
  <2> QED BY <2>2, Multiple
<1>6. ASSUME b < a PROVE b + n <= a
  <2>1. i >= j + 1
    BY <1>1, <1>2, <1>6
  <2>2. i * n >= (j + 1) * n
    BY <2>1
  <2>3. (j + 1) * n = j * n + n
    OBVIOUS
  <2> QED BY <1>1, <1>2, <2>2, <2>3
<1>7. ASSUME NEW k \in Nat PROVE (k * a) % n = 0
  <2>1. k * a = (k * i) * n /\ k * i \in Nat /\ k * a \in Nat
    BY <1>1
  <2> QED BY <2>1, Multiple
<1> QED BY <1>4, <1>5, <1>6, <1>7

LEMMA SameRest ==
  ASSUME NEW n \in Nat \ {0}, NEW a \in Nat, NEW r \in Nat, a % n = 0
  PROVE  (a + r) % n = r % n
<1>1. PICK i \in Nat : a = i * n
  BY Multiple
<1>2. r = (r \div n) * n + (r % n) /\ r \div n \in Nat /\ r % n \in 0..(n - 1)
  BY RoundDown
<1> DEFINE x == a + r
           k == i + (r \div n)
           rest == r % n
<1>3. x = k * n + rest /\ k \in Nat /\ x \in Nat /\ rest \in 0..(n - 1)
  BY <1>1, <1>2
<1> HIDE DEF x, k, rest
<1>4. x % n = rest
  BY <1>3
<1> QED BY <1>4 DEF x, rest

\* How far place p of a ring of n is behind place w.
LEMMA RingPlace ==
  ASSUME NEW n \in Nat \ {0}, NEW w \in Nat, NEW p \in Nat
  PROVE  /\ p \in w..(w + n - 1) => ((p % n) + n - (w % n)) % n = p - w
         /\ (p < w /\ w - p < n) => ((p % n) + n - (w % n)) % n = n - (w - p)
         /\ (w - p = n) => ((p % n) + n - (w % n)) % n = 0
<1> DEFINE i == p \div n
           j == w \div n
           d == (p % n) + n - (w % n)
<1>1. /\ i \in Nat /\ p % n \in 0..(n - 1) /\ p = i * n + (p % n)
      /\ j \in Nat /\ w % n \in 0..(n - 1) /\ w = j * n + (w % n)
  BY RoundDown
<1>2. d \in 1..(2 * n - 1) /\ d = (p - w) + (j - i + 1) * n
  BY <1>1
<1>3. ASSUME NEW r \in 0..(n - 1), d = r \/ d = n + r PROVE d % n = r
  <2>1. d = 0 * n + r \/ d = 1 * n + r
    BY <1>2, <1>3
  <2> HIDE DEF d
  <2>2. PICK k \in Nat : d = k * n + r
    BY <2>1
  <2> QED BY <1>2, <2>2
<1>4. d \in 0..(n - 1) \/ d - n \in 0..(n - 1)
  BY <1>2
<1> HIDE DEF d
<1>5. ASSUME NEW r \in 0..(n - 1), NEW k \in Int, d = r + k * n PROVE d % n = r
  <2>1. k * n > -n /\ k * n < 2 * n
    BY <1>2, <1>5
  <2>2. k > -1 \/ k * n <= -n
    <3>1. k <= -1 => k * n <= (-1) * n
      OBVIOUS
    <3> QED BY <3>1
  <2>3. k < 2 \/ k * n >= 2 * n
    OBVIOUS
  <2>4. k = 0 \/ k = 1
    BY <2>1, <2>2, <2>3
  <2> QED BY <1>3, <1>5, <2>4
<1>6. ASSUME p \in w..(w + n - 1) PROVE d % n = p - w
  BY <1>1, <1>2, <1>5, <1>6
<1>7. ASSUME p < w, w - p < n PROVE d % n = n - (w - p)
  <2>1. d = (n - (w - p)) + (j - i) * n /\ j - i \in Int
    BY <1>1, <1>2
  <2>2. n - (w - p) \in 0..(n - 1)
    BY <1>7
  <2> QED BY <1>5, <2>1, <2>2
<1>8. ASSUME w - p = n PROVE d % n = 0
  <2>1. d = 0 + (j - i) * n /\ j - i \in Int
    BY <1>1, <1>2, <1>8
  <2> QED BY <1>5, <2>1
<1> QED BY <1>6, <1>7, <1>8 DEF d

LEMMA MinOfTwo ==
  ASSUME NEW a \in Int, NEW b \in Int
  PROVE  Min({a, b}) = IF a <= b THEN a ELSE b
  BY DEF Min

LEMMA MaxOfTwo ==
  ASSUME NEW a \in Int, NEW b \in Int
  PROVE  Max({a, b}) = IF a >= b THEN a ELSE b
  BY DEF Max

-----------------------------------------------------------------------------
(***************************************************************************)
(* The local pipeline.                                                     *)
(***************************************************************************)

LocalFlags == token \in BOOLEAN /\ orphaned \in BOOLEAN /\ probed \in BOOLEAN /\ failed \in BOOLEAN

\* The threads and the queues between them.  The playout thread is started by play, once.
LocalQueues ==
    /\ play \in Phases /\ stream \in {"none", "live"}
    /\ response \in 0..Chunks /\ reader \in {"off", "read", "done"} \cup Items
    /\ readq \in Seq(Items) /\ Len(readq) <= ReadCap
    /\ dispatch \in {"off", "recv", "send", "done"}
    /\ bodyq \in Seq(Items) /\ Len(bodyq) <= BodyCap
    /\ decode \in {"open", "recv", "push", "send", "done"} /\ pcmq \in 0..PcmCap
    /\ playout \in {"off", "loop", "due", "publish", "done"}
    /\ play \in {"probe", "device"} => playout = "off"

\* The counters of SteadyPlayout and of the ring: all of whole frames, and nothing is copied
\* and unpublished but at the publishing step.
LocalCounts ==
    /\ ingested \in Nat /\ drained \in Nat /\ drained <= ingested
    /\ ingested - drained < MaxPending + Chunk
    /\ write \in Nat /\ read \in Nat /\ pushed \in 0..Ring
    /\ read <= write /\ write + pushed <= read + Ring
    /\ playout # "publish" => pushed = 0
    /\ drained % Channels = 0 /\ write % Channels = 0 /\ read % Channels = 0
    /\ pushed % Channels = 0

\* What the ring holds of sample number p of the ring's own count, released and unpublished.
At(p) == slots[p % Ring]
Held  == read..(write + pushed - 1)

\* In the ring are samples of the stream, in their order; each frame of it is a frame of the
\* stream.
RingInv ==
    /\ slots \in [0..(Ring - 1) -> Nat]
    /\ \A p \in Held : At(p) <= drained
    /\ \A p, q \in Held : p < q => At(p) < At(q)
    /\ \A p \in Held : p % Channels = 0 =>
          /\ At(p) % Channels = 1 % Channels
          /\ \A k \in 0..(Channels - 1) : At(p + k) = At(p) + k

\* The callback copies whole frames, and what it has heard comes before what is in the ring.
ScratchInv ==
    scratch # <<>> => /\ scratch = [k \in 1..Channels |-> At(read + k - 1)]
                      /\ read + Channels <= write
HeardInv ==
    heard # <<>> => /\ heard = [k \in 1..Channels |-> heard[1] + k - 1]
                    /\ heard[1] \in Nat /\ heard[1] % Channels = 1 % Channels
                    /\ heard[1] + Channels - 1 <= drained
                    /\ \A p \in Held : heard[1] + Channels - 1 < At(p)

LocalInv ==
    /\ LocalFlags /\ LocalQueues /\ LocalCounts /\ RingInv /\ ScratchInv /\ HeardInv
    /\ OrphansAreKnown

LEMMA LocalStart == LocalInit => LocalInv
<1> SUFFICES ASSUME LocalInit PROVE LocalInv
  OBVIOUS
<1>1. LocalFlags
  BY DEF LocalInit, LocalFlags
<1>2. LocalQueues
  BY LocalAssumption DEF LocalInit, LocalQueues, Phases, Items
<1>3. LocalCounts
  <2>1. 0 % Channels = 0
    BY LocalAssumption
  <2> QED BY <2>1, LocalAssumption DEF LocalInit, LocalCounts
<1>4. RingInv
  <2>1. Held = {}
    BY DEF LocalInit, Held
  <2> QED BY <2>1, LocalAssumption DEF LocalInit, RingInv
<1>5. ScratchInv /\ HeardInv /\ OrphansAreKnown
  BY DEF LocalInit, ScratchInv, HeardInv, OrphansAreKnown
<1> QED BY <1>1, <1>2, <1>3, <1>4, <1>5 DEF LocalInv

LEMMA LocalFlagsStep == ASSUME LocalFlags, [LocalNext]_localVars PROVE LocalFlags'
<1> USE DEF LocalFlags, outVars, ringVars, steadyVars, decodeVars, bodyVars
<1>1. CASE UNCHANGED localVars
  BY <1>1, Zenon DEF localVars
<1>2. CASE ReadBody \/ SendRead \/ Dispatch \/ DispatchSend \/ PlayoutTakes \/ Drain \/ Publish
             \/ PopFrame \/ ReleaseFrame
  BY <1>2, Zenon DEF ReadBody, SendRead, Dispatch, DispatchSend, PlayoutTakes, Drain, Publish,
                     PopFrame, ReleaseFrame
<1>3. CASE Decoding
  <2>1. UNCHANGED <<token, orphaned>>
    BY <1>3, Zenon DEF Decoding, OpenStream, DecodeChunk, DecodeEnd, DecodeSend, Reads
  <2>2. failed' \in BOOLEAN /\ probed' \in BOOLEAN
    BY <1>3, Zenon DEF Decoding, OpenStream, DecodeChunk, DecodeEnd, DecodeSend, Reads, DecodeEnds
  <2> QED BY <2>1, <2>2, Zenon
<1>4. CASE Cancel \/ DeviceFails
  BY <1>4, Zenon DEF Cancel, DeviceFails
<1>5. CASE Playing
  <2>1. UNCHANGED <<probed, failed>>
    BY <1>5, Zenon DEF Playing, Probe, PickDevice, Prebuffer, BuildStream, Watch
  <2>2. token' \in BOOLEAN /\ orphaned' \in BOOLEAN
    BY <1>5, Zenon DEF Playing, Probe, PickDevice, Prebuffer, BuildStream, Watch, Return, StopPlayer
  <2> QED BY <2>1, <2>2, Zenon
<1> QED BY <1>1, <1>2, <1>3, <1>4, <1>5, Zenon DEF LocalNext

LEMMA QueueFacts ==
  ASSUME NEW q \in Seq(Items), NEW n \in Nat, Len(q) <= n
  PROVE  /\ Len(q) \in Nat
         /\ \A x \in Items : Len(q) < n => Append(q, x) \in Seq(Items) /\ Len(Append(q, x)) <= n
         /\ q # <<>> => Tail(q) \in Seq(Items) /\ Len(Tail(q)) <= n
  OBVIOUS

LEMMA LocalQueuesStep == ASSUME LocalQueues, [LocalNext]_localVars PROVE LocalQueues'
<1> USE DEF LocalQueues, outVars, ringVars, steadyVars, decodeVars, bodyVars
<1>0. /\ ReadCap \in Nat /\ BodyCap \in Nat /\ PcmCap \in Nat /\ Chunks \in Nat
      /\ "data" \in Items /\ "end" \in Items
  BY LocalAssumption DEF Items
<1>1. CASE UNCHANGED localVars
  BY <1>1 DEF localVars
<1>2. CASE ReadBody
  BY <1>0, <1>2 DEF ReadBody, Items
<1>3. CASE SendRead
  <2>1. /\ readq' \in Seq(Items) /\ Len(readq') <= ReadCap
        /\ reader' \in {"off", "read", "done"} \cup Items
    BY <1>0, <1>3, QueueFacts DEF SendRead
  <2> QED BY <1>3, <2>1 DEF SendRead
<1>4. CASE Dispatch
  <2>1. readq' \in Seq(Items) /\ Len(readq') <= ReadCap
    BY <1>0, <1>4, QueueFacts DEF Dispatch
  <2>2. bodyq' = bodyq \/ (Len(bodyq) < BodyCap /\ bodyq' = Append(bodyq, "end"))
    BY <1>4 DEF Dispatch
  <2>3. bodyq' \in Seq(Items) /\ Len(bodyq') <= BodyCap
    BY <1>0, <2>2, QueueFacts
  <2> QED BY <1>4, <2>1, <2>3 DEF Dispatch
<1>5. CASE DispatchSend
  <2>1. bodyq' \in Seq(Items) /\ Len(bodyq') <= BodyCap
    BY <1>0, <1>5, QueueFacts DEF DispatchSend
  <2> QED BY <1>5, <2>1 DEF DispatchSend
<1>6. CASE OpenStream
  BY <1>6 DEF OpenStream, DecodeEnds
<1>7. CASE DecodeChunk \/ DecodeEnd
  <2>1. bodyq' = bodyq \/ (bodyq # <<>> /\ bodyq' = Tail(bodyq))
    BY <1>7 DEF DecodeChunk, DecodeEnd
  <2>2. bodyq' \in Seq(Items) /\ Len(bodyq') <= BodyCap
    BY <1>0, <2>1, QueueFacts
  <2> QED BY <1>7, <2>2 DEF DecodeChunk, DecodeEnd, Reads, DecodeEnds
<1>8. CASE DecodeSend
  BY <1>0, <1>8 DEF DecodeSend
<1>9. CASE PlayoutTakes
  BY <1>0, <1>9 DEF PlayoutTakes
<1>10. CASE Drain
  <2>1. playout = "due" /\ playout' \in {"loop", "done", "publish"}
    BY <1>10, Zenon DEF Drain
  <2>2. UNCHANGED <<token, play, orphaned, bodyVars, decodeVars, ingested, write, read, outVars>>
    BY <1>10, Zenon DEF Drain
  <2> QED BY <2>1, <2>2
<1>11. CASE Publish \/ PopFrame \/ ReleaseFrame
  BY <1>11 DEF Publish, PopFrame, ReleaseFrame
<1>12. CASE Cancel \/ DeviceFails
  BY <1>12 DEF Cancel, DeviceFails
<1>13. CASE Playing
  BY <1>13 DEF Playing, Probe, PickDevice, Prebuffer, BuildStream, Watch, Return, StopPlayer, Phases
<1> QED BY <1>1, <1>2, <1>3, <1>4, <1>5, <1>6, <1>7, <1>8, <1>9, <1>10, <1>11, <1>12, <1>13
        DEF LocalNext, Decoding

LEMMA OrphansStep ==
  ASSUME LocalFlags, OrphansAreKnown, [LocalNext]_localVars PROVE OrphansAreKnown'
<1> USE DEF OrphansAreKnown, outVars, ringVars, steadyVars, decodeVars, bodyVars
<1>1. CASE UNCHANGED localVars
  BY <1>1, Zenon DEF localVars
<1>2. CASE ReadBody \/ SendRead \/ Dispatch \/ DispatchSend \/ PlayoutTakes \/ Drain \/ Publish
             \/ PopFrame \/ ReleaseFrame \/ DeviceFails
  BY <1>2, Zenon DEF ReadBody, SendRead, Dispatch, DispatchSend, PlayoutTakes, Drain, Publish,
                     PopFrame, ReleaseFrame, DeviceFails
<1>3. CASE Decoding
  BY <1>3, Zenon DEF Decoding, OpenStream, DecodeChunk, DecodeEnd, DecodeSend, Reads
<1>4. CASE Cancel
  BY <1>4, Zenon DEF Cancel
<1>5. CASE Playing
  <2>1. CASE PickDevice \/ BuildStream
    <3>1. /\ token' = token
          /\ (play' = "done" /\ orphaned' = ~token) \/ token \/ play' # "done"
      BY <2>1 DEF PickDevice, BuildStream, Return
    <3> QED BY <3>1
  <2>2. CASE Probe \/ Prebuffer \/ Watch
    <3>1. token' \/ play' # "done"
      BY <2>2 DEF Probe, Prebuffer, Watch, Return, StopPlayer
    <3> QED BY <3>1
  <2> QED BY <1>5, <2>1, <2>2 DEF Playing
<1> QED BY <1>1, <1>2, <1>3, <1>4, <1>5, Zenon DEF LocalNext

\* What the other actions leave alone.
Still ==
    /\ UNCHANGED <<ingested, drained, slots, write, read, pushed, scratch, heard>>
    /\ playout' = playout \/ (playout = "off" /\ playout' = "loop")

LEMMA OthersAreStill ==
  ASSUME LocalQueues, [LocalNext]_localVars
  PROVE  PlayoutTakes \/ Drain \/ Publish \/ PopFrame \/ ReleaseFrame \/ Still
<1> USE DEF Still, outVars, ringVars, steadyVars, decodeVars, bodyVars
<1>1. CASE UNCHANGED localVars
  BY <1>1, Zenon DEF localVars
<1>2. CASE ReadBody \/ SendRead \/ Dispatch \/ DispatchSend \/ Cancel \/ DeviceFails
  BY <1>2, Zenon DEF ReadBody, SendRead, Dispatch, DispatchSend, Cancel, DeviceFails
<1>3. CASE Decoding
  BY <1>3, Zenon DEF Decoding, OpenStream, DecodeChunk, DecodeEnd, DecodeSend, Reads
<1>4. CASE Probe \/ Prebuffer \/ BuildStream \/ Watch
  BY <1>4, Zenon DEF Probe, Prebuffer, BuildStream, Watch
<1>5. CASE PickDevice
  <2>1. playout = "off"
    BY <1>5 DEF PickDevice, LocalQueues
  <2> QED BY <1>5, <2>1, Zenon DEF PickDevice
<1> QED BY <1>1, <1>2, <1>3, <1>4, <1>5, Zenon DEF LocalNext, Playing

LEMMA DrainFacts ==
  ASSUME LocalCounts, Drain
  PROVE  /\ playout = "due" /\ UNCHANGED <<ingested, write, read, scratch, heard>>
         /\ \/ UNCHANGED <<drained, slots, pushed>> /\ playout' = "loop"
            \/ \E ticks \in 1..2 :
                  /\ ingested - drained >= ticks * Tick /\ drained' = drained + ticks * Tick
                  /\ \/ playout' = "done" /\ UNCHANGED <<slots, pushed>>
                     \/ /\ playout' = "publish"
                        /\ \E n \in 0..(Ring - (write - read)) :
                              /\ pushed' = n /\ n \in {ticks * Tick, Ring - (write - read)}
                              /\ n <= ticks * Tick
                              /\ slots' = [i \in DOMAIN slots |->
                                              LET k == (i + Ring - (write % Ring)) % Ring IN
                                              IF k < n THEN drained + k + 1 ELSE slots[i]]
<1>1. playout = "due" /\ UNCHANGED <<ingested, write, read, scratch, heard>>
  BY Zenon DEF Drain, outVars
<1>2. CASE playout' = "loop" /\ UNCHANGED <<drained, slots, pushed>>
  BY <1>1, <1>2
<1>3. CASE \E ticks \in 1..2 :
             /\ Pending >= ticks * Tick
             /\ drained' = drained + ticks * Tick
             /\ IF token
                THEN playout' = "done" /\ UNCHANGED <<slots, pushed>>
                ELSE LET n == Min({ticks * Tick, Room}) IN
                     /\ playout' = "publish" /\ pushed' = n
                     /\ slots' = [i \in DOMAIN slots |->
                                     LET k == (i + Ring - (write % Ring)) % Ring IN
                                     IF k < n THEN drained + k + 1 ELSE slots[i]]
  <2>1. PICK ticks \in 1..2 :
             /\ Pending >= ticks * Tick
             /\ drained' = drained + ticks * Tick
             /\ IF token
                THEN playout' = "done" /\ UNCHANGED <<slots, pushed>>
                ELSE LET n == Min({ticks * Tick, Room}) IN
                     /\ playout' = "publish" /\ pushed' = n
                     /\ slots' = [i \in DOMAIN slots |->
                                     LET k == (i + Ring - (write % Ring)) % Ring IN
                                     IF k < n THEN drained + k + 1 ELSE slots[i]]
    BY <1>3
  <2>2. ticks * Tick \in Nat /\ Room \in Nat /\ Room = Ring - (write - read)
    BY LocalAssumption DEF LocalCounts, Room
  <2>3. Min({ticks * Tick, Room}) = IF ticks * Tick <= Room THEN ticks * Tick ELSE Room
    BY <2>2, MinOfTwo
  <2>4. CASE token
    BY <1>1, <2>1, <2>4, Zenon DEF Pending
  <2>5. CASE ~token
    <3>1. /\ playout' = "publish" /\ pushed' = Min({ticks * Tick, Room})
          /\ slots' = [i \in DOMAIN slots |->
                          LET k == (i + Ring - (write % Ring)) % Ring IN
                          IF k < Min({ticks * Tick, Room}) THEN drained + k + 1 ELSE slots[i]]
      BY <2>1, <2>5, Zenon
    <3>2. /\ Min({ticks * Tick, Room}) \in 0..(Ring - (write - read))
          /\ Min({ticks * Tick, Room}) \in {ticks * Tick, Ring - (write - read)}
          /\ Min({ticks * Tick, Room}) <= ticks * Tick
      BY <2>2, <2>3
    <3> QED BY <1>1, <2>1, <3>1, <3>2, Zenon DEF Pending
  <2> QED BY <2>4, <2>5
<1> QED BY <1>2, <1>3, Zenon DEF Drain

\* All that is let out and pushed is of whole frames.
LEMMA DrainIsWhole ==
  ASSUME LocalCounts, NEW ticks \in 1..2
  PROVE  /\ (drained + ticks * Tick) % Channels = 0 /\ (ticks * Tick) % Channels = 0
         /\ (Ring - (write - read)) % Channels = 0
<1>1. /\ Channels \in Nat \ {0} /\ Tick \in Nat /\ Ring \in Nat /\ ticks \in Nat
      /\ Tick % Channels = 0 /\ Ring % Channels = 0
  BY LocalAssumption
<1>2. /\ drained \in Nat /\ write \in Nat /\ read \in Nat /\ read <= write /\ write <= read + Ring
      /\ drained % Channels = 0 /\ write % Channels = 0 /\ read % Channels = 0
  BY <1>1 DEF LocalCounts
<1>3. (ticks * Tick) % Channels = 0 /\ ticks * Tick \in Nat
  <2>1. (ticks * Tick) % Channels = 0
    BY <1>1, Multiples, Zenon
  <2> QED BY <1>1, <2>1
<1>4. (drained + ticks * Tick) % Channels = 0
  BY <1>1, <1>2, <1>3, Multiples
<1>5. (write - read) % Channels = 0 /\ write - read \in Nat /\ write - read <= Ring
  <2>1. (write - read) % Channels = 0
    BY <1>1, <1>2, Multiples, Zenon
  <2> QED BY <1>1, <1>2, <2>1
<1>6. (Ring - (write - read)) % Channels = 0
  BY <1>1, <1>5, Multiples
<1> QED BY <1>3, <1>4, <1>6

LEMMA FrameLength ==
  ASSUME NEW n \in Nat, NEW f, DOMAIN f = 1..n, f = [k \in 1..n |-> f[k]]
  PROVE  Len(f) = n
<1>1. f \in [1..n -> {f[k] : k \in 1..n}]
  OBVIOUS
<1>2. f \in Seq({f[k] : k \in 1..n})
  BY <1>1, SeqDef
<1> QED BY <1>2, LenProperties

LEMMA CountsStep ==
  ASSUME LocalQueues, LocalCounts, ScratchInv, [LocalNext]_localVars PROVE LocalCounts'
<1>0. /\ Channels \in Nat \ {0} /\ Tick \in Nat /\ Ring \in Nat /\ Chunk \in Nat /\ MaxPending \in Nat
  BY LocalAssumption
<1>1. CASE Still
  BY <1>1 DEF Still, LocalCounts
<1>2. CASE PlayoutTakes
  <2>1. /\ UNCHANGED <<drained, slots, write, read, pushed>> /\ playout # "publish" /\ playout' # "publish"
        /\ ingested' = ingested \/ (ingested - drained < MaxPending /\ ingested' = ingested + Chunk)
    BY <1>2 DEF PlayoutTakes, Pending, ringVars
  <2> QED BY <1>0, <2>1 DEF LocalCounts
<1>3. CASE Drain
  <2>1. CASE UNCHANGED <<drained, slots, pushed>> /\ playout' = "loop"
    BY <1>3, <2>1, DrainFacts DEF LocalCounts
  <2>2. CASE ~(UNCHANGED <<drained, slots, pushed>> /\ playout' = "loop")
    <3>1. PICK ticks \in 1..2 :
                  /\ ingested - drained >= ticks * Tick /\ drained' = drained + ticks * Tick
                  /\ \/ playout' = "done" /\ UNCHANGED pushed
                     \/ /\ playout' = "publish" /\ pushed' \in 0..(Ring - (write - read))
                        /\ pushed' \in {ticks * Tick, Ring - (write - read)}
      BY <1>3, <2>2, DrainFacts
    <3>2. /\ drained' % Channels = 0 /\ pushed' % Channels = 0
      BY <3>1, DrainIsWhole DEF LocalCounts
    <3>3. playout = "due" /\ UNCHANGED <<ingested, write, read>>
      BY <1>3, DrainFacts
    <3>4. ticks * Tick \in Nat
      BY <1>0
    <3>5. drained' \in Nat /\ drained' <= ingested /\ ingested - drained' < MaxPending + Chunk
      BY <1>0, <3>1, <3>4 DEF LocalCounts
    <3>6. /\ pushed' \in 0..Ring /\ write + pushed' <= read + Ring
          /\ playout' # "publish" => pushed' = 0
      BY <1>0, <3>1, <3>3 DEF LocalCounts
    <3> QED BY <3>2, <3>3, <3>5, <3>6 DEF LocalCounts
  <2> QED BY <2>1, <2>2
<1>4. CASE Publish
  <2>1. UNCHANGED <<ingested, drained, read>> /\ write' = write + pushed /\ pushed' = 0
        /\ playout' = "loop"
    BY <1>4 DEF Publish
  <2>2. write' % Channels = 0 /\ pushed' % Channels = 0
    <3>1. write \in Nat /\ pushed \in Nat /\ write % Channels = 0 /\ pushed % Channels = 0
      BY <1>0 DEF LocalCounts
    <3>2. (write + pushed) % Channels = 0
      BY <1>0, <3>1, Multiples, Zenon
    <3>3. 0 % Channels = 0
      BY <1>0
    <3> QED BY <2>1, <3>2, <3>3
  <2> QED BY <1>0, <2>1, <2>2 DEF LocalCounts
<1>5. CASE PopFrame
  BY <1>5 DEF PopFrame, LocalCounts, steadyVars, ringVars
<1>6. CASE ReleaseFrame
  <2>1. scratch = [k \in 1..Channels |-> At(read + k - 1)] /\ read + Channels <= write
    BY <1>6 DEF ReleaseFrame, ScratchInv
  <2>2. Len(scratch) = Channels
    BY <1>0, <2>1, FrameLength
  <2>3. UNCHANGED <<ingested, drained, write, pushed, playout>> /\ read' = read + Channels
    BY <1>6, <2>2 DEF ReleaseFrame, steadyVars
  <2>4. Channels % Channels = 0
    BY <1>0
  <2>5. read' % Channels = 0
    BY <1>0, <2>3, <2>4, Multiples DEF LocalCounts
  <2> QED BY <1>0, <2>1, <2>3, <2>5 DEF LocalCounts
<1> QED BY <1>1, <1>2, <1>3, <1>4, <1>5, <1>6, OthersAreStill

\* What push_slice writes, and what it does not: the samples of the ring stay, the new ones
\* come after them.
LEMMA DrainWrites ==
  ASSUME LocalCounts, RingInv, playout = "due", NEW n \in 0..(Ring - (write - read)),
         slots' = [i \in DOMAIN slots |->
                     LET k == (i + Ring - (write % Ring)) % Ring IN
                     IF k < n THEN drained + k + 1 ELSE slots[i]]
  PROVE  /\ slots' \in [0..(Ring - 1) -> Nat]
         /\ \A p \in read..(write - 1) : slots'[p % Ring] = At(p)
         /\ \A p \in write..(write + n - 1) : slots'[p % Ring] = drained + (p - write) + 1
<1>0. /\ Ring \in Nat \ {0} /\ DOMAIN slots = 0..(Ring - 1) /\ slots \in [0..(Ring - 1) -> Nat]
      /\ write \in Nat /\ read \in Nat /\ read <= write /\ write - read <= Ring /\ drained \in Nat
  <2>1. /\ Ring \in Nat \ {0} /\ drained \in Nat
        /\ write \in Nat /\ read \in Nat /\ read <= write /\ write - read <= Ring
    BY LocalAssumption DEF LocalCounts
  <2>2. DOMAIN slots = 0..(Ring - 1) /\ slots \in [0..(Ring - 1) -> Nat]
    BY DEF RingInv
  <2> QED BY <2>1, <2>2
<1> DEFINE K(i) == (i + Ring - (write % Ring)) % Ring
<1>1. \A i \in 0..(Ring - 1) : slots'[i] = IF K(i) < n THEN drained + K(i) + 1 ELSE slots[i]
  BY <1>0
<1>2. \A i \in 0..(Ring - 1) : K(i) \in Nat
  BY <1>0
<1>3. slots' \in [0..(Ring - 1) -> Nat]
  <2>1. \A i \in 0..(Ring - 1) : slots'[i] \in Nat
    <3> HIDE DEF K
    <3> QED BY <1>0, <1>1, <1>2
  <2>2. DOMAIN slots' = 0..(Ring - 1) /\ slots' = [i \in 0..(Ring - 1) |-> slots'[i]]
    BY <1>0
  <2> QED BY <2>1, <2>2
<1>4. \A p \in Nat : p % Ring \in 0..(Ring - 1)
  BY <1>0
<1>5. ASSUME NEW p \in read..(write - 1) PROVE slots'[p % Ring] = At(p)
  <2>1. p \in Nat /\ p < write /\ write - p <= Ring
    BY <1>0
  <2>2. CASE write - p < Ring
    <3>1. K(p % Ring) = Ring - (write - p)
      BY <1>0, <2>1, <2>2, RingPlace
    <3>2. ~(K(p % Ring) < n)
      BY <1>0, <3>1
    <3> HIDE DEF K
    <3> QED BY <1>1, <1>4, <2>1, <3>2 DEF At
  <2>3. CASE write - p = Ring
    <3>1. K(p % Ring) = 0
      BY <1>0, <2>1, <2>3, RingPlace
    <3>2. ~(K(p % Ring) < n)
      BY <1>0, <2>3, <3>1
    <3> HIDE DEF K
    <3> QED BY <1>1, <1>4, <2>1, <3>2 DEF At
  <2> QED BY <1>0, <2>1, <2>2, <2>3
<1>6. ASSUME NEW p \in write..(write + n - 1) PROVE slots'[p % Ring] = drained + (p - write) + 1
  <2>1. p \in Nat /\ p \in write..(write + Ring - 1) /\ p - write < n
    BY <1>0
  <2>2. K(p % Ring) = p - write
    BY <1>0, <2>1, RingPlace
  <2> HIDE DEF K
  <2> QED BY <1>1, <1>4, <2>1, <2>2
<1> QED BY <1>3, <1>5, <1>6

\* A frame that begins in the ring ends in it.
LEMMA FrameFits ==
  ASSUME LocalCounts, NEW p \in Held, p % Channels = 0
  PROVE  p \in Nat /\ p + Channels <= write + pushed
<1>1. /\ Channels \in Nat \ {0} /\ write \in Nat /\ pushed \in Nat /\ p \in Nat /\ p < write + pushed
      /\ write % Channels = 0 /\ pushed % Channels = 0
  BY LocalAssumption DEF LocalCounts, Held
<1>2. (write + pushed) % Channels = 0 /\ write + pushed \in Nat
  <2>1. (write + pushed) % Channels = 0
    BY <1>1, Multiples, Zenon
  <2> QED BY <1>1, <2>1
<1> DEFINE top == write + pushed
<1> HIDE DEF top
<1>3. top \in Nat /\ top % Channels = 0 /\ p < top
  BY <1>1, <1>2 DEF top
<1>4. p + Channels <= top
  BY <1>1, <1>3, Multiples
<1> QED BY <1>1, <1>4 DEF top

LEMMA DrainKeepsOrder ==
  ASSUME LocalCounts, RingInv, ScratchInv, HeardInv, Drain
  PROVE  RingInv' /\ ScratchInv' /\ HeardInv'
<1>0. /\ Channels \in Nat \ {0} /\ Tick \in Nat \ {0} /\ Ring \in Nat \ {0}
      /\ write \in Nat /\ read \in Nat /\ drained \in Nat /\ pushed = 0 /\ playout = "due"
      /\ read <= write /\ UNCHANGED <<write, read, scratch, heard>>
      /\ write % Channels = 0 /\ drained % Channels = 0 /\ read % Channels = 0
  BY LocalAssumption, DrainFacts DEF LocalCounts
<1>1. CASE UNCHANGED <<slots, pushed>> /\ drained' \in Nat /\ drained <= drained'
  <2>1. Held' = Held /\ \A p : At(p)' = At(p)
    BY <1>0, <1>1 DEF Held, At
  <2>2. \A p \in Held : At(p) \in Nat
    BY <1>0 DEF RingInv, At, Held
  <2>3. RingInv'
    BY <1>0, <1>1, <2>1, <2>2 DEF RingInv
  <2>4. ScratchInv'
    BY <1>0, <2>1 DEF ScratchInv
  <2>5. HeardInv'
    BY <1>0, <1>1, <2>1 DEF HeardInv
  <2> QED BY <2>3, <2>4, <2>5
<1>2. CASE \E ticks \in 1..2, n \in 0..(Ring - (write - read)) :
              /\ drained' = drained + ticks * Tick
              /\ pushed' = n /\ n \in {ticks * Tick, Ring - (write - read)} /\ n <= ticks * Tick
              /\ slots' = [i \in DOMAIN slots |->
                              LET k == (i + Ring - (write % Ring)) % Ring IN
                              IF k < n THEN drained + k + 1 ELSE slots[i]]
  <2>1. PICK ticks \in 1..2, n \in 0..(Ring - (write - read)) :
              /\ drained' = drained + ticks * Tick
              /\ pushed' = n /\ n \in {ticks * Tick, Ring - (write - read)} /\ n <= ticks * Tick
              /\ slots' = [i \in DOMAIN slots |->
                              LET k == (i + Ring - (write % Ring)) % Ring IN
                              IF k < n THEN drained + k + 1 ELSE slots[i]]
    BY <1>2, Zenon
  <2>2. /\ slots' \in [0..(Ring - 1) -> Nat]
        /\ \A p \in read..(write - 1) : At(p)' = At(p)
        /\ \A p \in write..(write + n - 1) : At(p)' = drained + (p - write) + 1
    BY <1>0, <2>1, DrainWrites DEF At
  <2>3. n % Channels = 0
    BY <2>1, DrainIsWhole
  <2>4. n \in Nat /\ drained + n <= drained' /\ drained' \in Nat
    BY <1>0, <2>1
  <2>5. /\ Held' = read..(write + n - 1) /\ Held = read..(write - 1)
        /\ \A p \in Held' : p \in Nat /\ (p \in Held \/ p \in write..(write + n - 1))
    BY <1>0, <2>1, <2>4 DEF Held
  <2> HIDE DEF At, Held
  <2>6. \A p \in Held : At(p) \in Nat /\ At(p) <= drained /\ At(p)' = At(p) /\ p < write /\ p >= read
    <3>1. \A p \in Held : At(p) \in Nat
      BY <1>0, <2>5 DEF RingInv, At
    <3>2. \A p \in Held : At(p) <= drained
      BY DEF RingInv
    <3> QED BY <1>0, <2>2, <2>5, <3>1, <3>2
  <2>7. \A p \in write..(write + n - 1) :
           At(p)' = drained + (p - write) + 1 /\ p - write \in Nat /\ p - write + 1 <= n
    BY <1>0, <2>2, <2>4
  <2>8. \A p \in Held' : At(p)' <= drained'
    BY <1>0, <2>4, <2>5, <2>6, <2>7
  <2>9. ASSUME NEW p \in Held', NEW q \in Held', p < q PROVE At(p)' < At(q)'
    <3>1. CASE p \in Held /\ q \in Held
      <4>1. At(p) < At(q)
        BY <2>9, <3>1 DEF RingInv
      <4> QED BY <2>6, <3>1, <4>1
    <3>2. CASE q \in write..(write + n - 1)
      BY <1>0, <2>5, <2>6, <2>7, <2>9, <3>2
    <3> QED BY <1>0, <2>5, <2>6, <2>9, <3>1, <3>2
  <2>10. ASSUME NEW p \in Held', p % Channels = 0
         PROVE  /\ At(p)' % Channels = 1 % Channels
                /\ \A k \in 0..(Channels - 1) : At(p + k)' = At(p)' + k
    <3>1. CASE p \in Held
      <4>1. p + Channels <= write
        BY <1>0, <2>10, <3>1, FrameFits
      <4>2. \A k \in 0..(Channels - 1) : p + k \in Held
        BY <1>0, <2>5, <3>1, <4>1
      <4>3. /\ At(p) % Channels = 1 % Channels
            /\ \A k \in 0..(Channels - 1) : At(p + k) = At(p) + k
        BY <2>10, <3>1 DEF RingInv
      <4> QED BY <2>6, <3>1, <4>2, <4>3
    <3>2. CASE p \in write..(write + n - 1)
      <4> DEFINE j == p - write
      <4>1. j \in Nat /\ p \in Nat /\ write <= p /\ j < n
        BY <1>0, <2>4, <3>2
      <4>2. j % Channels = 0
        BY <1>0, <2>10, <4>1, Multiples, Zenon
      <4>3. p = write + j /\ At(p)' = drained + j + 1
        BY <1>0, <2>7, <3>2, <4>1
      <4> HIDE DEF j
      <4>4. j + Channels <= n
        BY <1>0, <2>3, <2>4, <4>1, <4>2, Multiples
      <4>5. (drained + j) % Channels = 0 /\ drained + j \in Nat
        <5>1. (drained + j) % Channels = 0
          BY <1>0, <4>1, <4>2, Multiples, Zenon
        <5> QED BY <1>0, <4>1, <5>1
      <4> DEFINE a == drained + j
      <4> HIDE DEF a
      <4>6. (a + 1) % Channels = 1 % Channels
        BY <1>0, <4>5, SameRest DEF a
      <4>7. At(p)' % Channels = 1 % Channels
        BY <4>3, <4>6 DEF a
      <4>8. ASSUME NEW k \in 0..(Channels - 1) PROVE At(p + k)' = drained + (j + k) + 1
        <5>1. PICK q : q = p + k
          OBVIOUS
        <5>2. q \in write..(write + n - 1) /\ q - write = j + k
          BY <1>0, <2>4, <4>1, <4>3, <4>4, <5>1
        <5>3. At(q)' = drained + (q - write) + 1
          BY <2>7, <5>2
        <5> QED BY <5>1, <5>2, <5>3
      <4>9. \A k \in 0..(Channels - 1) : At(p + k)' = At(p)' + k
        BY <1>0, <4>1, <4>3, <4>8
      <4> QED BY <4>7, <4>9
    <3> QED BY <2>5, <3>1, <3>2
  <2>11. RingInv'
    BY <2>2, <2>8, <2>9, <2>10 DEF RingInv
  <2>12. ScratchInv'
    <3>1. SUFFICES ASSUME scratch # <<>>
                   PROVE  /\ scratch = [k \in 1..Channels |-> At(read + k - 1)']
                          /\ read + Channels <= write
      BY <1>0 DEF ScratchInv
    <3>2. scratch = [k \in 1..Channels |-> At(read + k - 1)] /\ read + Channels <= write
      BY <3>1 DEF ScratchInv
    <3>3. \A k \in 1..Channels : read + k - 1 \in Held
      BY <1>0, <2>5, <3>2
    <3>4. ASSUME NEW k \in 1..Channels PROVE At(read + k - 1)' = At(read + k - 1)
      <4>1. PICK q \in Held : q = read + k - 1
        BY <3>3
      <4>2. At(q)' = At(q)
        BY <2>6
      <4> QED BY <1>0, <4>1, <4>2 DEF At
    <3> QED BY <3>2, <3>4
  <2>13. HeardInv'
    <3>1. SUFFICES ASSUME heard # <<>>
                   PROVE  /\ heard = [k \in 1..Channels |-> heard[1] + k - 1]
                          /\ heard[1] \in Nat /\ heard[1] % Channels = 1 % Channels
                          /\ heard[1] + Channels - 1 <= drained'
                          /\ \A p \in Held' : heard[1] + Channels - 1 < At(p)'
      BY <1>0 DEF HeardInv
    <3>2. /\ heard = [k \in 1..Channels |-> heard[1] + k - 1]
          /\ heard[1] \in Nat /\ heard[1] % Channels = 1 % Channels
          /\ heard[1] + Channels - 1 <= drained
          /\ \A p \in Held : heard[1] + Channels - 1 < At(p)
      BY <3>1 DEF HeardInv
    <3>3. heard[1] + Channels - 1 <= drained'
      BY <1>0, <2>4, <3>2
    <3> DEFINE last == heard[1] + Channels - 1
    <3>5. last \in Int /\ last <= drained /\ \A p \in Held : last < At(p)
      BY <1>0, <3>2
    <3> HIDE DEF last
    <3>6. ASSUME NEW p \in Held' PROVE last < At(p)'
      <4>1. CASE p \in Held
        BY <2>6, <3>5, <4>1
      <4>2. CASE p \in write..(write + n - 1)
        BY <1>0, <2>7, <3>5, <4>2
      <4> QED BY <2>5, <4>1, <4>2
    <3>4. \A p \in Held' : heard[1] + Channels - 1 < At(p)'
      BY <3>6 DEF last
    <3> QED BY <3>2, <3>3, <3>4
  <2> QED BY <2>11, <2>12, <2>13
<1>3. QED
  <2>1. CASE UNCHANGED <<drained, slots, pushed>>
    BY <1>0, <1>1, <2>1
  <2>2. CASE ~UNCHANGED <<drained, slots, pushed>>
    <3>1. PICK ticks \in 1..2 :
             /\ ingested - drained >= ticks * Tick /\ drained' = drained + ticks * Tick
             /\ \/ playout' = "done" /\ UNCHANGED <<slots, pushed>>
                \/ /\ playout' = "publish"
                   /\ \E n \in 0..(Ring - (write - read)) :
                         /\ pushed' = n /\ n \in {ticks * Tick, Ring - (write - read)}
                         /\ n <= ticks * Tick
                         /\ slots' = [i \in DOMAIN slots |->
                                         LET k == (i + Ring - (write % Ring)) % Ring IN
                                         IF k < n THEN drained + k + 1 ELSE slots[i]]
      BY <2>2, DrainFacts, Zenon
    <3>2. CASE UNCHANGED <<slots, pushed>>
      <4>1. ticks * Tick \in Nat
        BY <1>0
      <4> QED BY <1>0, <1>1, <3>1, <3>2, <4>1
    <3>3. CASE ~UNCHANGED <<slots, pushed>>
      BY <1>2, <3>1, <3>3, Zenon
    <3> QED BY <3>2, <3>3
  <2> QED BY <2>1, <2>2

LEMMA RingStep ==
  ASSUME LocalQueues, LocalCounts, RingInv, ScratchInv, HeardInv, [LocalNext]_localVars
  PROVE  /\ RingInv' /\ ScratchInv' /\ HeardInv'
         /\ (heard # <<>> /\ heard' # heard) => heard'[1] > heard[Channels]
<1>0. /\ Channels \in Nat \ {0} /\ write \in Nat /\ read \in Nat /\ drained \in Nat
      /\ pushed \in Nat /\ read <= write /\ read % Channels = 0 /\ write % Channels = 0
  BY LocalAssumption DEF LocalCounts
<1>1. CASE /\ UNCHANGED <<slots, read, scratch, heard, drained>>
           /\ UNCHANGED <<write, pushed>> \/ (write' = write + pushed /\ pushed' = 0)
  <2>1. Held' = Held /\ \A p : At(p)' = At(p)
    <3>1. Held' = Held
      <4>1. CASE UNCHANGED <<write, pushed>>
        BY <1>1, <4>1 DEF Held
      <4>2. CASE write' = write + pushed /\ pushed' = 0
        <5>1. write + pushed + 0 - 1 = write + pushed - 1
          BY <1>0
        <5> QED BY <1>0, <1>1, <4>2, <5>1 DEF Held
      <4> QED BY <1>1, <4>1, <4>2
    <3>2. \A p : At(p)' = At(p)
      BY <1>1 DEF At
    <3> QED BY <3>1, <3>2
  <2>2. RingInv'
    BY <1>1, <2>1 DEF RingInv
  <2>3. ScratchInv'
    <3>1. CASE scratch = <<>>
      BY <1>1, <3>1 DEF ScratchInv
    <3>2. CASE scratch # <<>>
      <4>1. scratch = [k \in 1..Channels |-> At(read + k - 1)] /\ read + Channels <= write
        BY <3>2 DEF ScratchInv
      <4>2. scratch' = [k \in 1..Channels |-> slots'[(read' + k - 1) % Ring]]
        BY <1>1, <4>1 DEF At
      <4>3. read' + Channels <= write'
        BY <1>0, <1>1, <4>1
      <4> QED BY <4>2, <4>3 DEF ScratchInv, At
    <3> QED BY <3>1, <3>2
  <2>4. HeardInv'
    BY <1>1, <2>1 DEF HeardInv
  <2> QED BY <1>1, <2>2, <2>3, <2>4
<1>2. CASE Still \/ PlayoutTakes
  BY <1>0, <1>1, <1>2 DEF Still, PlayoutTakes, ringVars, outVars
<1>3. CASE Drain
  BY <1>3, DrainKeepsOrder, DrainFacts
<1>4. CASE Publish
  <2>1. UNCHANGED <<slots, read, scratch, heard, drained>> /\ write' = write + pushed /\ pushed' = 0
    BY <1>4 DEF Publish, outVars
  <2> QED BY <1>0, <1>1, <2>1
<1>5. CASE PopFrame
  <2>1. /\ write # read /\ UNCHANGED <<slots, write, read, pushed, heard, drained>>
        /\ scratch' = [k \in 1..Min({Channels, write - read}) |-> slots[(read + k - 1) % Ring]]
    BY <1>5 DEF PopFrame, ringVars, steadyVars
  <2>2. read + Channels <= write
    <3>1. read < write
      BY <1>0, <2>1
    <3> QED BY <1>0, <3>1, Multiples, Zenon
  <2>3. Min({Channels, write - read}) = Channels
    BY <1>0, <2>2, MinOfTwo
  <2>4. scratch' = [k \in 1..Channels |-> slots[(read + k - 1) % Ring]]
    BY <2>1, <2>3
  <2>5. ScratchInv'
    BY <2>1, <2>2, <2>4 DEF ScratchInv, At
  <2>6. RingInv' /\ HeardInv'
    <3>1. Held' = Held /\ \A p : At(p)' = At(p)
      BY <2>1 DEF Held, At
    <3> QED BY <2>1, <3>1 DEF RingInv, HeardInv
  <2> QED BY <2>1, <2>5, <2>6
<1>6. CASE ReleaseFrame
  <2>1. /\ scratch = [k \in 1..Channels |-> At(read + k - 1)] /\ read + Channels <= write
        /\ scratch' = <<>>
    BY <1>6 DEF ReleaseFrame, ScratchInv
  <2>2. Len(scratch) = Channels
    BY <1>0, <2>1, FrameLength
  <2>3. UNCHANGED <<slots, write, pushed, drained>> /\ read' = read + Channels /\ heard' = scratch
    BY <1>6, <2>2 DEF ReleaseFrame, steadyVars
  <2>4. /\ \A p : At(p)' = At(p)
        /\ \A p \in Held' : p \in Held /\ p > read + Channels - 1
        /\ read \in Held /\ read + Channels - 1 \in Held
    BY <1>0, <2>1, <2>3 DEF Held, At
  <2>5. RingInv'
    BY <2>3, <2>4 DEF RingInv
  <2>6. /\ At(read) % Channels = 1 % Channels
        /\ \A k \in 0..(Channels - 1) : At(read + k) = At(read) + k
    BY <1>0, <2>4 DEF RingInv
  <2>7. At(read) \in Nat
    BY <1>0, LocalAssumption DEF RingInv, At
  <2> DEFINE first == At(read)
  <2>8. /\ first \in Nat /\ first % Channels = 1 % Channels
        /\ \A k \in 1..Channels : At(read + k - 1) = first + k - 1
    <3>1. ASSUME NEW k \in 1..Channels PROVE At(read + k - 1) = first + k - 1
      <4>1. PICK m \in 0..(Channels - 1) : m = k - 1
        BY <1>0
      <4>2. At(read + m) = At(read) + m /\ read + m = read + k - 1
        BY <1>0, <2>6, <4>1
      <4> QED BY <1>0, <2>7, <4>1, <4>2
    <3> QED BY <2>6, <2>7, <3>1
  <2>9. At(read + Channels - 1) = first + Channels - 1
    <3>1. PICK k \in 1..Channels : k = Channels
      BY <1>0
    <3>2. At(read + k - 1) = first + k - 1
      BY <2>8
    <3> QED BY <3>1, <3>2
  <2> HIDE DEF At, Held
  <2>10. first + Channels - 1 <= drained /\ \A p \in Held' : first + Channels - 1 < At(p)
    <3>1. PICK q \in Held : q = read + Channels - 1 /\ At(q) = first + Channels - 1
      BY <2>4, <2>9
    <3>2. At(q) <= drained /\ \A p \in Held' : At(q) < At(p)
      BY <2>4, <3>1 DEF RingInv
    <3> QED BY <3>1, <3>2
  <2>11. scratch = [k \in 1..Channels |-> first + k - 1]
    BY <2>1, <2>8
  <2>12. (heard # <<>> /\ heard' # heard) => heard'[1] > heard[Channels]
    <3>1. SUFFICES ASSUME heard # <<>> PROVE heard'[1] > heard[Channels]
      OBVIOUS
    <3>2. /\ heard = [k \in 1..Channels |-> heard[1] + k - 1] /\ heard[1] \in Nat
          /\ heard[1] + Channels - 1 < first
      BY <2>4, <3>1 DEF HeardInv
    <3> DEFINE one == heard[1]
    <3>3. heard[Channels] = one + Channels - 1
      BY <1>0, <3>2
    <3>4. heard'[1] = first + 1 - 1
      BY <1>0, <2>3, <2>11
    <3> HIDE DEF one, first
    <3>5. heard'[1] = first
      BY <2>8, <3>4
    <3> QED BY <1>0, <2>8, <3>2, <3>3, <3>5 DEF one
  <2> HIDE DEF first
  <2>13. HeardInv'
    <3>1. heard' = [k \in 1..Channels |-> first + k - 1] /\ heard'[1] = first
      BY <1>0, <2>3, <2>8, <2>11
    <3>2. \A p \in Held' : first + Channels - 1 < At(p)'
      BY <2>4, <2>10
    <3> QED BY <2>3, <2>8, <2>10, <3>1, <3>2 DEF HeardInv
  <2>14. ScratchInv'
    BY <2>1 DEF ScratchInv
  <2> QED BY <2>5, <2>12, <2>13, <2>14
<1> QED BY <1>2, <1>3, <1>4, <1>5, <1>6, OthersAreStill

LEMMA LocalStep == LocalInv /\ [LocalNext]_localVars => LocalInv'
<1> SUFFICES ASSUME LocalInv, [LocalNext]_localVars PROVE LocalInv'
  OBVIOUS
<1>1. /\ LocalFlags /\ LocalQueues /\ LocalCounts /\ RingInv /\ ScratchInv /\ HeardInv
      /\ OrphansAreKnown
  BY DEF LocalInv
<1> QED BY <1>1, LocalFlagsStep, LocalQueuesStep, CountsStep, RingStep, OrphansStep DEF LocalInv

LEMMA LocalIsTyped == LocalInv => LocalTypeOK /\ FramesAreWhole
<1> SUFFICES ASSUME LocalInv PROVE LocalTypeOK /\ FramesAreWhole
  OBVIOUS
<1>0. Channels \in Nat \ {0}
  BY LocalAssumption
<1>1. {token, orphaned, probed, failed} \subseteq BOOLEAN
  BY Zenon DEF LocalInv, LocalFlags
<1>2. /\ play \in Phases /\ stream \in {"none", "live"}
      /\ response \in 0..Chunks /\ reader \in {"off", "read", "done"} \cup Items
      /\ readq \in Seq(Items) /\ Len(readq) <= ReadCap
      /\ dispatch \in {"off", "recv", "send", "done"}
      /\ bodyq \in Seq(Items) /\ Len(bodyq) <= BodyCap
      /\ decode \in {"open", "recv", "push", "send", "done"} /\ pcmq \in 0..PcmCap
      /\ playout \in {"off", "loop", "due", "publish", "done"}
  BY Zenon DEF LocalInv, LocalQueues
<1>3. /\ drained <= ingested /\ Pending < MaxPending + Chunk
      /\ pushed \in 0..Ring /\ write + pushed <= read + Ring
      /\ slots \in [0..(Ring - 1) -> Nat]
  BY Zenon DEF LocalInv, LocalCounts, RingInv, Pending
<1>4. read + Len(scratch) <= write
  <2>1. CASE scratch = <<>>
    BY <2>1 DEF LocalInv, LocalCounts
  <2>2. CASE scratch # <<>>
    <3>1. scratch = [k \in 1..Channels |-> At(read + k - 1)] /\ read + Channels <= write
      BY <2>2 DEF LocalInv, ScratchInv
    <3>2. Len(scratch) = Channels
      BY <1>0, <3>1, FrameLength
    <3> QED BY <3>1, <3>2
  <2> QED BY <2>1, <2>2
<1>5. LocalTypeOK
  BY <1>1, <1>2, <1>3, <1>4, Zenon DEF LocalTypeOK
<1>6. FramesAreWhole
  <2>1. SUFFICES ASSUME heard # <<>>
                 PROVE  /\ heard[1] % Channels = 1 % Channels
                        /\ \A k \in 1..Channels : heard[k] = heard[1] + k - 1
    BY DEF FramesAreWhole
  <2>2. heard = [k \in 1..Channels |-> heard[1] + k - 1] /\ heard[1] % Channels = 1 % Channels
    BY <2>1 DEF LocalInv, HeardInv
  <2> QED BY <2>2
<1> QED BY <1>5, <1>6

-----------------------------------------------------------------------------
(***************************************************************************)
(* The relay.                                                              *)
(***************************************************************************)

\* What is in the ring, and what must be once something was dropped from it.
RelayRing ==
    /\ relayStop \in BOOLEAN /\ format \in BOOLEAN
    /\ transport \in {"pcm", "raw"} /\ feeder \in {"open", "stream", "pause", "done"}
    /\ start \in Nat /\ written \in Nat /\ start <= written /\ written <= MaxWritten
    /\ Length < RingMax + FrameAlign
    /\ start > 0 => RingMax < Length + FrameAlign
    /\ transport = "raw" => ~format
    /\ transport = "pcm" => /\ ~format => written = 0
                            /\ start % Sample = 0 /\ written % Sample = 0

\* Where a client is.
ClientsInv ==
    /\ serving \in [Clients -> Served] /\ pos \in [Clients -> Nat]
    /\ sent \in [Clients -> [from : Nat, upto : Nat]]
    /\ \A c \in Clients :
          /\ pos[c] <= written /\ sent[c].from <= sent[c].upto
          /\ serving[c] \in {"request", "join", "snap"} => sent[c].upto = 0
          /\ serving[c] \in {"peek", "align", "read", "write"} =>
                sent[c].upto = pos[c] /\ (transport = "pcm" => pos[c] % Sample = 0)

RelayInv == RelayRing /\ ClientsInv

LEMMA RelayConstants ==
  /\ RingMax \in Nat \ {0} /\ Frame \in Nat \ {0} /\ Sample \in Nat \ {0} /\ Buffer \in Nat \ {0}
  /\ ReadMax \in Nat \ {0} /\ MpegFrame \in Nat \ {0} /\ Cushion \in Nat \ {0}
  /\ MaxWritten \in Nat /\ Frame % Sample = 0 /\ Frame + 2 * Sample <= RingMax /\ ReadMax <= RingMax
  /\ Sample <= Cushion /\ Sample <= Buffer /\ Sample <= Frame
<1>1. /\ RingMax \in Nat \ {0} /\ Frame \in Nat \ {0} /\ Sample \in Nat \ {0}
      /\ Buffer \in Nat \ {0} /\ ReadMax \in Nat \ {0} /\ MpegFrame \in Nat \ {0}
      /\ Cushion \in Nat \ {0}
      /\ MaxWritten \in Nat /\ Frame % Sample = 0 /\ Frame + 2 * Sample <= RingMax
      /\ ReadMax <= RingMax /\ Sample <= Cushion /\ Sample <= Buffer
  BY RelayAssumption
<1>2. Sample <= Frame
  BY <1>1, RoundDown
<1> QED BY <1>1, <1>2

LEMMA RelayStart == RelayInit => RelayInv
<1> SUFFICES ASSUME RelayInit PROVE RelayInv
  OBVIOUS
<1>1. 0 % Sample = 0
  BY RelayConstants
<1>2. RelayRing
  <2>1. relayStop \in BOOLEAN /\ format \in BOOLEAN /\ transport \in {"pcm", "raw"} /\ ~format
    BY Zenon DEF RelayInit
  <2>2. start = 0 /\ written = 0 /\ feeder = "open"
    BY DEF RelayInit
  <2>3. Length = 0 /\ Length < RingMax + FrameAlign
    BY <2>1, <2>2, RelayConstants DEF Length, FrameAlign
  <2> QED BY <1>1, <2>1, <2>2, <2>3, RelayConstants DEF RelayRing
<1>3. ClientsInv
  BY RelayConstants DEF RelayInit, ClientsInv, Span, Served
<1> QED BY <1>2, <1>3 DEF RelayInv

\* What a push drops keeps the ring within a frame of its bound, below and above.
LEMMA PutFacts ==
  ASSUME RelayRing, NEW n \in Nat \ {0}, n <= RingMax, Put(n)
  PROVE  /\ start' \in Nat /\ written' \in Nat /\ written' <= MaxWritten /\ written < written'
         /\ start <= start' /\ start' <= written
         /\ written' - start' < RingMax + FrameAlign
         /\ start' > 0 => RingMax < written' - start' + FrameAlign
         /\ transport = "pcm" /\ format /\ n % Sample = 0 =>
               start' % Sample = 0 /\ written' % Sample = 0
<1>0. /\ start \in Nat /\ written \in Nat /\ start <= written /\ Length = written - start
      /\ written' = written + n /\ start' = start + Dropped(n) /\ written' <= MaxWritten
      /\ FrameAlign \in Nat \ {0} /\ Length < RingMax + FrameAlign
      /\ start > 0 => RingMax < Length + FrameAlign
  BY RelayConstants DEF RelayRing, Put, Length, FrameAlign
<1>1. CASE Length + n <= RingMax
  <2>1. Dropped(n) = 0
    BY <1>0, <1>1, RelayConstants DEF Dropped
  <2>2. start' = start /\ written' = written + n /\ written' - start' = Length + n
    BY <1>0, <2>1
  <2>3. transport = "pcm" /\ format /\ n % Sample = 0 => written' % Sample = 0
    <3>1. SUFFICES ASSUME transport = "pcm", n % Sample = 0 PROVE (written + n) % Sample = 0
      BY <1>0
    <3>2. Sample \in Nat \ {0} /\ n \in Nat /\ written \in Nat
      BY <1>0, RelayConstants
    <3>3. written % Sample = 0
      BY <3>1 DEF RelayRing
    <3> QED BY <3>1, <3>2, <3>3, Multiples, Zenon
  <2> QED BY <1>0, <1>1, <2>2, <2>3, RelayConstants DEF RelayRing
<1>2. CASE Length + n > RingMax
  <2> DEFINE e == Length + n - RingMax
             f == Max({e \div FrameAlign, 1})
             d == Min({f * FrameAlign, Length})
  <2>1. e \in Nat \ {0} /\ Length \in Nat /\ e <= Length
    BY <1>0, <1>2, RelayConstants
  <2>2. Dropped(n) = d
    BY <1>2 DEF Dropped
  <2>3. /\ e \div FrameAlign \in Nat /\ (e \div FrameAlign) * FrameAlign <= e
        /\ e < (e \div FrameAlign) * FrameAlign + FrameAlign
    <3> HIDE DEF e
    <3> QED BY <1>0, <2>1, RoundDown
  <2>4. f = IF e \div FrameAlign >= 1 THEN e \div FrameAlign ELSE 1
    <3> HIDE DEF e
    <3> QED BY <2>3, MaxOfTwo
  <2> HIDE DEF e, f, d
  <2>5. /\ f \in Nat \ {0} /\ f * FrameAlign \in Nat
        /\ e < f * FrameAlign + FrameAlign /\ (f * FrameAlign <= e \/ f * FrameAlign = FrameAlign)
    <3>1. f = 1 \/ f = e \div FrameAlign
      BY <2>4
    <3>2. f \in Nat \ {0}
      BY <2>3, <2>4
    <3>3. CASE f = e \div FrameAlign
      BY <1>0, <2>3, <3>2, <3>3
    <3>4. CASE f = 1
      BY <1>0, <2>1, <2>3, <2>4, <3>4
    <3> QED BY <3>1, <3>2, <3>3, <3>4
  <2>6. d = IF f * FrameAlign <= Length THEN f * FrameAlign ELSE Length
    BY <2>1, <2>5, MinOfTwo DEF d
  <2>7. d \in Nat /\ d <= Length /\ (d = Length \/ e < d + FrameAlign) /\ (d <= e \/ d <= FrameAlign)
    BY <1>0, <2>1, <2>5, <2>6
  <2>8. start' = start + d /\ written' - start' = Length + n - d /\ Length + n = RingMax + e
    BY <1>0, <2>1, <2>2, <2>7, RelayConstants DEF e
  <2>9. /\ start' \in Nat /\ start <= start' /\ start' <= written
        /\ written' - start' < RingMax + FrameAlign /\ RingMax < written' - start' + FrameAlign
    BY <1>0, <2>1, <2>7, <2>8, RelayConstants
  <2>10. ASSUME transport = "pcm", format, n % Sample = 0
         PROVE  start' % Sample = 0 /\ written' % Sample = 0
    <3>1. start % Sample = 0 /\ written % Sample = 0 /\ FrameAlign = Frame
      BY <2>10 DEF RelayRing, FrameAlign
    <3>7. /\ Sample \in Nat \ {0} /\ n \in Nat /\ written \in Nat /\ start \in Nat
          /\ start <= written /\ d \in Nat /\ n % Sample = 0
      BY <1>0, <2>7, <2>10, RelayConstants
    <3>2. (written + n) % Sample = 0
      BY <3>1, <3>7, Multiples, Zenon
    <3>3. (written - start) % Sample = 0
      BY <3>1, <3>7, Multiples, Zenon
    <3>4. (f * Frame) % Sample = 0
      BY <2>5, RelayConstants, Multiples, Zenon
    <3>5. d % Sample = 0
      BY <1>0, <2>6, <3>1, <3>3, <3>4
    <3>6. (start + d) % Sample = 0
      BY <3>1, <3>5, <3>7, Multiples, Zenon
    <3> QED BY <1>0, <2>8, <3>2, <3>6
  <2> QED BY <1>0, <2>9, <2>10
<1> QED BY <1>0, <1>1, <1>2, RelayConstants

LEMMA RelayRingStep == ASSUME RelayRing, [RelayNext]_relayVars PROVE RelayRing'
<1> USE DEF ring, clients
<1>0. /\ start \in Nat /\ written \in Nat /\ start <= written /\ written <= MaxWritten
      /\ written - start < RingMax + FrameAlign
      /\ start > 0 => RingMax < written - start + FrameAlign
  BY DEF RelayRing, Length
<1>1. CASE UNCHANGED <<transport, ring>> /\ relayStop' \in BOOLEAN
           /\ feeder' \in {"open", "stream", "pause", "done"}
  <2>1. UNCHANGED <<transport, format, start, written>>
    BY <1>1
  <2>2. Length' = Length /\ FrameAlign' = FrameAlign
    BY <2>1, Zenon DEF Length, FrameAlign
  <2>3. /\ relayStop' \in BOOLEAN /\ format' \in BOOLEAN /\ transport' \in {"pcm", "raw"}
        /\ transport' = "raw" => ~format'
        /\ transport' = "pcm" => /\ ~format' => written' = 0
                                 /\ start' % Sample = 0 /\ written' % Sample = 0
    <3>1. format \in BOOLEAN /\ transport \in {"pcm", "raw"} /\ (transport = "raw" => ~format)
      BY Zenon DEF RelayRing
    <3>2. transport = "pcm" => /\ ~format => written = 0
                               /\ start % Sample = 0 /\ written % Sample = 0
      BY Zenon DEF RelayRing
    <3> QED BY <1>1, <2>1, <3>1, <3>2
  <2>4. /\ start' \in Nat /\ written' \in Nat /\ start' <= written' /\ written' <= MaxWritten
        /\ Length' < RingMax + FrameAlign'
        /\ start' > 0 => RingMax < Length' + FrameAlign'
    BY <2>1, <2>2 DEF RelayRing
  <2> QED BY <1>1, <2>3, <2>4, Zenon DEF RelayRing
<1>2. CASE NameFormat
  <2>1. /\ transport = "pcm" /\ ~format /\ format' = TRUE
        /\ UNCHANGED <<start, written, transport, relayStop, feeder>>
    BY <1>2 DEF NameFormat, Pushing
  <2>2. written = 0 /\ start = 0
    BY <1>0, <2>1 DEF RelayRing
  <2>3. Length' = 0 /\ FrameAlign' = Frame
    BY <2>1, <2>2 DEF Length, FrameAlign
  <2>4. Length' < RingMax + FrameAlign' /\ ~(start' > 0) /\ 0 % Sample = 0
    BY <2>1, <2>2, <2>3, RelayConstants
  <2>5. relayStop' \in BOOLEAN /\ format' \in BOOLEAN /\ (transport' = "raw" => ~format')
    BY <2>1, Zenon DEF RelayRing
  <2> QED BY <1>0, <2>1, <2>2, <2>4, <2>5 DEF RelayRing
<1>3. CASE PushFrame \/ PushBytes
  <2>1. UNCHANGED <<transport, relayStop, feeder, format>>
    BY <1>3 DEF PushFrame, PushBytes, Pushing
  <2>2. PICK n \in Nat \ {0} : /\ n <= RingMax /\ Put(n)
                               /\ transport = "pcm" => format /\ n % Sample = 0
    <3>1. CASE PushFrame
      <4>1. Frame \in Nat \ {0} /\ Frame <= RingMax /\ Put(Frame) /\ format /\ Frame % Sample = 0
        BY <3>1, RelayConstants DEF PushFrame
      <4> QED BY <4>1
    <3>2. CASE PushBytes
      <4>1. transport = "raw" /\ \E n \in 1..ReadMax : Put(n)
        BY <3>2 DEF PushBytes
      <4>2. \A n \in 1..ReadMax : n \in Nat \ {0} /\ n <= RingMax
        BY RelayConstants
      <4> QED BY <4>1, <4>2
    <3> QED BY <1>3, <3>1, <3>2
  <2>3. /\ start' \in Nat /\ written' \in Nat /\ written' <= MaxWritten /\ written < written'
        /\ start <= start' /\ start' <= written
        /\ written' - start' < RingMax + FrameAlign
        /\ start' > 0 => RingMax < written' - start' + FrameAlign
        /\ transport = "pcm" => start' % Sample = 0 /\ written' % Sample = 0
    BY <2>2, PutFacts
  <2>4. FrameAlign' = FrameAlign /\ Length' = written' - start' /\ start' <= written'
    BY <1>0, <2>1, <2>3 DEF FrameAlign, Length
  <2>5. /\ relayStop' \in BOOLEAN /\ format' \in BOOLEAN /\ transport' \in {"pcm", "raw"}
        /\ feeder' \in {"open", "stream", "pause", "done"} /\ (transport' = "raw" => ~format')
    BY <2>1, Zenon DEF RelayRing
  <2>6. transport' = "pcm" => format' /\ start' % Sample = 0 /\ written' % Sample = 0
    BY <2>1, <2>2, <2>3
  <2> QED BY <2>3, <2>4, <2>5, <2>6 DEF RelayRing
<1>4. CASE UNCHANGED relayVars \/ Feed \/ OpenFails \/ StopRelay \/ \E c \in Clients : Serve(c)
  <2>1. UNCHANGED <<transport, ring>>
    BY <1>4, Zenon DEF relayVars, Feed, OpenFails, StopRelay, Serve, ServeRequest, Join, Snap, Peek,
                       Align, ReadAt, Write, Stands
  <2>2. relayStop' \in BOOLEAN
    BY <1>4, Zenon DEF relayVars, Feed, OpenFails, StopRelay, Serve, ServeRequest, Join, Snap, Peek,
                       Align, ReadAt, Write, Stands, RelayRing
  <2>3. feeder' \in {"open", "stream", "pause", "done"}
    <3>1. CASE Feed
      BY <3>1 DEF Feed
    <3>2. CASE OpenFails
      BY <3>2 DEF OpenFails
    <3>3. CASE UNCHANGED relayVars \/ StopRelay \/ \E c \in Clients : Serve(c)
      <4>1. feeder' = feeder
        BY <3>3, Zenon DEF relayVars, StopRelay, Serve, ServeRequest, Join, Snap, Peek,
                       Align, ReadAt, Write, Stands
      <4> QED BY <4>1 DEF RelayRing
    <3> QED BY <1>4, <3>1, <3>2, <3>3
  <2> QED BY <1>1, <2>1, <2>2, <2>3
<1> QED BY <1>2, <1>3, <1>4, Zenon DEF RelayNext

\* Rounding down to a sample from the start of the ring.
LEMMA WholeFacts ==
  ASSUME RelayRing, NEW p \in Nat, start <= p
  PROVE  /\ WholeSample(p) \in Nat /\ start <= WholeSample(p) /\ WholeSample(p) <= p
         /\ p < WholeSample(p) + Sample
         /\ transport = "pcm" => WholeSample(p) % Sample = 0
         /\ transport = "pcm" /\ p % Sample = 0 => WholeSample(p) = p
<1>0. start \in Nat /\ Sample \in Nat \ {0}
  BY RelayConstants DEF RelayRing
<1> DEFINE x == p - start
           y == (x \div Sample) * Sample
<1>1. x \in Nat /\ p = start + x /\ WholeSample(p) = start + y
  BY <1>0 DEF WholeSample
<1>2. y \in Nat /\ y <= x /\ x < y + Sample /\ x = y + (x % Sample) /\ x \div Sample \in Nat
  <2> HIDE DEF x
  <2> QED BY <1>0, <1>1, RoundDown
<1>3. y % Sample = 0
  <2> HIDE DEF x
  <2> QED BY <1>0, <1>2, Multiple
<1> HIDE DEF y
<1>4. ASSUME transport = "pcm" PROVE (start + y) % Sample = 0
  <2>1. start % Sample = 0
    BY <1>4 DEF RelayRing
  <2> QED BY <1>0, <1>2, <1>3, <2>1, Multiples, Zenon
<1>5. ASSUME transport = "pcm", p % Sample = 0 PROVE y = x
  <2>1. start % Sample = 0
    BY <1>5 DEF RelayRing
  <2>2. x % Sample = 0
    BY <1>0, <1>5, <2>1, Multiples, Zenon
  <2> HIDE DEF x
  <2> QED BY <1>1, <1>2, <2>2
<1> HIDE DEF x
<1> QED BY <1>0, <1>1, <1>2, <1>4, <1>5

LEMMA SnappedFacts ==
  ASSUME RelayRing, NEW p \in Nat, p <= written
  PROVE  /\ Snapped(p) \in Nat /\ start <= Snapped(p) /\ Snapped(p) <= written
         /\ transport = "pcm" => Snapped(p) % Sample = 0
         /\ transport = "pcm" /\ p % Sample = 0 => p <= Snapped(p)
<1>0. start \in Nat /\ written \in Nat /\ start <= written
  BY DEF RelayRing
<1>1. CASE p = written
  BY <1>0, <1>1 DEF Snapped, RelayRing
<1>2. CASE p < written
  <2> DEFINE q == IF p >= start THEN p ELSE start
  <2>1. Max({p, start}) = q
    BY <1>0, MaxOfTwo
  <2>2. Snapped(p) = WholeSample(q)
    BY <1>0, <1>2, <2>1 DEF Snapped
  <2>3. q \in Nat /\ start <= q /\ p <= q /\ q <= written /\ (q = p \/ q = start)
    BY <1>0, <1>2
  <2> HIDE DEF q
  <2>4. /\ WholeSample(q) \in Nat /\ start <= WholeSample(q) /\ WholeSample(q) <= q
        /\ transport = "pcm" => WholeSample(q) % Sample = 0
        /\ transport = "pcm" /\ q % Sample = 0 => WholeSample(q) = q
    BY <2>3, WholeFacts
  <2>5. transport = "pcm" /\ p % Sample = 0 => q % Sample = 0
    BY <2>3 DEF RelayRing
  <2> QED BY <1>0, <2>2, <2>3, <2>4, <2>5
<1> QED BY <1>0, <1>1, <1>2

\* What a client is given when it may start or go on at p, and where that leaves it.
ClientStep(c, w, p, d) ==
    /\ serving' = [serving EXCEPT ![c] = w] /\ pos' = [pos EXCEPT ![c] = p]
    /\ sent' = [sent EXCEPT ![c] = d]
    /\ w \in Served /\ p \in Nat /\ p <= written /\ d \in [from : Nat, upto : Nat]
    /\ d.from <= d.upto
    /\ w \in {"request", "join", "snap"} => d.upto = 0
    /\ w \in {"peek", "align", "read", "write"} =>
          d.upto = p /\ (transport = "pcm" => p % Sample = 0)
    /\ d = sent[c] \/ (d.from >= sent[c].upto /\ d.from >= start)

LEMMA SpanFacts ==
  ASSUME NEW a \in Nat, NEW b \in Nat
  PROVE  Span(a, b) \in [from : Nat, upto : Nat] /\ Span(a, b).from = a /\ Span(a, b).upto = b
  BY DEF Span

LEMMA ClientFacts ==
  ASSUME ClientsInv, NEW c \in Clients
  PROVE  /\ serving[c] \in Served /\ pos[c] \in Nat /\ pos[c] <= written
         /\ sent[c] \in [from : Nat, upto : Nat] /\ sent[c].from <= sent[c].upto
         /\ sent[c].upto \in Nat /\ sent[c].from \in Nat
         /\ serving[c] \in {"request", "join", "snap"} => sent[c].upto = 0
         /\ serving[c] \in {"peek", "align", "read", "write"} =>
               sent[c].upto = pos[c] /\ (transport = "pcm" => pos[c] % Sample = 0)
         /\ pos = [pos EXCEPT ![c] = pos[c]] /\ sent = [sent EXCEPT ![c] = sent[c]]
         /\ serving = [serving EXCEPT ![c] = serving[c]]
  BY DEF ClientsInv

\* Where read_at goes on, and that it has samples to give when a client fell behind.
LEMMA ResumeFacts ==
  ASSUME RelayRing, ClientsInv, NEW c \in Clients, serving[c] = "read"
  PROVE  /\ ResumeAt(c) \in Nat /\ start <= ResumeAt(c) /\ ResumeAt(c) <= written
         /\ pos[c] <= ResumeAt(c)
         /\ transport = "pcm" => ResumeAt(c) % Sample = 0
         /\ ResumeAt(c) # pos[c] => ResumeAt(c) + Sample <= written
<1>0. /\ start \in Nat /\ written \in Nat /\ start <= written /\ Length = written - start
      /\ pos[c] \in Nat /\ pos[c] <= written
      /\ transport = "pcm" => pos[c] % Sample = 0
  BY ClientFacts DEF RelayRing, Length
<1>1. CASE pos[c] >= start
  <2>1. ResumeAt(c) = pos[c]
    BY <1>0, <1>1 DEF ResumeAt
  <2>2. start <= pos[c]
    BY <1>0, <1>1
  <2>3. pos[c] <= pos[c]
    BY <1>0
  <2> QED BY <1>0, <2>1, <2>2, <2>3, Zenon
<1>2. CASE pos[c] < start
  <2>1. RingMax < Length + FrameAlign /\ (FrameAlign = Frame \/ FrameAlign = Sample)
    <3>1. start > 0
      BY <1>0, <1>2
    <3>2. RingMax < Length + FrameAlign
      BY <3>1, Zenon DEF RelayRing
    <3> QED BY <3>2 DEF FrameAlign
  <2>2. Length \in Nat /\ 2 * Sample <= Length
    BY <1>0, <2>1, RelayConstants
  <2> DEFINE h == Length \div 2
             m == Min({Cushion, h})
  <2>3. h \in Nat /\ h <= Length /\ Sample <= h
    BY <2>2, RelayConstants
  <2>4. m = IF Cushion <= h THEN Cushion ELSE h
    BY <2>3, RelayConstants, MinOfTwo
  <2> HIDE DEF h, m
  <2>5. m \in Nat /\ m <= Length /\ Sample <= m
    BY <2>2, <2>3, <2>4, RelayConstants
  <2> DEFINE p == written - m
  <2>6. p \in Nat /\ start <= p /\ p + Sample <= written
    BY <1>0, <2>5, RelayConstants
  <2>7. Max({p, start}) = p
    BY <1>0, <2>6, MaxOfTwo
  <2>8. ResumeAt(c) = WholeSample(p)
    BY <1>2, <2>7 DEF ResumeAt, m, h
  <2> HIDE DEF p
  <2>9. /\ WholeSample(p) \in Nat /\ start <= WholeSample(p) /\ WholeSample(p) <= p
        /\ transport = "pcm" => WholeSample(p) % Sample = 0
    BY <2>6, WholeFacts
  <2> DEFINE r == WholeSample(p)
  <2> HIDE DEF r
  <2>10. r <= written /\ pos[c] <= r /\ r + Sample <= written
    BY <1>0, <1>2, <2>6, <2>9, RelayConstants DEF r
  <2> QED BY <2>8, <2>9, <2>10, Zenon DEF r
<1>3. pos[c] >= start \/ pos[c] < start
  BY <1>0
<1> QED BY <1>1, <1>2, <1>3, Zenon

LEMMA ReadFacts ==
  ASSUME RelayRing, ClientsInv, NEW c \in Clients, ReadAt(c)
  PROVE  \E w, p, d : ClientStep(c, w, p, d)
<1>0. /\ serving[c] = "read" /\ sent[c].upto = pos[c] /\ pos[c] \in Nat
      /\ UNCHANGED <<transport, relayStop, feeder, ring>>
  BY ClientFacts DEF ReadAt
<1>1. CASE relayStop
  <2>1. serving' = [serving EXCEPT ![c] = "closed"] /\ pos' = pos /\ sent' = sent
    BY <1>1, Zenon DEF ReadAt, Goes
  <2>2. ClientStep(c, "closed", pos[c], sent[c])
    BY <2>1, ClientFacts DEF ClientStep, Served
  <2> QED BY <2>2
<1>2. CASE ~relayStop
  <2> DEFINE from == ResumeAt(c)
             n    == IF from < written THEN Min({written - from, Buffer}) ELSE 0
             give == n - (n % Sample)
  <2>1. /\ from # pos[c] \/ give # 0
        /\ pos' = [pos EXCEPT ![c] = from + give]
        /\ IF give = 0 THEN UNCHANGED <<serving, sent>>
           ELSE serving' = [serving EXCEPT ![c] = "write"]
                /\ sent' = [sent EXCEPT ![c] = Span(from, from + give)]
    BY <1>2, Zenon DEF ReadAt, Goes
  <2>2. /\ from \in Nat /\ start <= from /\ from <= written /\ pos[c] <= from
        /\ transport = "pcm" => from % Sample = 0
        /\ from # pos[c] => from + Sample <= written
    BY <1>0, ResumeFacts
  <2> HIDE DEF from
  <2>3. /\ written \in Nat /\ Sample \in Nat \ {0} /\ Buffer \in Nat /\ Sample <= Buffer /\ start \in Nat
    BY RelayConstants DEF RelayRing
  <2>4. from < written => Min({written - from, Buffer}) =
                              IF written - from <= Buffer THEN written - from ELSE Buffer
    BY <2>2, <2>3, MinOfTwo
  <2>5. n \in Nat /\ n <= written - from /\ (from # pos[c] => Sample <= n)
    BY <2>2, <2>3, <2>4
  <2> HIDE DEF n
  <2>6. /\ give = (n \div Sample) * Sample /\ give \in Nat /\ give <= n /\ n \div Sample \in Nat
        /\ Sample <= n => give # 0
    <3>1. /\ (n \div Sample) * Sample \in Nat /\ (n \div Sample) * Sample <= n
          /\ n = (n \div Sample) * Sample + (n % Sample) /\ n \div Sample \in Nat
          /\ n % Sample \in 0..(Sample - 1)
      BY <2>3, <2>5, RoundDown
    <3> DEFINE whole == (n \div Sample) * Sample
    <3> HIDE DEF whole
    <3>2. whole \in Nat /\ whole <= n /\ n = whole + (n % Sample)
      BY <3>1 DEF whole
    <3>3. give = whole /\ (Sample <= n => give # 0)
      BY <2>3, <2>5, <3>1, <3>2
    <3> QED BY <3>1, <3>2, <3>3 DEF whole
  <2>7. give % Sample = 0
    BY <2>3, <2>6, Multiple
  <2> HIDE DEF give
  <2>8. give # 0
    BY <2>1, <2>5, <2>6
  <2>9. transport = "pcm" => (from + give) % Sample = 0
    <3>1. give \in Nat
      BY <2>6
    <3> QED BY <2>2, <2>3, <2>7, <3>1, Multiples, Zenon
  <2>10. from + give \in Nat /\ from <= from + give /\ from + give <= written
    BY <2>2, <2>3, <2>5, <2>6
  <2> DEFINE p == from + give
             d == Span(from, p)
  <2>11. d \in [from : Nat, upto : Nat] /\ d.from = from /\ d.upto = p
    BY <2>2, <2>10, SpanFacts
  <2>12. /\ pos' = [pos EXCEPT ![c] = p] /\ serving' = [serving EXCEPT ![c] = "write"]
         /\ sent' = [sent EXCEPT ![c] = d]
    BY <2>1, <2>8
  <2> HIDE DEF d, p
  <2>13. p \in Nat /\ from <= p /\ p <= written /\ (transport = "pcm" => p % Sample = 0)
    BY <2>9, <2>10 DEF p
  <2>14. ClientStep(c, "write", p, d)
    BY <1>0, <2>2, <2>11, <2>12, <2>13 DEF ClientStep, Served
  <2> QED BY <2>14
<1> QED BY <1>1, <1>2

\* A client that stands at p may read on from there.
LEMMA StandFacts ==
  ASSUME RelayRing, ClientsInv, NEW c \in Clients, NEW p \in Nat, NEW w \in {"peek", "read"},
         start <= p, p <= written, transport = "pcm" => p % Sample = 0, sent[c].upto <= p,
         Goes(c, w), Stands(c, p)
  PROVE  \E v, q, d : ClientStep(c, v, q, d)
<1> DEFINE d == Span(p, p)
<1>1. d \in [from : Nat, upto : Nat] /\ d.from = p /\ d.upto = p
  BY SpanFacts
<1>2. /\ serving' = [serving EXCEPT ![c] = w] /\ pos' = [pos EXCEPT ![c] = p]
      /\ sent' = [sent EXCEPT ![c] = d]
  BY DEF Goes, Stands
<1> HIDE DEF d
<1>3. d.from <= d.upto /\ d.from >= sent[c].upto /\ d.from >= start
  BY <1>1, ClientFacts DEF RelayRing
<1>4. ClientStep(c, w, p, d)
  BY <1>1, <1>2, <1>3 DEF ClientStep, Served
<1> QED BY <1>4

\* The smallest of some numbers.
LEMMA SmallestIs ==
  ASSUME NEW S \in SUBSET Nat, S # {}
  PROVE  Min(S) \in S
<1>1. PICK m \in S : \A n \in S : ~(<<n, m>> \in OpToRel(<, Nat))
  BY NatLessThanWellFounded, WFMin
<1>2. \A n \in S : ~(n < m)
  BY <1>1 DEF OpToRel
<1>3. \A n \in S : m <= n
  BY <1>2
<1> QED BY <1>3 DEF Min

LEMMA AlignFacts ==
  ASSUME RelayRing, ClientsInv, NEW c \in Clients, Align(c)
  PROVE  \E w, p, d : ClientStep(c, w, p, d)
<1>0. /\ start \in Nat /\ written \in Nat /\ start <= written /\ serving[c] = "align"
      /\ pos[c] \in Nat /\ pos[c] <= written /\ sent[c].upto = pos[c] /\ Goes(c, "read")
      /\ (transport = "pcm" => pos[c] % Sample = 0)
  BY ClientFacts DEF RelayRing, Align
<1>1. CASE transport = "pcm"
  <2>1. Stands(c, Snapped(pos[c]))
    BY <1>1, Zenon DEF Align
  <2>2. /\ Snapped(pos[c]) \in Nat /\ start <= Snapped(pos[c]) /\ Snapped(pos[c]) <= written
        /\ Snapped(pos[c]) % Sample = 0 /\ pos[c] <= Snapped(pos[c])
    BY <1>0, <1>1, SnappedFacts
  <2> QED BY <1>0, <2>1, <2>2, StandFacts
<1>2. CASE transport # "pcm"
  <2> DEFINE from  == Min({Max({pos[c], start}), written})
             syncs == {p \in from..(written - 1) : p % MpegFrame = 0}
             p == IF syncs = {} THEN from ELSE Min(syncs)
  <2>1. Stands(c, p)
    BY <1>2, Zenon DEF Align
  <2>2. Max({pos[c], start}) = IF pos[c] >= start THEN pos[c] ELSE start
    BY <1>0, MaxOfTwo
  <2>3. Max({pos[c], start}) \in Nat /\ pos[c] <= Max({pos[c], start})
        /\ start <= Max({pos[c], start}) /\ Max({pos[c], start}) <= written
    BY <1>0, <2>2
  <2>4. from = Max({pos[c], start})
    <3> DEFINE x == Max({pos[c], start})
    <3> HIDE DEF x
    <3>1. x \in Nat /\ x <= written
      BY <2>3 DEF x
    <3>2. Min({x, written}) = x
      BY <1>0, <3>1, MinOfTwo
    <3> QED BY <3>2 DEF x
  <2>5. from \in Nat /\ pos[c] <= from /\ start <= from /\ from <= written
    BY <2>3, <2>4
  <2> HIDE DEF from
  <2>6. syncs \in SUBSET Nat /\ \A q \in syncs : from <= q /\ q <= written
    BY <1>0, <2>5
  <2> HIDE DEF syncs
  <2>7. p \in Nat /\ from <= p /\ p <= written
    <3>1. CASE syncs = {}
      BY <2>5, <3>1
    <3>2. CASE syncs # {}
      <4>1. Min(syncs) \in syncs
        BY <2>6, <3>2, SmallestIs
      <4> QED BY <2>6, <3>2, <4>1
    <3> QED BY <3>1, <3>2
  <2> HIDE DEF p
  <2>8. start <= p /\ pos[c] <= p
    BY <1>0, <2>5, <2>7
  <2> QED BY <1>0, <1>2, <2>1, <2>7, <2>8, StandFacts
<1> QED BY <1>1, <1>2

LEMMA ServeFacts ==
  ASSUME RelayRing, ClientsInv, NEW c \in Clients, Serve(c)
  PROVE  /\ \E w, p, d : ClientStep(c, w, p, d)
         /\ UNCHANGED <<transport, start, written>>
<1>0. UNCHANGED <<transport, start, written>>
  BY Zenon DEF Serve, ServeRequest, Join, Snap, Peek, Align, ReadAt, Write, Stands, ring
<1>1. CASE ServeRequest(c) \/ Peek(c) \/ Write(c)
  <2>1. UNCHANGED <<pos, sent>>
    BY <1>1, Zenon DEF ServeRequest, Peek, Write
  <2>2. PICK w \in Served : /\ serving' = [serving EXCEPT ![c] = w]
                            /\ w \in {"request", "join", "snap"} => serving[c] = "request"
                            /\ w \in {"peek", "align", "read", "write"}
                                 => serving[c] \in {"peek", "align", "read", "write"}
    BY <1>1 DEF ServeRequest, Peek, Write, Goes, Served
  <2>3. ClientStep(c, w, pos[c], sent[c])
    BY <2>1, <2>2, ClientFacts DEF ClientStep
  <2> QED BY <1>0, <2>3
<1>2. CASE Join(c)
  <2> DEFINE m == Min({Cushion, Length})
  <2>1. /\ start \in Nat /\ written \in Nat /\ start <= written /\ Length = written - start
        /\ Length \in Nat
    BY DEF RelayRing, Length
  <2>2. m = IF Cushion <= Length THEN Cushion ELSE Length
    BY <2>1, RelayConstants, MinOfTwo
  <2> DEFINE p == written - m
  <2>3. /\ serving[c] = "join" /\ serving' = [serving EXCEPT ![c] = "snap"]
        /\ pos' = [pos EXCEPT ![c] = p] /\ sent' = sent
    BY <1>2 DEF Join, Goes
  <2> HIDE DEF m
  <2>4. p \in Nat /\ p <= written
    BY <2>1, <2>2, RelayConstants
  <2> HIDE DEF p
  <2>5. ClientStep(c, "snap", p, sent[c])
    BY <2>3, <2>4, ClientFacts DEF ClientStep, Served
  <2> QED BY <1>0, <2>5
<1>3. CASE Snap(c)
  <2>1. serving[c] = "snap" /\ Goes(c, "peek") /\ Stands(c, Snapped(pos[c]))
    BY <1>3 DEF Snap
  <2>2. pos[c] \in Nat /\ pos[c] <= written /\ sent[c].upto = 0
    BY <2>1, ClientFacts
  <2>3. /\ Snapped(pos[c]) \in Nat /\ start <= Snapped(pos[c]) /\ Snapped(pos[c]) <= written
        /\ transport = "pcm" => Snapped(pos[c]) % Sample = 0
    BY <2>2, SnappedFacts
  <2> QED BY <1>0, <2>1, <2>2, <2>3, StandFacts
<1>4. CASE Align(c)
  BY <1>0, <1>4, AlignFacts
<1>5. CASE ReadAt(c)
  BY <1>0, <1>5, ReadFacts
<1> QED BY <1>0, <1>1, <1>2, <1>3, <1>4, <1>5, Zenon DEF Serve

LEMMA ClientsStep ==
  ASSUME RelayRing, ClientsInv, [RelayNext]_relayVars
  PROVE  /\ ClientsInv'
         /\ \A c \in Clients :
               sent'[c] # sent[c] => sent'[c].from >= sent[c].upto /\ sent'[c].from >= start
<1>1. CASE UNCHANGED <<transport, clients>> /\ written <= written' /\ written' \in Nat
  <2>1. UNCHANGED <<transport, serving, pos, sent>>
    BY <1>1 DEF clients
  <2>2. written \in Nat
    BY DEF RelayRing
  <2>3. \A c \in Clients : pos[c] <= written'
    BY <1>1, <2>2, ClientFacts
  <2> QED BY <2>1, <2>3 DEF ClientsInv
<1>2. CASE UNCHANGED relayVars \/ NameFormat \/ Feed \/ OpenFails \/ StopRelay
  <2>1. UNCHANGED <<transport, clients, written>>
    BY <1>2, Zenon DEF relayVars, NameFormat, Pushing, Feed, OpenFails, StopRelay, ring
  <2>2. written <= written' /\ written' \in Nat
    BY <2>1 DEF RelayRing
  <2> QED BY <1>1, <2>1, <2>2
<1>3. CASE PushFrame \/ PushBytes
  <2>1. UNCHANGED <<transport, clients>>
    BY <1>3, Zenon DEF PushFrame, PushBytes, Pushing
  <2>2. PICK n \in Nat : written' = written + n
    BY <1>3, RelayConstants DEF PushFrame, PushBytes, Put
  <2>3. written <= written' /\ written' \in Nat
    BY <2>2 DEF RelayRing
  <2> QED BY <1>1, <2>1, <2>3
<1>4. CASE \E c \in Clients : Serve(c)
  <2>1. PICK c \in Clients : Serve(c)
    BY <1>4
  <2>2. PICK w, p, d : ClientStep(c, w, p, d)
    BY <2>1, ServeFacts
  <2>3. UNCHANGED <<transport, start, written>>
    BY <2>1, ServeFacts
  <2>4. /\ serving' \in [Clients -> Served] /\ pos' \in [Clients -> Nat]
        /\ sent' \in [Clients -> [from : Nat, upto : Nat]]
    BY <2>2 DEF ClientStep, ClientsInv
  <2>5. ASSUME NEW k \in Clients
        PROVE  /\ pos'[k] <= written' /\ sent'[k].from <= sent'[k].upto
               /\ serving'[k] \in {"request", "join", "snap"} => sent'[k].upto = 0
               /\ serving'[k] \in {"peek", "align", "read", "write"} =>
                     sent'[k].upto = pos'[k] /\ (transport' = "pcm" => pos'[k] % Sample = 0)
               /\ sent'[k] # sent[k] => sent'[k].from >= sent[k].upto /\ sent'[k].from >= start
    <3>1. CASE k = c
      <4>1. serving'[k] = w /\ pos'[k] = p /\ sent'[k] = d
        BY <2>2, <3>1 DEF ClientStep, ClientsInv
      <4> QED BY <2>2, <2>3, <3>1, <4>1 DEF ClientStep
    <3>2. CASE k # c
      <4>1. serving'[k] = serving[k] /\ pos'[k] = pos[k] /\ sent'[k] = sent[k]
        BY <2>2, <3>2 DEF ClientStep, ClientsInv
      <4> QED BY <2>3, <4>1, ClientFacts
    <3> QED BY <3>1, <3>2
  <2> QED BY <2>4, <2>5 DEF ClientsInv
<1> QED BY <1>2, <1>3, <1>4, Zenon DEF RelayNext

LEMMA RelayStep ==
  RelayInv /\ [RelayNext]_relayVars =>
      /\ RelayInv'
      /\ \A c \in Clients :
            sent'[c] # sent[c] => sent'[c].from >= sent[c].upto /\ sent'[c].from >= start
  BY RelayRingStep, ClientsStep DEF RelayInv

LEMMA RelayIsTyped == RelayInv => RelayTypeOK /\ ClientsKeepToSamples
<1> SUFFICES ASSUME RelayInv PROVE RelayTypeOK /\ ClientsKeepToSamples
  OBVIOUS
<1>1. RelayRing /\ ClientsInv
  BY DEF RelayInv
<1>2. {relayStop, format} \subseteq BOOLEAN
  BY <1>1, Zenon DEF RelayRing
<1>3. /\ transport \in {"pcm", "raw"} /\ feeder \in {"open", "stream", "pause", "done"}
      /\ start <= written /\ written <= MaxWritten /\ Length < RingMax + FrameAlign
  BY <1>1, Zenon DEF RelayRing
<1>4. serving \in [Clients -> Served]
  BY <1>1 DEF ClientsInv
<1>5. pos \in [Clients -> 0..MaxWritten]
  <2>1. \A c \in Clients : pos[c] \in Nat /\ pos[c] <= written
    BY <1>1, ClientFacts
  <2>2. written \in Nat /\ written <= MaxWritten /\ MaxWritten \in Nat
    BY <1>1, RelayConstants DEF RelayRing
  <2>3. \A c \in Clients : pos[c] \in 0..MaxWritten
    BY <2>1, <2>2
  <2> QED BY <1>1, <2>3 DEF ClientsInv
<1>6. \A c \in Clients : /\ sent[c].from <= sent[c].upto
                         /\ serving[c] \in {"read", "write"} => sent[c].upto = pos[c]
  BY <1>1, ClientFacts
<1>7. RelayTypeOK
  BY <1>2, <1>3, <1>4, <1>5, <1>6, Zenon DEF RelayTypeOK
<1>8. ClientsKeepToSamples
  BY <1>1, ClientFacts DEF ClientsKeepToSamples
<1> QED BY <1>7, <1>8

-----------------------------------------------------------------------------
(***************************************************************************)
(* Both.                                                                   *)
(***************************************************************************)

IInv == LocalInv /\ RelayInv

LEMMA StreamsStart == Init => IInv
  BY LocalStart, RelayStart DEF Init, IInv

LEMMA StepsApart ==
  ASSUME [Next]_vars PROVE [LocalNext]_localVars /\ [RelayNext]_relayVars
  BY Zenon DEF Next, vars, OnLocal, OnCast

LEMMA StreamsStep == IInv /\ [Next]_vars => IInv'
  BY StepsApart, LocalStep, RelayStep DEF IInv

LEMMA StreamsInvariant == Spec => []IInv
  BY StreamsStart, StreamsStep, PTL DEF Spec

\* Every variable of both has its type: the queues keep to their bounds, the backlog of
\* SteadyPlayout to one chunk over max_pending and the relay's ring to less than a frame over
\* RING_MAX; a session that play leaves running is one whose device did not open
\* (LocalPlayer::play, Fanout::push).
THEOREM StreamsAreTyped == Spec => []StreamsOK
<1>1. IInv => StreamsOK
  BY LocalIsTyped, RelayIsTyped, Zenon DEF IInv, LocalInv, StreamsOK
<1> QED BY <1>1, StreamsInvariant, PTL

\* Samples stay on their channel: the device gets whole frames, with lock-free pushes and pops
\* in any order, and a client reads on between two samples (push_slice, pop_slice, read_at).
THEOREM SamplesStayAligned == Spec => []StreamsStayAligned
<1>1. IInv => StreamsStayAligned
  BY LocalIsTyped, RelayIsTyped, Zenon DEF IInv, StreamsStayAligned
<1> QED BY <1>1, StreamsInvariant, PTL

\* Nothing is heard or sent twice, or after what is newer, and what a client gets is in the
\* ring when it gets it (SpscAudioRing, Fanout::read_at).
THEOREM NothingTwice == Spec => StreamsMoveForward
<1>1. IInv /\ [Next]_vars =>
        /\ [heard # <<>> /\ heard' # heard => heard'[1] > heard[Channels]]_heard
        /\ [\A c \in Clients :
              sent'[c] # sent[c] => sent'[c].from >= sent[c].upto /\ sent'[c].from >= start]_sent
  <2> SUFFICES ASSUME IInv, [Next]_vars
               PROVE  /\ heard # <<>> /\ heard' # heard => heard'[1] > heard[Channels]
                      /\ \A c \in Clients : sent'[c] # sent[c] =>
                            sent'[c].from >= sent[c].upto /\ sent'[c].from >= start
    OBVIOUS
  <2>1. [LocalNext]_localVars /\ [RelayNext]_relayVars
    BY StepsApart
  <2>2. LocalQueues /\ LocalCounts /\ RingInv /\ ScratchInv /\ HeardInv /\ RelayInv
    BY DEF IInv, LocalInv
  <2> QED BY <2>1, <2>2, RingStep, RelayStep
<1> QED BY <1>1, StreamsInvariant, PTL
        DEF Spec, StreamsMoveForward, FramesMoveForward, ClientsMoveForward
=============================================================================
