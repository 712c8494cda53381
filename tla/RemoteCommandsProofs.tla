------------------------ MODULE RemoteCommandsProofs ------------------------
(***************************************************************************)
(* Theorems about CommandLedger and RemoteCommands, for any commands,      *)
(* limits and number of operations.  The ledger is consistent, a command   *)
(* runs again only when it was forgotten, and the server is never told two *)
(* verdicts about a command.  RemoteCommands implements the ledger it is   *)
(* built on, every command in flight has an owner, and success is reported *)
(* only for the operation that the command itself started.                 *)
(***************************************************************************)
EXTENDS RemoteCommands, FiniteSetTheorems, TLAPS

-----------------------------------------------------------------------------
(***************************************************************************)
(* The ledger.                                                             *)
(***************************************************************************)

\* A command that was handed over and is not forgotten is in flight or done.
HandedOver == \A c \in Commands :
    taken[c] = forgotten[c] + (IF c \in inFlight \cup Completed THEN 1 ELSE 0)

\* A refused frame never reaches the book, and is only ever answered "failed".
RefusedOK == \A c \in Refused : /\ c \notin Pending \cup Completed
                                /\ answers[c] \subseteq {"failed"}

\* What the server knows of a command is the result the ledger still has.
AnswersOK == \A c \in Commands \ (Refused \cup turnedAway) :
    forgotten[c] = 0 => answers[c] \subseteq {completed[c]}

\* So is what the worker is about to send.
OutboxOK == \A r \in outbox :
    r.id \notin Refused /\ (forgotten[r.id] = 0 => r.verdict = completed[r.id])

LedgerInv == /\ LedgerTypeOK /\ IsFiniteSet(inFlight) /\ LedgerOK
             /\ HandedOver /\ RefusedOK /\ AnswersOK /\ OutboxOK

-----------------------------------------------------------------------------
(***************************************************************************)
(* Sequences without repetitions.                                          *)
(***************************************************************************)

LEMMA AppendFacts ==
  ASSUME NEW S, NEW s \in Seq(S), NEW e \in S
  PROVE  /\ ToSet(Append(s, e)) = ToSet(s) \cup {e}
         /\ IsInjective(s) /\ e \notin ToSet(s) => IsInjective(Append(s, e))
         /\ Append(s, e) \in Seq(S) /\ Len(Append(s, e)) = Len(s) + 1
         /\ Append(s, e) # <<>>
<1> DEFINE t == Append(s, e)
<1>1. /\ t \in Seq(S) /\ Len(t) = Len(s) + 1 /\ t # <<>>
      /\ t[Len(s) + 1] = e /\ \A i \in 1..Len(s) : t[i] = s[i]
      /\ DOMAIN t = 1..(Len(s) + 1) /\ DOMAIN s = 1..Len(s) /\ Len(s) \in Nat
  OBVIOUS
<1> HIDE DEF t
<1>2. ToSet(t) = ToSet(s) \cup {e}
  BY <1>1 DEF ToSet
<1>3. ASSUME IsInjective(s), e \notin ToSet(s) PROVE IsInjective(t)
  BY <1>1, <1>3 DEF ToSet, IsInjective
<1> QED BY <1>1, <1>2, <1>3 DEF t

LEMMA TailFacts ==
  ASSUME NEW S, NEW s \in Seq(S), s # <<>>
  PROVE  /\ Head(s) \in S /\ Head(s) \in ToSet(s)
         /\ Tail(s) \in Seq(S) /\ Len(Tail(s)) = Len(s) - 1
         /\ IsInjective(s) => /\ IsInjective(Tail(s))
                              /\ ToSet(Tail(s)) = ToSet(s) \ {Head(s)}
<1> DEFINE t == Tail(s)
<1>1. /\ t \in Seq(S) /\ Len(t) = Len(s) - 1 /\ Len(s) \in Nat \ {0}
      /\ \A i \in 1..(Len(s) - 1) : t[i] = s[i + 1]
      /\ DOMAIN t = 1..(Len(s) - 1) /\ DOMAIN s = 1..Len(s)
      /\ Head(s) = s[1] /\ s[1] \in S
  OBVIOUS
<1> HIDE DEF t
<1>2. ASSUME IsInjective(s) PROVE IsInjective(t)
  <2> SUFFICES ASSUME NEW a \in DOMAIN t, NEW b \in DOMAIN t, t[a] = t[b] PROVE a = b
    BY DEF IsInjective
  <2>1. s[a + 1] = s[b + 1] /\ a + 1 \in DOMAIN s /\ b + 1 \in DOMAIN s
    BY <1>1
  <2> QED BY <1>1, <1>2, <2>1 DEF IsInjective
<1>3. ASSUME IsInjective(s) PROVE ToSet(t) = ToSet(s) \ {s[1]}
  <2>1. ASSUME NEW i \in DOMAIN t PROVE t[i] \in ToSet(s) \ {s[1]}
    <3>1. t[i] = s[i + 1] /\ i + 1 \in DOMAIN s /\ 1 \in DOMAIN s /\ i + 1 # 1
      BY <1>1
    <3> QED BY <1>3, <3>1 DEF IsInjective, ToSet
  <2>2. ASSUME NEW i \in DOMAIN s, s[i] # s[1] PROVE s[i] \in ToSet(t)
    <3>1. i - 1 \in DOMAIN t /\ t[i - 1] = s[i]
      BY <1>1, <2>2
    <3> QED BY <3>1 DEF ToSet
  <2> QED BY <2>1, <2>2 DEF ToSet
<1>4. s[1] \in ToSet(s)
  BY <1>1 DEF ToSet
<1> QED BY <1>1, <1>2, <1>3, <1>4 DEF t

LEMMA InitInv == LedgerInit => LedgerInv
<1> SUFFICES ASSUME LedgerInit PROVE LedgerInv
  OBVIOUS
<1>1. ToSet(<<>>) = {} /\ IsInjective(<<>>)
  BY DEF ToSet, IsInjective
<1>2. LedgerTypeOK
  BY LimitsAssumption DEF LedgerInit, LedgerTypeOK, Result
<1>3. LedgerOK /\ IsFiniteSet(inFlight)
  BY <1>1, LimitsAssumption, FS_EmptySet
  DEF LedgerInit, LedgerOK, Pending, Completed
<1>4. HandedOver
  BY <1>1 DEF LedgerInit, HandedOver, Completed
<1>5. RefusedOK /\ AnswersOK /\ OutboxOK
  BY <1>1, CommandsAssumption
  DEF LedgerInit, RefusedOK, AnswersOK, OutboxOK, Pending, Completed
<1> QED BY <1>2, <1>3, <1>4, <1>5 DEF LedgerInv

-----------------------------------------------------------------------------
(***************************************************************************)
(* Steps that leave the book and its history alone.                        *)
(***************************************************************************)

LEMMA PendingResultsTyped ==
  ASSUME LedgerInv, NEW r \in PendingResults
  PROVE  /\ r \in Result /\ r.id \in Completed /\ r.verdict = completed[r.id]
         /\ r.id \notin Refused
<1>1. PICK c \in Undelivered : r = Answer(c, completed[c])
  BY DEF PendingResults
<1>2. c \in Commands /\ c \in Completed
  BY <1>1 DEF Undelivered, Completed, ToSet, LedgerInv, LedgerTypeOK
<1>3. completed[c] \in Verdicts
  BY <1>2 DEF LedgerInv, LedgerOK, LedgerTypeOK
<1>4. r.id = c /\ r.verdict = completed[c] /\ r \in Result
  BY <1>1, <1>2, <1>3 DEF Answer, Result
<1> QED BY <1>2, <1>4 DEF LedgerInv, RefusedOK

LEMMA LoopInv ==
  ASSUME LedgerInv, outbox' \subseteq outbox \cup PendingResults,
         link' \in {"down", "up", "dying"},
         at' \in {"collect", "sending", "read", "resending"},
         frames' \in 0..MaxFrames, connections' \in 0..MaxConnections,
         UNCHANGED <<book, history>>
  PROVE  LedgerInv'
<1>1. LedgerTypeOK'
  BY PendingResultsTyped DEF LedgerInv, LedgerTypeOK, book, history
<1>2. LedgerOK' /\ IsFiniteSet(inFlight)' /\ HandedOver' /\ RefusedOK' /\ AnswersOK'
  BY DEF LedgerInv, LedgerOK, HandedOver, RefusedOK, AnswersOK, Pending, Completed,
         book, history
<1>3. OutboxOK'
  BY PendingResultsTyped DEF LedgerInv, OutboxOK, book, history
<1> QED BY <1>1, <1>2, <1>3 DEF LedgerInv

LEMMA FrameTyped ==
  ASSUME LedgerInv, NEW c, Frame(c)
  PROVE  /\ frames' \in 0..MaxFrames /\ connections' \in 0..MaxConnections
         /\ link' \in {"down", "up", "dying"}
  BY LimitsAssumption DEF Frame, LedgerInv, LedgerTypeOK

LEMMA QuietStepInv ==
  ASSUME LedgerInv, Connect \/ Break \/ Disconnect \/ Collect \/ ReadNothing
  PROVE  LedgerInv'
<1>1. outbox' \subseteq outbox \cup PendingResults
  BY DEF Connect, Break, Disconnect, Collect, ReadNothing
<1>2. UNCHANGED <<book, history>>
  BY DEF Connect, Break, Disconnect, Collect, ReadNothing
<1>3. /\ link' \in {"down", "up", "dying"}
      /\ at' \in {"collect", "sending", "read", "resending"}
      /\ frames' \in 0..MaxFrames /\ connections' \in 0..MaxConnections
  BY LimitsAssumption
  DEF Connect, Break, Disconnect, Collect, ReadNothing, LedgerInv, LedgerTypeOK
<1> QED BY <1>1, <1>2, <1>3, LoopInv

LEMMA IgnoreInv ==
  ASSUME LedgerInv, NEW c \in Commands, IgnoreDuplicate(c) \/ Resend(c)
  PROVE  LedgerInv'
<1>1. ASSUME Resend(c) PROVE Answer(c, completed[c]) \in PendingResults
  BY <1>1 DEF Resend, AlreadyKnown, PendingResults, Undelivered
<1>2. outbox' \subseteq outbox \cup PendingResults
  BY <1>1 DEF IgnoreDuplicate, Resend
<1>3. UNCHANGED <<book, history>> /\ at' \in {"collect", "resending"}
  BY DEF IgnoreDuplicate, Resend
<1>4. Frame(c)
  BY DEF IgnoreDuplicate, Resend
<1> QED BY <1>2, <1>3, <1>4, FrameTyped, LoopInv

-----------------------------------------------------------------------------
(***************************************************************************)
(* Steps that tell the server something.                                   *)
(***************************************************************************)

LEMMA TellFacts ==
  ASSUME LedgerInv, NEW c \in Commands, NEW v \in Verdicts, Tell(Answer(c, v))
  PROVE  /\ answers' \in [Commands -> SUBSET Verdicts]
         /\ answers'[c] \subseteq answers[c] \cup {v}
         /\ \A d \in Commands : d # c => answers'[d] = answers[d]
<1>1. Answer(c, v).id = c /\ Answer(c, v).verdict = v
  BY DEF Answer
<1>2. answers \in [Commands -> SUBSET Verdicts]
  BY DEF LedgerInv, LedgerTypeOK
<1>3. \/ answers' = [answers EXCEPT ![c] = @ \cup {v}]
      \/ answers' = answers
  BY <1>1 DEF Tell
<1> QED BY <1>2, <1>3

\* A step that tells the server and leaves everything but the answers, the
\* delivered marks, the outbox and turnedAway alone.
LEMMA TellInv ==
  ASSUME LedgerInv, NEW c \in Commands, NEW v \in Verdicts, Tell(Answer(c, v)),
         \/ c \in Refused /\ v = "failed"
         \/ c \notin Refused /\ c \in turnedAway'
         \/ c \notin Refused /\ (forgotten[c] = 0 => v = completed[c]),
         outbox' \subseteq outbox,
         delivered \subseteq delivered', delivered' \subseteq Completed,
         turnedAway \subseteq turnedAway', turnedAway' \subseteq Commands,
         link' \in {"down", "up", "dying"},
         at' \in {"collect", "sending", "read", "resending"},
         frames' \in 0..MaxFrames, connections' \in 0..MaxConnections,
         UNCHANGED <<queued, inFlight, order, completed, taken, forgotten>>
  PROVE  LedgerInv'
<1>1. /\ answers' \in [Commands -> SUBSET Verdicts]
      /\ answers'[c] \subseteq answers[c] \cup {v}
      /\ \A d \in Commands : d # c => answers'[d] = answers[d]
  BY TellFacts
<1>2. LedgerTypeOK'
  <2>1. Completed \subseteq Commands
    BY DEF Completed, ToSet, LedgerInv, LedgerTypeOK
  <2> QED BY <1>1, <2>1 DEF LedgerInv, LedgerTypeOK
<1>3. LedgerOK' /\ IsFiniteSet(inFlight)' /\ HandedOver'
  BY DEF LedgerInv, LedgerOK, HandedOver, Pending, Completed
<1>4. RefusedOK'
  BY <1>1, CommandsAssumption DEF LedgerInv, RefusedOK, Pending, Completed
<1>5. AnswersOK'
  BY <1>1 DEF LedgerInv, AnswersOK
<1>6. OutboxOK'
  BY DEF LedgerInv, OutboxOK
<1> QED BY <1>2, <1>3, <1>4, <1>5, <1>6 DEF LedgerInv

LEMMA SendInv ==
  ASSUME LedgerInv, NEW c \in Commands, NEW v \in Verdicts,
         SendResult(Answer(c, v)) \/ SendFails(Answer(c, v))
  PROVE  LedgerInv'
<1> DEFINE r == Answer(c, v)
<1>1. r.id = c /\ r.verdict = v
  BY DEF Answer
<1> HIDE DEF r
<1>2. r \in outbox /\ Tell(r) /\ outbox' \subseteq outbox
  BY DEF SendResult, SendFails, r
<1>3. c \notin Refused /\ (forgotten[c] = 0 => v = completed[c])
  BY <1>1, <1>2 DEF LedgerInv, OutboxOK
<1>4. delivered \subseteq delivered' /\ delivered' \subseteq Completed
  BY <1>1 DEF SendResult, SendFails, book, LedgerInv, LedgerOK, r
<1>5. UNCHANGED <<queued, inFlight, order, completed, taken, forgotten, turnedAway,
                  frames, connections>>
  BY DEF SendResult, SendFails, book
<1>6. /\ link' \in {"down", "up", "dying"}
      /\ at' \in {"collect", "sending", "read", "resending"}
  BY DEF SendResult, SendFails, LedgerInv, LedgerTypeOK
<1>7. /\ turnedAway' \subseteq Commands
      /\ frames' \in 0..MaxFrames /\ connections' \in 0..MaxConnections
  BY <1>5 DEF LedgerInv, LedgerTypeOK
<1>8. Tell(Answer(c, v))
  BY <1>2 DEF r
<1> QED BY <1>2, <1>3, <1>4, <1>5, <1>6, <1>7, <1>8, TellInv

LEMMA TurnDownInv ==
  ASSUME LedgerInv, NEW c \in Commands, RefuseFrame(c) \/ TurnAway(c)
  PROVE  LedgerInv'
<1>1. Tell(Answer(c, "failed")) /\ Frame(c) /\ at' = "collect" /\ outbox' = outbox
  BY DEF RefuseFrame, TurnAway
<1>2. \/ c \in Refused /\ turnedAway' = turnedAway
      \/ c \notin Refused /\ turnedAway' = turnedAway \cup {c}
  BY DEF RefuseFrame, TurnAway
<1>3. UNCHANGED <<queued, inFlight, order, completed, delivered, taken, forgotten>>
  BY DEF RefuseFrame, TurnAway, book
<1>4. delivered \subseteq Completed /\ turnedAway \subseteq Commands
  BY DEF LedgerInv, LedgerOK, LedgerTypeOK
<1> QED BY <1>1, <1>2, <1>3, <1>4, FrameTyped, TellInv DEF Verdicts

-----------------------------------------------------------------------------
(***************************************************************************)
(* Steps of the book itself.                                               *)
(***************************************************************************)

LEMMA AcceptInv == ASSUME LedgerInv, NEW c \in Commands, Accept(c) PROVE LedgerInv'
<1>1. c \notin Pending \cup Completed \cup Refused
  BY DEF Accept, AlreadyKnown
<1>2. /\ ToSet(queued') = ToSet(queued) \cup {c} /\ IsInjective(queued')
      /\ queued' \in Seq(Commands) /\ Len(queued') = Len(queued) + 1
  BY <1>1, AppendFacts DEF Accept, LedgerInv, LedgerOK, LedgerTypeOK, Pending
<1>3. UNCHANGED <<outbox, inFlight, order, completed, delivered, answers, turnedAway,
                  taken, forgotten>> /\ at' = "collect"
  BY DEF Accept, history
<1>4. LedgerTypeOK'
  BY <1>2, <1>3, FrameTyped DEF Accept, LedgerInv, LedgerTypeOK
<1>5. LedgerOK' /\ IsFiniteSet(inFlight)'
  <2>1. Cardinality(inFlight) \in Nat /\ Len(queued) \in Nat
    BY FS_CardinalityType DEF LedgerInv, LedgerTypeOK
  <2>2. Len(queued') + Cardinality(inFlight') <= MaxPending
    BY <1>2, <1>3, <2>1, LimitsAssumption DEF Accept, Room
  <2> QED BY <1>1, <1>2, <1>3, <2>2
    DEF LedgerInv, LedgerOK, Pending, Completed
<1>6. HandedOver' /\ AnswersOK' /\ OutboxOK'
  BY <1>3 DEF LedgerInv, HandedOver, AnswersOK, OutboxOK, Completed
<1>7. RefusedOK'
  BY <1>1, <1>2, <1>3 DEF LedgerInv, RefusedOK, Pending, Completed
<1> QED BY <1>4, <1>5, <1>6, <1>7 DEF LedgerInv

\* A step of the egui thread changes the book only.
LEMMA BookTyped ==
  ASSUME LedgerTypeOK,
         UNCHANGED <<link, at, outbox, answers, turnedAway, frames, connections>>,
         queued' \in Seq(Commands), inFlight' \subseteq Commands,
         order' \in Seq(Commands), Len(order') <= MaxDeduped,
         completed' \in [Commands -> Verdicts \cup {"none"}],
         delivered' \subseteq Commands,
         taken' \in [Commands -> Nat], forgotten' \in [Commands -> Nat]
  PROVE  LedgerTypeOK'
  BY DEF LedgerTypeOK

LEMMA TakeInv == ASSUME LedgerInv, TakeCommand PROVE LedgerInv'
<1> DEFINE h == Head(queued)
<1>1. /\ h \in Commands /\ h \in ToSet(queued)
      /\ queued' \in Seq(Commands) /\ Len(queued') = Len(queued) - 1
      /\ IsInjective(queued') /\ ToSet(queued') = ToSet(queued) \ {h}
      /\ Len(queued) \in Nat
  BY TailFacts DEF TakeCommand, LedgerInv, LedgerOK, LedgerTypeOK
<1>2. inFlight' = inFlight \cup {h} /\ taken' = [taken EXCEPT ![h] = @ + 1]
  BY DEF TakeCommand
<1>3. UNCHANGED <<link, at, outbox, order, completed, delivered, answers, turnedAway,
                  forgotten, frames, connections>>
  BY DEF TakeCommand, network
<1> HIDE DEF h
<1>4. h \notin inFlight /\ h \notin Completed /\ h \notin Refused
  BY <1>1 DEF LedgerInv, LedgerOK, RefusedOK, Pending
<1>t. /\ taken \in [Commands -> Nat] /\ forgotten \in [Commands -> Nat]
      /\ h \in Commands /\ taken' = [taken EXCEPT ![h] = @ + 1]
  BY <1>1, <1>2 DEF LedgerInv, LedgerTypeOK
<1>5. LedgerTypeOK'
  <2>1. inFlight' \subseteq Commands
    BY <1>1, <1>2 DEF LedgerInv, LedgerTypeOK
  <2>2. taken' \in [Commands -> Nat]
    BY <1>t
  <2>3. /\ order' \in Seq(Commands) /\ Len(order') <= MaxDeduped
        /\ completed' \in [Commands -> Verdicts \cup {"none"}]
        /\ delivered' \subseteq Commands /\ forgotten' \in [Commands -> Nat]
    BY <1>3 DEF LedgerInv, LedgerTypeOK
  <2>4. LedgerTypeOK
    BY DEF LedgerInv
  <2> QED BY <1>1, <1>3, <2>1, <2>2, <2>3, <2>4, BookTyped
<1>6. IsFiniteSet(inFlight') /\ Cardinality(inFlight') = Cardinality(inFlight) + 1
      /\ Cardinality(inFlight) \in Nat
  BY <1>2, <1>4, FS_AddElement, FS_CardinalityType DEF LedgerInv
<1>7. LedgerOK'
  <2>1. Pending' = Pending /\ Completed' = Completed
    BY <1>1, <1>2, <1>3 DEF Pending, Completed
  <2>2. ToSet(queued') \cap inFlight' = {}
    BY <1>1, <1>2 DEF LedgerInv, LedgerOK
  <2>3. Len(queued') + Cardinality(inFlight') <= MaxPending
    BY <1>1, <1>6, LimitsAssumption DEF LedgerInv, LedgerOK
  <2>4. delivered' \subseteq Completed' /\ Pending' \cap Completed' = {}
    BY <1>3, <2>1 DEF LedgerInv, LedgerOK
  <2>5. \A c \in Commands : completed'[c] # "none" <=> c \in Completed'
    BY <1>3, <2>1 DEF LedgerInv, LedgerOK
  <2>6. IsInjective(queued') /\ IsInjective(order')
    BY <1>1, <1>3 DEF LedgerInv, LedgerOK
  <2> QED BY <2>2, <2>3, <2>4, <2>5, <2>6 DEF LedgerOK
<1>8. HandedOver'
  <2>1. \A c \in Commands : taken'[c] = taken[c] + IF c = h THEN 1 ELSE 0
    BY <1>t
  <2>2. /\ forgotten' = forgotten /\ Completed' = Completed
        /\ inFlight' = inFlight \cup {h} /\ h \notin inFlight \cup Completed
    BY <1>2, <1>3, <1>4 DEF Completed
  <2>3. HandedOver
    BY DEF LedgerInv
  <2> QED BY <1>t, <2>1, <2>2, <2>3 DEF HandedOver
<1>9. RefusedOK' /\ AnswersOK' /\ OutboxOK'
  BY <1>1, <1>2, <1>3, <1>4
  DEF LedgerInv, RefusedOK, AnswersOK, OutboxOK, Pending, Completed
<1> QED BY <1>5, <1>6, <1>7, <1>8, <1>9 DEF LedgerInv

LEMMA CompleteInv ==
  ASSUME LedgerInv, NEW c \in Commands, NEW v \in Verdicts, Complete(c, v)
  PROVE  LedgerInv'
<1> DEFINE grown == Append(order, c)
           done  == [completed EXCEPT ![c] = v]
           old   == Head(grown)
<1>1. /\ c \in inFlight /\ inFlight' = inFlight \ {c}
      /\ UNCHANGED <<link, at, outbox, queued, answers, turnedAway, taken, frames,
                     connections>>
  BY DEF Complete, network
<1>2. c \notin Completed /\ c \notin ToSet(queued) /\ c \notin Refused
  BY <1>1 DEF LedgerInv, LedgerOK, RefusedOK, Pending
<1>3. /\ ToSet(grown) = Completed \cup {c} /\ IsInjective(grown)
      /\ grown \in Seq(Commands) /\ Len(grown) = Len(order) + 1 /\ grown # <<>>
      /\ Len(order) \in 0..MaxDeduped
  <2>1. order \in Seq(Commands) /\ IsInjective(order) /\ c \notin ToSet(order)
    BY <1>2 DEF LedgerInv, LedgerOK, LedgerTypeOK, Completed
  <2>2. Len(order) \in 0..MaxDeduped
    BY <2>1, LimitsAssumption DEF LedgerInv, LedgerTypeOK
  <2>3. /\ ToSet(grown) = ToSet(order) \cup {c} /\ IsInjective(grown)
        /\ grown \in Seq(Commands) /\ Len(grown) = Len(order) + 1 /\ grown # <<>>
    BY <2>1, AppendFacts
  <2> QED BY <2>2, <2>3 DEF Completed
<1>4. /\ old \in Commands /\ old \in ToSet(grown)
      /\ Tail(grown) \in Seq(Commands) /\ Len(Tail(grown)) = Len(order)
      /\ IsInjective(Tail(grown)) /\ ToSet(Tail(grown)) = ToSet(grown) \ {old}
  <2>1. Len(Tail(grown)) = Len(grown) - 1 /\ Len(order) \in Nat
    BY <1>3, TailFacts, LimitsAssumption
  <2> HIDE DEF grown
  <2>2. /\ Head(grown) \in Commands /\ Head(grown) \in ToSet(grown)
        /\ Tail(grown) \in Seq(Commands)
        /\ IsInjective(Tail(grown)) /\ ToSet(Tail(grown)) = ToSet(grown) \ {Head(grown)}
    BY <1>3, TailFacts, Zenon
  <2> QED BY <1>3, <2>1, <2>2
<1>5. \/ /\ order' = Tail(grown) /\ completed' = [done EXCEPT ![old] = "none"]
         /\ delivered' = delivered \ {old}
         /\ forgotten' = [forgotten EXCEPT ![old] = @ + 1]
      \/ /\ order' = grown /\ completed' = done
         /\ UNCHANGED <<delivered, forgotten>>
         /\ ~(Len(grown) > MaxDeduped)
  BY DEF Complete, Overflows
<1>6. done \in [Commands -> Verdicts \cup {"none"}] /\ done[c] = v /\ v # "none"
      /\ \A d \in Commands : d # c => done[d] = completed[d]
  BY DEF LedgerInv, LedgerTypeOK, Verdicts
<1> HIDE DEF grown, done, old
<1>7. IsFiniteSet(inFlight') /\ Cardinality(inFlight') <= Cardinality(inFlight)
      /\ Cardinality(inFlight) \in Nat /\ Cardinality(inFlight') \in Nat
  BY <1>1, FS_Subset, FS_CardinalityType DEF LedgerInv
<1>8. CASE /\ order' = grown /\ completed' = done
           /\ UNCHANGED <<delivered, forgotten>>
           /\ ~(Len(grown) > MaxDeduped)
  <2>1. LedgerTypeOK'
    <3>1. order' \in Seq(Commands) /\ Len(order') <= MaxDeduped
      BY <1>3, <1>8, LimitsAssumption
    <3>2. completed' \in [Commands -> Verdicts \cup {"none"}]
      BY <1>6, <1>8
    <3>3. LedgerTypeOK
      BY DEF LedgerInv
    <3>4. /\ queued' \in Seq(Commands) /\ inFlight' \subseteq Commands
          /\ delivered' \subseteq Commands /\ taken' \in [Commands -> Nat]
          /\ forgotten' \in [Commands -> Nat]
      BY <1>1, <1>8, <3>3 DEF LedgerTypeOK
    <3> QED BY <1>1, <3>1, <3>2, <3>3, <3>4, BookTyped
  <2>2. Completed' = Completed \cup {c}
    BY <1>3, <1>8 DEF Completed
  <2>3. Len(queued') + Cardinality(inFlight') <= MaxPending
    BY <1>1, <1>7, LimitsAssumption DEF LedgerInv, LedgerOK, LedgerTypeOK
  <2>4. LedgerOK'
    BY <1>1, <1>2, <1>3, <1>6, <1>8, <2>2, <2>3 DEF LedgerInv, LedgerOK, Pending
  <2>5. HandedOver'
    BY <1>1, <1>8, <2>2 DEF LedgerInv, HandedOver
  <2>6. RefusedOK'
    BY <1>1, <1>2, <2>2 DEF LedgerInv, RefusedOK, Pending
  <2>7. AnswersOK' /\ OutboxOK'
    <3>1. completed[c] = "none"
      BY <1>2 DEF LedgerInv, LedgerOK
    <3>2. ASSUME forgotten[c] = 0, c \notin turnedAway PROVE answers[c] = {}
      BY <1>2, <3>1, <3>2 DEF LedgerInv, LedgerTypeOK, AnswersOK, Verdicts
    <3>3. ASSUME NEW r \in outbox, r.id = c PROVE forgotten[c] # 0
      BY <3>1, <3>3 DEF LedgerInv, LedgerTypeOK, OutboxOK, Result, Verdicts
    <3>4. \A r \in outbox : r.id \in Commands
      BY DEF LedgerInv, LedgerTypeOK, Result
    <3> QED BY <1>1, <1>6, <1>8, <3>2, <3>3, <3>4 DEF LedgerInv, AnswersOK, OutboxOK
  <2> QED BY <1>7, <2>1, <2>4, <2>5, <2>6, <2>7 DEF LedgerInv
<1>9. CASE /\ order' = Tail(grown) /\ completed' = [done EXCEPT ![old] = "none"]
           /\ delivered' = delivered \ {old}
           /\ forgotten' = [forgotten EXCEPT ![old] = @ + 1]
  <2>0. /\ forgotten \in [Commands -> Nat] /\ old \in Commands
        /\ forgotten' = [forgotten EXCEPT ![old] = @ + 1]
    BY <1>4, <1>9 DEF LedgerInv, LedgerTypeOK
  <2>1. LedgerTypeOK'
    <3>1. order' \in Seq(Commands) /\ Len(order') <= MaxDeduped
      BY <1>3, <1>4, <1>9, LimitsAssumption
    <3>2. completed' \in [Commands -> Verdicts \cup {"none"}]
      BY <1>6, <1>9
    <3>3. forgotten' \in [Commands -> Nat]
      BY <2>0
    <3>4. LedgerTypeOK
      BY DEF LedgerInv
    <3>5. /\ queued' \in Seq(Commands) /\ inFlight' \subseteq Commands
          /\ delivered' \subseteq Commands /\ taken' \in [Commands -> Nat]
      BY <1>1, <1>9, <3>4 DEF LedgerTypeOK
    <3> QED BY <1>1, <3>1, <3>2, <3>3, <3>4, <3>5, BookTyped
  <2>2. Completed' = (Completed \cup {c}) \ {old}
    BY <1>3, <1>4, <1>9 DEF Completed
  <2>3. Len(queued') + Cardinality(inFlight') <= MaxPending
    BY <1>1, <1>7, LimitsAssumption DEF LedgerInv, LedgerOK, LedgerTypeOK
  <2>4. \A d \in Commands : completed'[d] = IF d = old THEN "none" ELSE done[d]
    BY <1>4, <1>6, <1>9
  <2>5. LedgerOK'
    <3>1. \A d \in Commands : completed'[d] # "none" <=> d \in Completed'
      BY <1>6, <2>2, <2>4 DEF LedgerInv, LedgerOK
    <3>2. delivered' \subseteq Completed'
      BY <1>9, <2>2 DEF LedgerInv, LedgerOK
    <3>3. (Pending \cap Completed = {})' /\ (ToSet(queued) \cap inFlight = {})'
      BY <1>1, <1>2, <2>2 DEF LedgerInv, LedgerOK, Pending
    <3>4. IsInjective(queued)' /\ IsInjective(order)'
      BY <1>1, <1>4, <1>9 DEF LedgerInv, LedgerOK
    <3> QED BY <2>3, <3>1, <3>2, <3>3, <3>4 DEF LedgerOK
  <2>6. \A d \in Commands : forgotten'[d] = forgotten[d] + IF d = old THEN 1 ELSE 0
    BY <2>0
  <2>7. HandedOver'
    <3> SUFFICES ASSUME NEW d \in Commands
                 PROVE  taken'[d] = forgotten'[d]
                          + (IF d \in inFlight' \cup Completed' THEN 1 ELSE 0)
      BY DEF HandedOver
    <3>1. taken'[d] = forgotten[d] + (IF d \in inFlight \cup Completed THEN 1 ELSE 0)
          /\ forgotten[d] \in Nat
      BY <1>1 DEF LedgerInv, HandedOver, LedgerTypeOK
    <3>2. CASE d = old
      <4>1. d \in inFlight \cup Completed
        BY <1>1, <1>3, <1>4, <3>2
      <4>2. d \notin inFlight' \cup Completed'
        BY <1>1, <1>3, <1>4, <2>2, <3>2 DEF LedgerInv, LedgerOK, Pending
      <4> QED BY <2>6, <3>1, <3>2, <4>1, <4>2
    <3>3. CASE d # old
      BY <1>1, <2>2, <2>6, <3>1, <3>3
    <3> QED BY <3>2, <3>3
  <2>8. RefusedOK'
    BY <1>1, <1>2, <2>2 DEF LedgerInv, RefusedOK, Pending
  <2>9. AnswersOK' /\ OutboxOK'
    <3>1. completed[c] = "none"
      BY <1>2 DEF LedgerInv, LedgerOK
    <3>2. ASSUME forgotten[c] = 0, c \notin turnedAway PROVE answers[c] = {}
      BY <1>2, <3>1, <3>2 DEF LedgerInv, LedgerTypeOK, AnswersOK, Verdicts
    <3>3. ASSUME NEW r \in outbox, r.id = c PROVE forgotten[c] # 0
      BY <3>1, <3>3 DEF LedgerInv, LedgerTypeOK, OutboxOK, Result, Verdicts
    <3>4. \A r \in outbox : r.id \in Commands
      BY DEF LedgerInv, LedgerTypeOK, Result
    <3>5. \A d \in Commands :
             forgotten'[d] = 0 => d # old /\ forgotten[d] = 0
      BY <2>6 DEF LedgerInv, LedgerTypeOK
    <3> QED BY <1>1, <1>6, <2>4, <3>2, <3>3, <3>4, <3>5 DEF LedgerInv, AnswersOK, OutboxOK
  <2> QED BY <1>7, <2>1, <2>5, <2>7, <2>8, <2>9 DEF LedgerInv
<1> QED BY <1>5, <1>8, <1>9

-----------------------------------------------------------------------------
LEMMA NetworkInv == ASSUME LedgerInv, NetworkStep PROVE LedgerInv'
<1>1. ASSUME NEW c \in Commands, Receive(c) PROVE LedgerInv'
  BY <1>1, IgnoreInv, TurnDownInv, AcceptInv DEF Receive
<1>2. CASE SendStep
  BY <1>2, SendInv DEF SendStep
<1>3. ASSUME NEW c \in Commands, NEW v \in Verdicts, SendFails(Answer(c, v)) PROVE LedgerInv'
  BY <1>3, SendInv
<1>4. CASE Connect \/ Break \/ Disconnect \/ Collect \/ ReadNothing
  BY <1>4, QuietStepInv
<1> QED BY <1>1, <1>2, <1>3, <1>4 DEF NetworkStep, WorkerStep

LEMMA StepInv == LedgerInv /\ [LedgerNext]_ledger => LedgerInv'
<1> SUFFICES ASSUME LedgerInv, [LedgerNext]_ledger PROVE LedgerInv'
  OBVIOUS
<1>1. CASE NetworkStep
  BY <1>1, NetworkInv
<1>2. CASE TakeCommand
  BY <1>2, TakeInv
<1>3. ASSUME NEW c \in Commands, NEW v \in Verdicts, Complete(c, v) PROVE LedgerInv'
  BY <1>3, CompleteInv
<1>4. CASE UNCHANGED ledger
  <2>1. UNCHANGED <<book, history>> /\ UNCHANGED <<link, at, outbox, frames, connections>>
    BY <1>4 DEF ledger, network
  <2>2. /\ link' \in {"down", "up", "dying"}
        /\ at' \in {"collect", "sending", "read", "resending"}
        /\ frames' \in 0..MaxFrames /\ connections' \in 0..MaxConnections
    BY <2>1 DEF LedgerInv, LedgerTypeOK
  <2> QED BY <2>1, <2>2, LoopInv
<1> QED BY <1>1, <1>2, <1>3, <1>4 DEF LedgerNext

\* Every reachable ledger satisfies the inductive invariant.
THEOREM LedgerInvariance == LedgerSpec => []LedgerInv
  BY InitInv, StepInv, PTL DEF LedgerSpec

\* CommandBook: the places of a command exclude each other, the limits hold and
\* marks and results belong to completed commands, for any limits.
THEOREM LedgerConsistent == LedgerSpec => []LedgerOK
<1>1. LedgerInv => LedgerOK
  BY DEF LedgerInv
<1> QED BY <1>1, LedgerInvariance, PTL

\* receive_command and complete: hardware work is repeated only for a command
\* that the bounded ledger has dropped.
THEOREM NeverReplayed == LedgerSpec => []ReplayNeedsForgetting
<1>1. LedgerInv => ReplayNeedsForgetting
  <2> SUFFICES ASSUME LedgerInv, NEW c \in Commands PROVE taken[c] <= 1 + forgotten[c]
    BY DEF ReplayNeedsForgetting
  <2>1. forgotten[c] \in Nat
    BY DEF LedgerInv, LedgerTypeOK
  <2>2. taken[c] \in {forgotten[c], forgotten[c] + 1}
    BY <2>1 DEF LedgerInv, HandedOver
  <2> QED BY <2>1, <2>2
<1> QED BY <1>1, LedgerInvariance, PTL

\* send_pending_results and receive_command: the server never hears both
\* verdicts of a command that was neither dropped nor turned away.
THEOREM NeverTwoVerdicts == LedgerSpec => []OneVerdict
<1>1. LedgerInv => OneVerdict
  <2> SUFFICES ASSUME LedgerInv, NEW c \in Commands \ turnedAway, forgotten[c] = 0
               PROVE  Cardinality(answers[c]) <= 1
    BY DEF OneVerdict
  <2>1. PICK x : answers[c] \subseteq {x}
    BY DEF LedgerInv, RefusedOK, AnswersOK
  <2>2. IsFiniteSet({x}) /\ Cardinality({x}) = 1
    BY FS_Singleton
  <2> QED BY <2>1, <2>2, FS_Subset
<1> QED BY <1>1, LedgerInvariance, PTL

\* The book keeps to its limits: queue, results and their order are of their
\* types in every reachable state.
THEOREM LedgerTypeCorrect == LedgerSpec => []LedgerTypeOK
<1>1. LedgerInv => LedgerTypeOK
  BY DEF LedgerInv
<1> QED BY <1>1, LedgerInvariance, PTL

-----------------------------------------------------------------------------
(***************************************************************************)
(* Running the commands.                                                   *)
(***************************************************************************)

\* The types the argument needs.
OwnerOK ==
    /\ current \in Commands \cup {NoCommand}
    /\ generation \in Nat
    /\ pending \in [id : Commands, generation : Nat] \cup {NoOne}
    /\ operation \in [Commands -> Nat]

\* The pending command waits for the operation it started.
PendingOK == pending # NoOne => operation[pending.id] = pending.generation

\* SuccessWasObserved, for every result that the ledger has.
SuccessOK == \A c \in Commands :
    completed[c] = "succeeded" => Kind[c] = "volume" \/ operation[c] \in observed

RemoteInv == LedgerInv /\ OwnerOK /\ InFlightIsOwned /\ PendingOK /\ SuccessOK

-----------------------------------------------------------------------------
LEMMA NoOneFacts ==
  ASSUME OwnerOK
  PROVE  /\ NoOne.id = NoCommand
         /\ pending = NoOne => pending.id = NoCommand
         /\ pending # NoOne => /\ pending.id \in Commands /\ pending.id # NoCommand
                               /\ pending.generation \in Nat
  BY KindAssumption DEF OwnerOK, NoOne

LEMMA InitRemote == RemoteInit => RemoteInv
<1> SUFFICES ASSUME RemoteInit PROVE RemoteInv
  OBVIOUS
<1>1. LedgerInv /\ LedgerInit
  BY InitInv DEF RemoteInit
<1>2. OwnerOK
  BY DEF RemoteInit, OwnerOK
<1>3. InFlightIsOwned
  BY <1>1 DEF RemoteInit, LedgerInit, InFlightIsOwned, NoOne
<1>4. PendingOK /\ SuccessOK
  BY <1>1 DEF RemoteInit, LedgerInit, PendingOK, SuccessOK
<1> QED BY <1>1, <1>2, <1>3, <1>4 DEF RemoteInv

\* What completing a command does to the ledger.
LEMMA CompleteFacts ==
  ASSUME LedgerInv, NEW c \in Commands, NEW v \in Verdicts, CompleteCommand(c, v)
  PROVE  /\ [LedgerNext]_ledger
         /\ inFlight' = inFlight \ {c}
         /\ \A d \in Commands : completed'[d] = "succeeded" =>
                \/ completed[d] = "succeeded"
                \/ d = c /\ v = "succeeded"
<1>1. CASE c \notin inFlight /\ UNCHANGED ledger
  BY <1>1 DEF ledger, book
<1>2. CASE Complete(c, v)
  <2> DEFINE done == [completed EXCEPT ![c] = v]
             old  == Head(Append(order, c))
  <2>1. completed' = done \/ completed' = [done EXCEPT ![old] = "none"]
    BY <1>2 DEF Complete
  <2>2. completed \in [Commands -> Verdicts \cup {"none"}]
    BY DEF LedgerInv, LedgerTypeOK
  <2> HIDE DEF old
  <2>3. \A d \in Commands : completed'[d] \in {done[d], "none"}
    BY <2>1, <2>2
  <2>4. LedgerNext /\ inFlight' = inFlight \ {c}
    BY <1>2 DEF LedgerNext, Complete
  <2> QED BY <2>2, <2>3, <2>4
<1> QED BY <1>1, <1>2 DEF CompleteCommand

LEMMA NetworkLeavesCommands ==
  ASSUME NetworkStep PROVE UNCHANGED <<inFlight, completed>>
  BY DEF NetworkStep, WorkerStep, SendStep, Receive, Connect, Break, Disconnect, Collect,
         SendResult, ReadNothing, RefuseFrame, IgnoreDuplicate, Resend, TurnAway, Accept,
         SendFails, book

LEMMA StartFacts ==
  ASSUME OwnerOK, NEW kind, NEW waiting, StartOperation(kind, waiting)
  PROVE  generation' = generation + 1 /\ generation' \in Nat
  BY DEF OwnerOK, StartOperation

-----------------------------------------------------------------------------
(***************************************************************************)
(* Steps that keep commands and owners as they are.                        *)
(***************************************************************************)

LEMMA BystanderInv ==
  ASSUME RemoteInv, [LedgerNext]_ledger, UNCHANGED <<inFlight, completed>>,
         generation' \in Nat, UNCHANGED <<current, pending, operation, observed>>
  PROVE  RemoteInv'
<1>1. LedgerInv'
  BY StepInv DEF RemoteInv
<1> QED BY <1>1 DEF RemoteInv, OwnerOK, InFlightIsOwned, PendingOK, SuccessOK

\* The owner of c completes it and lets go of it.
LEMMA OwnerCompletes ==
  ASSUME RemoteInv, NEW c \in Commands, NEW v \in Verdicts, CompleteCommand(c, v),
         \/ c = current /\ current' = NoCommand /\ pending' = pending
         \/ c = pending.id /\ pending' = NoOne /\ current' = current,
         v = "succeeded" => Kind[c] = "volume" \/ operation[c] \in observed',
         generation' \in Nat, operation' = operation, observed \subseteq observed'
  PROVE  RemoteInv' /\ [LedgerNext]_ledger
<1>1. /\ [LedgerNext]_ledger /\ inFlight' = inFlight \ {c}
      /\ \A d \in Commands : completed'[d] = "succeeded" =>
                \/ completed[d] = "succeeded"
                \/ d = c /\ v = "succeeded"
  BY CompleteFacts DEF RemoteInv
<1>2. LedgerInv'
  BY <1>1, StepInv DEF RemoteInv
<1>3. OwnerOK' /\ PendingOK'
  BY DEF RemoteInv, OwnerOK, PendingOK
<1>4. InFlightIsOwned'
  BY <1>1, NoOneFacts, KindAssumption DEF RemoteInv, InFlightIsOwned
<1>5. SuccessOK'
  BY <1>1 DEF RemoteInv, SuccessOK
<1> QED BY <1>1, <1>2, <1>3, <1>4, <1>5 DEF RemoteInv

-----------------------------------------------------------------------------
(***************************************************************************)
(* The steps of RemoteNext; each is also a step of the ledger, or none.    *)
(***************************************************************************)

LEMMA TakeNextInv ==
  ASSUME RemoteInv, TakeNext PROVE RemoteInv' /\ [LedgerNext]_ledger
<1>1. /\ current = NoCommand /\ TakeCommand /\ current' = Head(queued)
      /\ UNCHANGED <<pending, generation, operation, observed, completed>>
      /\ inFlight' = inFlight \cup {Head(queued)} /\ queued # <<>>
  BY DEF TakeNext, TakeCommand, controller
<1>2. [LedgerNext]_ledger
  BY <1>1 DEF LedgerNext
<1>3. LedgerInv'
  BY <1>2, StepInv DEF RemoteInv
<1>4. Head(queued) \in Commands /\ Head(queued) \in ToSet(queued)
  BY <1>1, TailFacts DEF RemoteInv, LedgerInv, LedgerTypeOK
<1>5. Head(queued) \notin inFlight /\ Head(queued) # NoCommand
  BY <1>4, KindAssumption DEF RemoteInv, LedgerInv, LedgerOK
<1>6. OwnerOK' /\ PendingOK' /\ SuccessOK'
  BY <1>1, <1>4 DEF RemoteInv, OwnerOK, PendingOK, SuccessOK
<1>7. InFlightIsOwned'
  BY <1>1, <1>5, NoOneFacts DEF RemoteInv, InFlightIsOwned
<1> QED BY <1>2, <1>3, <1>6, <1>7 DEF RemoteInv

LEMMA InstantInv ==
  ASSUME RemoteInv, CannotApply \/ ApplyVolume PROVE RemoteInv' /\ [LedgerNext]_ledger
<1>1. PICK v \in Verdicts :
        /\ CompleteCommand(current, v)
        /\ v = "succeeded" => Kind[current] = "volume"
  BY DEF CannotApply, ApplyVolume, Verdicts
<1>2. /\ current # NoCommand /\ current' = NoCommand
      /\ UNCHANGED <<pending, generation, operation, observed>>
  BY DEF CannotApply, ApplyVolume, controller
<1>3. current \in Commands /\ generation' \in Nat
  BY <1>2 DEF RemoteInv, OwnerOK
<1> QED BY <1>1, <1>2, <1>3, OwnerCompletes

\* The executing command becomes pending and the one it replaces is completed.
LEMMA ApplyOperationInv ==
  ASSUME RemoteInv, ApplyOperation PROVE RemoteInv' /\ [LedgerNext]_ledger
<1>1. /\ current # NoCommand /\ current \in Commands /\ current' = NoCommand
      /\ generation' \in Nat /\ pending' = [id |-> current, generation |-> generation']
      /\ operation' = [operation EXCEPT ![current] = generation']
      /\ observed' = observed
  BY StartFacts DEF RemoteInv, OwnerOK, ApplyOperation, ItsGeneration
<1>2. /\ [LedgerNext]_ledger /\ inFlight' = inFlight \ {pending.id}
      /\ \A d \in Commands : completed'[d] = "succeeded" => completed[d] = "succeeded"
  <2>1. CASE pending = NoOne
    <3>1. UNCHANGED ledger
      BY <2>1 DEF ApplyOperation, AnswerReplaced
    <3>2. NoCommand \notin inFlight
      BY KindAssumption DEF RemoteInv, LedgerInv, LedgerTypeOK
    <3> QED BY <2>1, <3>1, <3>2 DEF ledger, book, NoOne
  <2>2. CASE pending # NoOne
    <3>1. pending.id \in Commands
      BY <2>2, NoOneFacts DEF RemoteInv
    <3>2. CompleteCommand(pending.id, "failed")
      BY <2>2 DEF ApplyOperation, AnswerReplaced
    <3> QED BY <3>1, <3>2, CompleteFacts DEF RemoteInv, Verdicts
  <2> QED BY <2>1, <2>2
<1>3. LedgerInv'
  BY <1>2, StepInv DEF RemoteInv
<1>4. OwnerOK' /\ PendingOK'
  BY <1>1 DEF RemoteInv, OwnerOK, PendingOK
<1>5. InFlightIsOwned'
  <2>1. current # pending.id
    BY <1>1 DEF RemoteInv, InFlightIsOwned
  <2>2. pending'.id = current
    BY <1>1
  <2> QED BY <1>1, <1>2, <2>1, <2>2 DEF RemoteInv, InFlightIsOwned
<1>6. SuccessOK'
  <2> SUFFICES ASSUME NEW d \in Commands, completed'[d] = "succeeded"
               PROVE  Kind[d] = "volume" \/ operation'[d] \in observed'
    BY DEF SuccessOK
  <2>1. completed[d] = "succeeded"
    BY <1>2
  <2>2. d # current
    BY <1>1, <2>1
    DEF RemoteInv, InFlightIsOwned, LedgerInv, LedgerOK, Pending
  <2> QED BY <1>1, <2>1, <2>2 DEF RemoteInv, SuccessOK, OwnerOK
<1> QED BY <1>2, <1>3, <1>4, <1>5, <1>6 DEF RemoteInv

LEMMA EventInv ==
  ASSUME RemoteInv, EventStep PROVE RemoteInv' /\ [LedgerNext]_ledger
<1>1. generation' \in Nat /\ UNCHANGED <<current, operation>> /\ observed \subseteq observed'
  <2>1. CASE StaleEvent
    BY <2>1 DEF StaleEvent, controller, RemoteInv, OwnerOK
  <2>2. CASE ConfirmedEvent
    BY <2>2 DEF ConfirmedEvent, controller, RemoteInv, OwnerOK
  <2>3. CASE FailedEvent
    BY <2>3, StartFacts DEF FailedEvent, controller, RemoteInv, OwnerOK
  <2> QED BY <2>1, <2>2, <2>3 DEF EventStep
<1>2. \/ UNCHANGED <<ledger, pending, observed>>
      \/ /\ UNCHANGED <<ledger, pending>>
         /\ observed' = observed \cup {generation}
      \/ \E v \in Verdicts :
            /\ pending # NoOne /\ pending' = NoOne
            /\ CompleteCommand(pending.id, v)
            /\ v = "succeeded" => pending.generation \in observed'
  BY DEF EventStep, StaleEvent, ConfirmedEvent, FailedEvent, Finish, Answers, IsPending,
         Verdicts
<1>3. CASE UNCHANGED <<ledger, pending>>
  <2>1. UNCHANGED <<inFlight, completed>>
    BY <1>3 DEF ledger, book
  <2>2. LedgerInv'
    BY <1>3, StepInv DEF RemoteInv
  <2>3. OwnerOK' /\ InFlightIsOwned' /\ PendingOK' /\ SuccessOK'
    BY <1>1, <1>3, <2>1
    DEF RemoteInv, OwnerOK, InFlightIsOwned, PendingOK, SuccessOK
  <2> QED BY <1>3, <2>2, <2>3 DEF RemoteInv
<1>4. ASSUME NEW v \in Verdicts, pending # NoOne, pending' = NoOne,
             CompleteCommand(pending.id, v),
             v = "succeeded" => pending.generation \in observed'
      PROVE  RemoteInv' /\ [LedgerNext]_ledger
  <2>1. pending.id \in Commands /\ operation[pending.id] = pending.generation
    BY <1>4, NoOneFacts DEF RemoteInv, PendingOK
  <2> QED BY <1>1, <1>4, <2>1, OwnerCompletes
<1> QED BY <1>2, <1>3, <1>4

LEMMA OutsideInv ==
  ASSUME RemoteInv,
         \/ NetworkStep /\ UNCHANGED <<current, pending, controller, events, operation, observed>>
         \/ \E g \in Generations : ControllerStep(g)
         \/ \E kind \in {"play", "stop"} : LocalOperation(kind)
         \/ UNCHANGED remoteVars
  PROVE  RemoteInv' /\ [LedgerNext]_ledger
<1>1. CASE NetworkStep /\ UNCHANGED <<current, pending, controller, events, operation, observed>>
  <2>1. [LedgerNext]_ledger /\ UNCHANGED <<inFlight, completed>>
    BY <1>1, NetworkLeavesCommands DEF LedgerNext
  <2>2. generation' \in Nat
    BY <1>1 DEF controller, RemoteInv, OwnerOK
  <2> QED BY <1>1, <2>1, <2>2, BystanderInv
<1>2. ASSUME NEW g \in Generations, ControllerStep(g) PROVE RemoteInv' /\ [LedgerNext]_ledger
  <2>1. UNCHANGED <<ledger, current, pending, generation, operation, observed>>
    BY <1>2 DEF ControllerStep, PlayStarts, PlayFails, PlaySuperseded, StopAnswers
  <2>2. UNCHANGED <<inFlight, completed>> /\ generation' \in Nat
    BY <2>1 DEF ledger, book, RemoteInv, OwnerOK
  <2> QED BY <2>1, <2>2, BystanderInv
<1>3. ASSUME NEW kind \in {"play", "stop"}, LocalOperation(kind)
      PROVE  RemoteInv' /\ [LedgerNext]_ledger
  <2>1. UNCHANGED <<ledger, current, pending, operation, observed>>
    BY <1>3 DEF LocalOperation
  <2>2. UNCHANGED <<inFlight, completed>> /\ generation' \in Nat
    BY <1>3, <2>1, StartFacts DEF LocalOperation, ledger, book, RemoteInv
  <2> QED BY <2>1, <2>2, BystanderInv
<1>4. CASE UNCHANGED remoteVars
  <2>1. UNCHANGED <<ledger, current, pending, generation, operation, observed>>
    BY <1>4 DEF remoteVars, controller
  <2>2. UNCHANGED <<inFlight, completed>> /\ generation' \in Nat
    BY <2>1 DEF ledger, book, RemoteInv, OwnerOK
  <2> QED BY <2>1, <2>2, BystanderInv
<1> QED BY <1>1, <1>2, <1>3, <1>4

LEMMA RemoteStep ==
  RemoteInv /\ [RemoteNext]_remoteVars => RemoteInv' /\ [LedgerNext]_ledger
<1> SUFFICES ASSUME RemoteInv, [RemoteNext]_remoteVars
             PROVE  RemoteInv' /\ [LedgerNext]_ledger
  OBVIOUS
<1>1. CASE CommandStep
  BY <1>1, TakeNextInv, InstantInv, ApplyOperationInv DEF CommandStep
<1>2. CASE EventStep
  BY <1>2, EventInv
<1>3. CASE \/ NetworkStep /\ UNCHANGED <<current, pending, controller, events, operation, observed>>
           \/ \E g \in Generations : ControllerStep(g)
           \/ \E kind \in {"play", "stop"} : LocalOperation(kind)
           \/ UNCHANGED remoteVars
  BY <1>3, OutsideInv
<1> QED BY <1>1, <1>2, <1>3 DEF RemoteNext

-----------------------------------------------------------------------------
\* Every reachable state of the composition satisfies the inductive invariant.
THEOREM RemoteInvariance == RemoteSpec => []RemoteInv
  BY InitRemote, RemoteStep, PTL DEF RemoteSpec

\* The egui thread uses the ledger as CommandLedger allows, so what is proved of
\* the ledger holds of the composition.
THEOREM RemoteImplementsLedger == RemoteSpec => LedgerSpec
<1>1. RemoteInit => LedgerInit
  BY DEF RemoteInit
<1> QED BY <1>1, InitRemote, RemoteStep, PTL DEF RemoteSpec, LedgerSpec

\* poll_device_control_commands and finish_remote_command: the commands in
\* flight are the one being executed and the pending one, so the ledger cannot
\* fill up with commands that nobody will complete.
THEOREM EveryCommandOwned == RemoteSpec => []InFlightIsOwned
<1>1. RemoteInv => InFlightIsOwned
  BY DEF RemoteInv
<1> QED BY <1>1, RemoteInvariance, PTL

\* finish_remote_command: a success was observed for the very operation the
\* command started.
THEOREM SuccessIsReal == RemoteSpec => []SuccessWasObserved
<1>1. RemoteInv => SuccessWasObserved
  BY DEF RemoteInv, LedgerInv, LedgerTypeOK, Completed, ToSet, SuccessOK, SuccessWasObserved
<1> QED BY <1>1, RemoteInvariance, PTL

-----------------------------------------------------------------------------
(***************************************************************************)
(* Types of the controller as the egui thread sees it.                     *)
(***************************************************************************)

\* StartOperation: the new generation is within the bound and the event of a
\* full executor carries it.
LEMMA StartTyped ==
  ASSUME RemoteTypeOK, NEW kind, NEW waiting \in Seq(Event), StartOperation(kind, waiting)
  PROVE  /\ generation' \in Generations /\ generation' = generation + 1
         /\ opening' \subseteq Generations /\ sounding' \subseteq Generations
         /\ stopping' \subseteq Generations /\ events' \in Seq(Event)
<1>1. generation' \in Generations /\ generation' = generation + 1
  BY GenerationAssumption DEF StartOperation, RemoteTypeOK, Generations
<1>2. EventOf("Error", generation') \in Event
  BY <1>1 DEF EventOf, Event
<1>3. \/ events' = waiting
      \/ events' = Append(waiting, EventOf("Error", generation'))
  BY DEF StartOperation
<1>4. events' \in Seq(Event)
  <2> HIDE DEF EventOf, Event
  <2> QED BY <1>2, <1>3
<1>5. /\ opening' \subseteq opening \cup {generation'} /\ sounding' = sounding
      /\ stopping' \subseteq stopping \cup {generation'}
  BY DEF StartOperation
<1> QED BY <1>1, <1>4, <1>5 DEF RemoteTypeOK

\* Every step keeps the types, given that it keeps those of the ledger.
LEMMA TypesStep ==
  ASSUME RemoteTypeOK, LedgerTypeOK', OwnerOK', [RemoteNext]_remoteVars
  PROVE  RemoteTypeOK'
<1>1. CASE NetworkStep /\ UNCHANGED <<current, pending, controller, events, operation, observed>>
  BY <1>1 DEF controller, RemoteTypeOK
<1>2. ASSUME NEW g \in Generations, ControllerStep(g) PROVE RemoteTypeOK'
  <2>1. \A t \in {"PlayOk", "StopOk", "Error"} : EventOf(t, g) \in Event
    BY DEF EventOf, Event
  <2> QED BY <1>2, <2>1 DEF ControllerStep, PlayStarts, PlayFails, PlaySuperseded,
                            StopAnswers, Send, RemoteTypeOK
<1>3. ASSUME NEW kind \in {"play", "stop"}, LocalOperation(kind) PROVE RemoteTypeOK'
  <2>1. /\ StartOperation(kind, events)
        /\ UNCHANGED <<current, pending, operation, observed>>
    BY <1>3 DEF LocalOperation
  <2>2. events \in Seq(Event)
    BY DEF RemoteTypeOK
  <2>3. 1..generation \subseteq 1..generation'
    BY <2>1, <2>2, StartTyped DEF RemoteTypeOK, Generations
  <2> QED BY <2>1, <2>2, <2>3, StartTyped DEF RemoteTypeOK
<1>4. CASE TakeNext \/ CannotApply \/ ApplyVolume
  BY <1>4 DEF TakeNext, CannotApply, ApplyVolume, controller, RemoteTypeOK, OwnerOK
<1>5. CASE ApplyOperation
  <2>1. /\ StartOperation(Kind[current], events)
        /\ current \in Commands /\ current' = NoCommand
        /\ pending' = [id |-> current, generation |-> generation']
        /\ operation' = [operation EXCEPT ![current] = generation']
        /\ UNCHANGED observed
    BY <1>5 DEF ApplyOperation, ItsGeneration, RemoteTypeOK
  <2>2. events \in Seq(Event)
    BY DEF RemoteTypeOK
  <2>3. generation' \in 1..generation'
    <3>1. generation' = generation + 1
      BY <2>1, <2>2, StartTyped
    <3>2. generation \in Nat
      BY DEF RemoteTypeOK, Generations
    <3> QED BY <3>1, <3>2
  <2> QED BY <2>1, <2>2, <2>3, StartTyped DEF RemoteTypeOK
<1>6. CASE EventStep
  <2>1. /\ events # <<>> /\ UNCHANGED <<current, operation>>
        /\ pending' = pending \/ pending' = NoOne
    BY <1>6 DEF EventStep, StaleEvent, ConfirmedEvent, FailedEvent, Finish
  <2>2. Tail(events) \in Seq(Event)
    BY <2>1, TailFacts DEF RemoteTypeOK
  <2>3. observed' \subseteq Generations
    BY <1>6 DEF EventStep, StaleEvent, ConfirmedEvent, FailedEvent, RemoteTypeOK
  <2>4. CASE UNCHANGED controller /\ events' = Tail(events)
    BY <2>1, <2>2, <2>3, <2>4 DEF controller, RemoteTypeOK
  <2>5. CASE StartOperation("play", Tail(events))
    <3>1. 1..generation \subseteq 1..generation'
      <4>1. generation' = generation + 1
        BY <2>2, <2>5, StartTyped
      <4>2. generation \in Nat
        BY DEF RemoteTypeOK, Generations
      <4> QED BY <4>1, <4>2
    <3> QED BY <2>1, <2>2, <2>3, <2>5, <3>1, StartTyped DEF RemoteTypeOK
  <2> QED BY <1>6, <2>4, <2>5 DEF EventStep, StaleEvent, ConfirmedEvent, FailedEvent
<1>7. CASE UNCHANGED remoteVars
  BY <1>7 DEF remoteVars, controller, RemoteTypeOK
<1> QED BY <1>1, <1>2, <1>3, <1>4, <1>5, <1>6, <1>7 DEF RemoteNext, CommandStep

\* Generations stay within the bound and a pending command names one that began.
THEOREM RemoteTypeCorrect == RemoteSpec => []RemoteTypeOK
<1>1. RemoteInit => RemoteTypeOK
  <2> SUFFICES ASSUME RemoteInit PROVE RemoteTypeOK
    OBVIOUS
  <2>1. LedgerTypeOK
    BY InitRemote DEF RemoteInv, LedgerInv
  <2> QED BY <2>1, GenerationAssumption DEF RemoteInit, RemoteTypeOK, Generations
<1>2. RemoteTypeOK /\ RemoteInv /\ RemoteInv' /\ [RemoteNext]_remoteVars => RemoteTypeOK'
  BY TypesStep DEF RemoteInv, LedgerInv
<1> QED BY <1>1, <1>2, RemoteInvariance, PTL DEF RemoteSpec
=============================================================================
