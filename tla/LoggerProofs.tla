---------------------------- MODULE LoggerProofs ----------------------------
(***************************************************************************)
(* Proofs about Logger for every set of levels and every number of         *)
(* messages: nothing is lost between the two threads, the empty queue is    *)
(* only taken from at the end, and a stop that is missed loses nothing.     *)
(***************************************************************************)
EXTENDS Logger, SequenceTheorems, TLAPS

\* What the queue holds: messages are numbered from 1.
Entry == [id : Nat \ {0}, level : Error..Debug]

TypeOK ==
  /\ caller \in {"running", "notify", "join", "backup", "ended", "crashed"}
  /\ loop \in {"test", "lock", "blocking", "asleep", "write", "ended", "crashed"}
  /\ m_level \in Error..Debug
  /\ m_to_stop \in BOOLEAN /\ undefined \in BOOLEAN
  /\ m_log_cache \in Seq(Entry) /\ accepted \in Seq(Entry) /\ handled \in Seq(Entry)
  /\ message \in Entry \cup {NoMessage}
  /\ logged \in Nat

\* The destructor stops the other thread before anything else, and copies the
\* file only after that thread has ended.
Sequencing ==
  /\ m_to_stop <=> caller # "running"
  /\ loop = "ended" => m_to_stop
  /\ caller \in {"backup", "ended"} => loop = "ended"

\* Loop sleeps, or is about to, only while there is nothing to take.
SleepsOnEmpty == loop \in {"blocking", "asleep"} => m_log_cache = <<>>

\* The inductive invariant.
IInv == TypeOK /\ Sequencing /\ SleepsOnEmpty /\ NothingLost /\ UndefinedOnlyAtStop

-----------------------------------------------------------------------------
LEMMA NoMessageIsNoEntry == NoMessage \notin Entry
  BY DEF NoMessage, Entry

\* Taking the front out of a queue and putting it back changes nothing.
LEMMA HeadThenTail ==
  ASSUME NEW S, NEW s \in Seq(S), s # <<>>
  PROVE  /\ Head(s) \in S /\ Tail(s) \in Seq(S)
         /\ <<Head(s)>> \o Tail(s) = s
<1> DEFINE t == <<Head(s)>> \o Tail(s)
<1>1. /\ Head(s) \in S /\ Tail(s) \in Seq(S) /\ Len(Tail(s)) = Len(s) - 1
      /\ \A i \in 1..Len(Tail(s)) : Tail(s)[i] = s[i + 1]
  BY HeadTailProperties
<1>2. <<Head(s)>> \in Seq(S) /\ Len(<<Head(s)>>) = 1 /\ <<Head(s)>>[1] = Head(s)
  BY <1>1
<1>3. Len(s) \in Nat \ {0} /\ Head(s) = s[1]
  BY EmptySeq
<1>4. /\ t \in Seq(S) /\ Len(t) = Len(s)
      /\ \A i \in 1..Len(s) : t[i] = IF i <= 1 THEN Head(s) ELSE Tail(s)[i - 1]
  <2>1. /\ t \in Seq(S) /\ Len(t) = 1 + Len(Tail(s))
        /\ \A i \in 1..(1 + Len(Tail(s))) : t[i] = IF i <= 1 THEN <<Head(s)>>[i] ELSE Tail(s)[i - 1]
    BY <1>1, <1>2, ConcatProperties
  <2>2. 1 + Len(Tail(s)) = Len(s)
    BY <1>1, <1>3
  <2> HIDE DEF t
  <2>3. ASSUME NEW i \in 1..Len(s)
        PROVE  t[i] = IF i <= 1 THEN Head(s) ELSE Tail(s)[i - 1]
    <3>1. i <= 1 => i = 1
      OBVIOUS
    <3>2. QED BY <2>1, <2>2, <3>1, <1>2
  <2>4. QED BY <2>1, <2>2, <2>3
<1> HIDE DEF t
<1>5. ASSUME NEW i \in 1..Len(s)
      PROVE  t[i] = s[i]
  <2>1. CASE i = 1
    BY <2>1, <1>3, <1>4
  <2>2. CASE i # 1
    <3>1. i - 1 \in 1..Len(Tail(s)) /\ ~(i <= 1) /\ i - 1 + 1 = i
      BY <2>2, <1>1, <1>3
    <3>2. QED BY <3>1, <1>1, <1>4
  <2>3. QED BY <2>1, <2>2
<1>6. t = s
  BY <1>4, <1>5, SeqEqual
<1>7. QED BY <1>1, <1>6 DEF t

LEMMA InHandIsEntries ==
  ASSUME TypeOK
  PROVE  InHand \in Seq(Entry) /\ (InHand = <<>> \/ InHand = <<message>>)
<1>1. CASE loop = "write" /\ message # NoMessage
  BY <1>1 DEF TypeOK, InHand
<1>2. CASE ~(loop = "write" /\ message # NoMessage)
  BY <1>2, EmptySeq DEF InHand
<1>3. QED BY <1>1, <1>2

\* A message that got into the queue is at the end of what was ever accepted.
LEMMA AppendAtEnd ==
  ASSUME TypeOK, NothingLost, NEW m \in Entry
  PROVE  handled \o InHand \o Append(m_log_cache, m) = Append(accepted, m)
<1>1. /\ handled \in Seq(Entry) /\ InHand \in Seq(Entry) /\ m_log_cache \in Seq(Entry)
      /\ accepted \in Seq(Entry) /\ <<m>> \in Seq(Entry)
  BY InHandIsEntries DEF TypeOK
<1>2. handled \o InHand \in Seq(Entry)
  BY <1>1, ConcatProperties
<1>3. /\ Append(m_log_cache, m) = m_log_cache \o <<m>>
      /\ Append(accepted, m) = accepted \o <<m>>
  BY <1>1, AppendIsConcat
<1>4. (handled \o InHand \o m_log_cache) \o <<m>> = (handled \o InHand) \o (m_log_cache \o <<m>>)
  BY <1>1, <1>2, ConcatAssociative, SMTT(30)
<1>5. QED BY <1>3, <1>4 DEF NothingLost

-----------------------------------------------------------------------------
LEMMA InitIInv == Init => IInv
<1> SUFFICES ASSUME Init PROVE IInv
  OBVIOUS
<1>1. TypeOK
  <2>1. <<>> \in Seq(Entry)
    BY EmptySeq
  <2>2. Debug \in Error..Debug
    BY DEF Debug, Error
  <2>3. QED BY <2>1, <2>2 DEF Init, TypeOK
<1>2. NothingLost
  <2>1. <<>> \in Seq(Entry)
    BY EmptySeq
  <2>2. <<>> \o <<>> = <<>>
    BY <2>1, ConcatEmptySeq
  <2>3. QED BY <2>2 DEF Init, NothingLost, InHand
<1>3. QED
  BY <1>1, <1>2 DEF IInv, Init, Sequencing, SleepsOnEmpty, UndefinedOnlyAtStop

\* What Log does to the queue is the same whoever calls it.
LEMMA LogKeeps ==
  ASSUME IInv, NEW level \in Error..Debug, Log(level),
         UNCHANGED <<m_to_stop, m_level, message, handled, undefined>>,
         caller' \in {"running", "ended", "crashed"},
         caller' = "running" <=> caller = "running",
         caller' # "running" => loop = "ended"
  PROVE  IInv'
<1> DEFINE m == [id |-> logged + 1, level |-> level]
<1> USE DEF IInv
<1>1. m \in Entry /\ logged' = logged + 1 /\ logged' \in Nat /\ loop # "blocking"
  BY DEF Log, Entry, TypeOK, MutexFree
<1>2. CASE level > m_level
  <2>1. UNCHANGED <<m_log_cache, accepted, loop>>
    BY <1>2 DEF Log
  <2>2. QED
    BY <1>1, <2>1 DEF TypeOK, Sequencing, SleepsOnEmpty, NothingLost, UndefinedOnlyAtStop, InHand
<1>3. CASE ~(level > m_level)
  <2>1. /\ m_log_cache' = Append(m_log_cache, m)
        /\ accepted' = Append(accepted, m)
        /\ loop' = IF loop = "asleep" THEN "lock" ELSE loop
    BY <1>3 DEF Log, Notified
  <2>2. m_log_cache' \in Seq(Entry) /\ accepted' \in Seq(Entry)
    BY <1>1, <2>1, AppendProperties DEF TypeOK
  <2>3. InHand' = InHand
    BY <2>1 DEF InHand
  <2>4. NothingLost'
    <3>1. handled \o InHand \o Append(m_log_cache, m) = Append(accepted, m)
      BY <1>1, AppendAtEnd
    <3>2. QED BY <2>1, <2>3, <3>1 DEF NothingLost
  <2>5. QED
    BY <1>1, <2>1, <2>2, <2>4 DEF TypeOK, Sequencing, SleepsOnEmpty, UndefinedOnlyAtStop
<1>4. QED BY <1>2, <1>3

LEMMA TakeKeeps ==
  ASSUME IInv, Take
  PROVE  IInv'
<1> USE DEF IInv
<1>1. m_log_cache \in Seq(Entry) /\ m_log_cache # <<>>
  BY DEF Take, TypeOK
<1>2. /\ Head(m_log_cache) \in Entry /\ Tail(m_log_cache) \in Seq(Entry)
      /\ <<Head(m_log_cache)>> \o Tail(m_log_cache) = m_log_cache
  BY <1>1, HeadThenTail
<1>3. /\ message' = Head(m_log_cache) /\ m_log_cache' = Tail(m_log_cache)
      /\ loop = "lock" /\ loop' = "write"
      /\ UNCHANGED <<caller, m_to_stop, m_level, logged, accepted, handled, undefined>>
  BY DEF Take, destructor_vars
<1>4. NothingLost'
  <2>1. InHand = <<>> /\ InHand' = <<Head(m_log_cache)>>
    BY <1>2, <1>3, NoMessageIsNoEntry DEF InHand
  <2>2. handled \in Seq(Entry) /\ <<Head(m_log_cache)>> \in Seq(Entry)
    BY <1>2 DEF TypeOK
  <2>3. handled \o <<>> = handled
    BY <2>2, ConcatEmptySeq
  <2>4. handled \o <<Head(m_log_cache)>> \o Tail(m_log_cache)
          = handled \o (<<Head(m_log_cache)>> \o Tail(m_log_cache))
    BY <1>2, <2>2, ConcatAssociative
  <2>5. handled \o m_log_cache = accepted
    BY <2>1, <2>3 DEF NothingLost
  <2>6. QED BY <1>2, <1>3, <2>1, <2>4, <2>5 DEF NothingLost
<1>5. QED
  BY <1>2, <1>3, <1>4 DEF TypeOK, Sequencing, SleepsOnEmpty, UndefinedOnlyAtStop

LEMMA WriteKeeps ==
  ASSUME IInv, Write
  PROVE  IInv'
<1> USE DEF IInv
<1>1. /\ loop = "write" /\ loop' = "test"
      /\ handled' = IF message = NoMessage THEN handled ELSE Append(handled, message)
      /\ UNCHANGED <<caller, m_to_stop, m_level, m_log_cache, message, undefined, logged, accepted>>
  BY DEF Write, destructor_vars
<1>2. handled \in Seq(Entry) /\ message \in Entry \cup {NoMessage}
  BY DEF TypeOK
<1>3. handled' \in Seq(Entry) /\ handled' \o InHand' = handled \o InHand
  <2>1. InHand' = <<>>
    BY <1>1 DEF InHand
  <2>2. CASE message = NoMessage
    <3>1. InHand = <<>> /\ handled' = handled
      BY <1>1, <2>2 DEF InHand
    <3>2. QED BY <1>2, <2>1, <3>1
  <2>3. CASE message # NoMessage
    <3>1. InHand = <<message>> /\ handled' = Append(handled, message) /\ message \in Entry
      BY <1>1, <1>2, <2>3 DEF InHand
    <3>2. handled' \in Seq(Entry) /\ handled' = handled \o <<message>>
      BY <1>2, <3>1, AppendProperties, AppendIsConcat
    <3>3. handled' \o <<>> = handled'
      BY <3>2, ConcatEmptySeq
    <3>4. QED BY <2>1, <3>1, <3>2, <3>3
  <2>4. QED BY <2>2, <2>3
<1>4. NothingLost'
  BY <1>1, <1>3 DEF NothingLost
<1>5. QED
  BY <1>1, <1>3, <1>4 DEF TypeOK, Sequencing, SleepsOnEmpty, UndefinedOnlyAtStop

LEMMA TakeFromEmptyKeeps ==
  ASSUME IInv, TakeFromEmpty
  PROVE  IInv'
<1> USE DEF IInv
<1>1. /\ loop = "lock" /\ m_log_cache = <<>> /\ undefined' /\ undefined' \in BOOLEAN
      /\ message' = NoMessage
      /\ \/ loop' = "write" /\ UNCHANGED caller
         \/ loop' = "crashed" /\ caller' = "crashed"
      /\ UNCHANGED <<m_level, m_log_cache, logged, accepted, handled, m_to_stop>>
  BY DEF TakeFromEmpty
<1>2. m_to_stop
  BY DEF TakeFromEmpty, SomethingToDo
<1>3. InHand = <<>> /\ InHand' = <<>>
  BY <1>1 DEF InHand
<1>4. NothingLost'
  BY <1>1, <1>3 DEF NothingLost
<1>5. QED
  BY <1>1, <1>2, <1>4 DEF TypeOK, Sequencing, SleepsOnEmpty, UndefinedOnlyAtStop

\* The steps that move a thread and leave the messages alone.
LEMMA MovesKeep ==
  ASSUME IInv,
         \/ SetLevel \/ Stop \/ NotifyStop \/ Join
         \/ Test \/ FindNothing \/ FallAsleep \/ WakeSpuriously
  PROVE  IInv'
<1> USE DEF IInv
<1>1. /\ UNCHANGED <<m_log_cache, message, handled, undefined, logged, accepted>>
      /\ loop = "write" <=> loop' = "write"
  BY DEF SetLevel, Stop, NotifyStop, Join, Test, FindNothing, FallAsleep, WakeSpuriously,
         destructor_vars, loop_vars, Notified
<1>2. NothingLost'
  <2>1. InHand' = InHand
    BY <1>1 DEF InHand
  <2>2. QED BY <1>1, <2>1 DEF NothingLost
<1>3. CASE SetLevel
  BY <1>1, <1>2, <1>3, LevelsAssumption
  DEF SetLevel, destructor_vars, TypeOK, Sequencing, SleepsOnEmpty, UndefinedOnlyAtStop
<1>4. CASE Stop
  BY <1>1, <1>2, <1>4 DEF Stop, TypeOK, Sequencing, SleepsOnEmpty, UndefinedOnlyAtStop
<1>5. CASE NotifyStop
  BY <1>1, <1>2, <1>5
  DEF NotifyStop, Notified, TypeOK, Sequencing, SleepsOnEmpty, UndefinedOnlyAtStop
<1>6. CASE Join
  BY <1>1, <1>2, <1>6 DEF Join, TypeOK, Sequencing, SleepsOnEmpty, UndefinedOnlyAtStop
<1>7. CASE Test
  BY <1>1, <1>2, <1>7
  DEF Test, destructor_vars, TypeOK, Sequencing, SleepsOnEmpty, UndefinedOnlyAtStop
<1>8. CASE FindNothing
  BY <1>1, <1>2, <1>8
  DEF FindNothing, SomethingToDo, destructor_vars, TypeOK, Sequencing, SleepsOnEmpty,
      UndefinedOnlyAtStop
<1>9. CASE FallAsleep
  BY <1>1, <1>2, <1>9
  DEF FallAsleep, destructor_vars, TypeOK, Sequencing, SleepsOnEmpty, UndefinedOnlyAtStop
<1>10. CASE WakeSpuriously
  BY <1>1, <1>2, <1>10
  DEF WakeSpuriously, destructor_vars, TypeOK, Sequencing, SleepsOnEmpty, UndefinedOnlyAtStop
<1>11. QED BY <1>3, <1>4, <1>5, <1>6, <1>7, <1>8, <1>9, <1>10

LEMMA BackUpKeeps ==
  ASSUME IInv, BackUp
  PROVE  IInv'
<1> USE DEF IInv
<1>1. /\ caller = "backup" /\ loop = "ended" /\ caller' \in {"ended", "crashed"}
      /\ UNCHANGED <<m_level, m_to_stop, message, handled, undefined>>
  BY DEF BackUp, loop_vars, Sequencing
<1>2. CASE UNCHANGED <<loop, m_log_cache, logged, accepted>>
  BY <1>1, <1>2 DEF TypeOK, Sequencing, SleepsOnEmpty, NothingLost, UndefinedOnlyAtStop, InHand
<1>3. CASE Log(Error)
  BY <1>1, <1>3, LogKeeps DEF Error, Debug
<1>4. QED BY <1>2, <1>3 DEF BackUp

LEMMA CallLogKeeps ==
  ASSUME IInv, CallLog
  PROVE  IInv'
<1>1. PICK level \in LoggerLevels : Log(level)
  BY DEF CallLog
<1>2. level \in Error..Debug
  BY LevelsAssumption
<1>3. /\ caller = "running" /\ caller' = "running"
      /\ UNCHANGED <<m_to_stop, m_level, message, handled, undefined>>
  BY DEF CallLog, destructor_vars, loop_vars
<1>4. QED BY <1>1, <1>2, <1>3, LogKeeps

LEMMA NextIInv == IInv /\ [Next]_vars => IInv'
<1> SUFFICES ASSUME IInv, [Next]_vars PROVE IInv'
  OBVIOUS
<1>1. CASE CallLog
  BY <1>1, CallLogKeeps
<1>2. CASE Take
  BY <1>2, TakeKeeps
<1>3. CASE TakeFromEmpty
  BY <1>3, TakeFromEmptyKeeps
<1>4. CASE Write
  BY <1>4, WriteKeeps
<1>5. CASE BackUp
  BY <1>5, BackUpKeeps
<1>6. CASE \/ SetLevel \/ Stop \/ NotifyStop \/ Join
           \/ Test \/ FindNothing \/ FallAsleep \/ WakeSpuriously
  BY <1>6, MovesKeep
<1>7. CASE UNCHANGED vars
  BY <1>7 DEF vars, IInv, TypeOK, Sequencing, SleepsOnEmpty, NothingLost, UndefinedOnlyAtStop,
              InHand
<1>8. QED
  BY <1>1, <1>2, <1>3, <1>4, <1>5, <1>6, <1>7 DEF Next, LoopNext, DestructorNext

LEMMA Invariance == Spec => []IInv
<1>1. Init => IInv
  BY InitIInv
<1>2. IInv /\ [Next]_vars => IInv'
  BY NextIInv
<1>3. QED BY <1>1, <1>2, PTL DEF Spec

-----------------------------------------------------------------------------
\* LoggerImpl::Log and Loop neither lose, repeat nor reorder a message, for any
\* number of messages and every interleaving.
THEOREM MessagesAreHandedOver == Spec => []NothingLost
<1>1. IInv => NothingLost
  BY DEF IInv
<1>2. QED BY <1>1, Invariance, PTL

\* Loop takes from an empty queue only once it is told to stop: the only moment
\* at which the predicate of its wait holds and the queue may be empty.
THEOREM UndefinedComesFromStop == Spec => []UndefinedOnlyAtStop
<1>1. IInv => UndefinedOnlyAtStop
  BY DEF IInv
<1>2. QED BY <1>1, Invariance, PTL

\* A destructor that waits for a sleeping thread has nothing left to write.
THEOREM MissedStopLosesNothing == Spec => []MissedStopIsHarmless
<1>1. IInv => MissedStopIsHarmless
  <2> SUFFICES ASSUME IInv, caller = "join", loop = "asleep"
               PROVE  handled = accepted /\ m_log_cache = <<>>
    BY DEF MissedStopIsHarmless
  <2>1. m_log_cache = <<>> /\ InHand = <<>> /\ handled \in Seq(Entry)
    BY DEF IInv, SleepsOnEmpty, TypeOK, InHand
  <2>2. handled \o <<>> = handled
    BY <2>1, ConcatEmptySeq
  <2>3. QED BY <2>1, <2>2 DEF IInv, NothingLost
<1>2. QED BY <1>1, Invariance, PTL
=============================================================================
