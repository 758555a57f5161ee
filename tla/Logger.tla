------------------------------- MODULE Logger -------------------------------
(***************************************************************************)
(* The log (LoggerImpl): the only component with a thread of its own.  The  *)
(* thread that encodes puts messages into a queue under a mutex and         *)
(* notifies a condition variable; the thread of the log (Loop) takes them   *)
(* out and writes them to log.log and, those up to Info, to the console.    *)
(* When the program ends the first thread runs the destructor: it tells the *)
(* other to stop, waits for it and copies the file.                         *)
(*                                                                         *)
(* Whatever happens under the mutex is one step.  What is not protected by  *)
(* it are steps of their own: the store to m_to_stop, the notification      *)
(* after it, and the moment between Loop finding nothing to do and falling  *)
(* asleep, in which Loop holds the mutex.  A message is its number and its  *)
(* level.                                                                  *)
(***************************************************************************)
EXTENDS Integers, Sequences

CONSTANTS
  LoggerLevels,  \* levels messages have, 0 (Error) to 3 (Debug)
  MaxLogged      \* bound: calls of Log before the program ends

Error == 0
Debug == 3

ASSUME LevelsAssumption == LoggerLevels \subseteq Error..Debug

ASSUME MaxLoggedAssumption == MaxLogged \in Nat

VARIABLES
  caller,       \* where the encoding thread is: "running", or in the destructor
  loop,         \* where Loop is
  m_level,      \* messages above it are not taken
  m_log_cache,  \* the queue
  m_to_stop,
  message,      \* the local of Loop
  handled,      \* what Loop has given to the file and the console
  undefined,    \* Loop has taken a message out of an empty queue
  logged,       \* calls of Log so far, which number the messages
  accepted      \* ghost: the messages that got into the queue

vars == <<caller, loop, m_level, m_log_cache, m_to_stop, message, handled, undefined,
          logged, accepted>>

destructor_vars == <<caller, m_to_stop>>

loop_vars == <<message, handled, undefined>>

Message == [id : Nat, level : Error..Debug]

NoMessage == [id |-> 0, level |-> Error]

-----------------------------------------------------------------------------
Init ==
  /\ caller = "running"
  /\ loop = "test"
  /\ m_level = Debug
  /\ m_log_cache = <<>>
  /\ m_to_stop = FALSE
  /\ message = NoMessage
  /\ handled = <<>>
  /\ undefined = FALSE
  /\ logged = 0
  /\ accepted = <<>>

\* Between finding nothing to do and falling asleep Loop holds the mutex; every
\* other time it holds it begins and ends in one step.
MutexFree == loop # "blocking"

\* notify_one: it wakes a thread that sleeps, and is lost on one that does not.
Notified == IF loop = "asleep" THEN "lock" ELSE loop

\* Faulty variant of Log: the mutex is taken after the queue was changed.
LogUnlocked(level) ==
  LET m == [id |-> logged + 1, level |-> level]
  IN  /\ logged' = m.id
      /\ IF level > m_level
         THEN UNCHANGED <<m_log_cache, accepted, loop>>
         ELSE /\ m_log_cache' = Append(m_log_cache, m)
              /\ accepted' = Append(accepted, m)
              /\ loop' = Notified

\* Faulty variant of Log: nobody is told.
LogSilently(level) ==
  LET m == [id |-> logged + 1, level |-> level]
  IN  /\ MutexFree
      /\ logged' = m.id
      /\ IF level > m_level
         THEN UNCHANGED <<m_log_cache, accepted, loop>>
         ELSE /\ m_log_cache' = Append(m_log_cache, m)
              /\ accepted' = Append(accepted, m)
              /\ UNCHANGED loop

\* The critical section of LoggerImpl::Log.
Log(level) ==
  LET m == [id |-> logged + 1, level |-> level]
  IN  /\ MutexFree
      /\ logged' = m.id
      /\ IF level > m_level
         THEN UNCHANGED <<m_log_cache, accepted, loop>>
         ELSE /\ m_log_cache' = Append(m_log_cache, m)
              /\ accepted' = Append(accepted, m)
              /\ loop' = Notified

CallLog ==
  /\ caller = "running"
  /\ logged < MaxLogged
  /\ \E level \in LoggerLevels : Log(level)
  /\ UNCHANGED <<m_level, destructor_vars, loop_vars>>

SetLevel ==
  /\ caller = "running"
  /\ MutexFree
  /\ \E level \in LoggerLevels : m_level' = level
  /\ UNCHANGED <<loop, m_log_cache, logged, accepted, destructor_vars, loop_vars>>

-----------------------------------------------------------------------------
(* The thread of the log.                                                  *)

\* The condition of the loop, read without the mutex.
Test ==
  /\ loop = "test"
  /\ loop' = IF m_to_stop THEN "ended" ELSE "lock"
  /\ UNCHANGED <<m_level, m_log_cache, logged, accepted, destructor_vars, loop_vars>>

\* Faulty variant of SomethingToDo: wait without a predicate.
AlwaysSomething == TRUE

\* The predicate of the wait.
SomethingToDo == m_to_stop \/ m_log_cache # <<>>

\* Faulty variant of Take: the message logged last is the first to be written.
TakeBack ==
  /\ loop = "lock"
  /\ SomethingToDo
  /\ m_log_cache # <<>>
  /\ message' = m_log_cache[Len(m_log_cache)]
  /\ m_log_cache' = SubSeq(m_log_cache, 1, Len(m_log_cache) - 1)
  /\ loop' = "write"
  /\ UNCHANGED <<m_level, logged, accepted, handled, undefined, destructor_vars>>

\* The mutex is got, for the first time or after having slept, and the
\* predicate holds: the front is copied and taken out.
Take ==
  /\ loop = "lock"
  /\ SomethingToDo
  /\ m_log_cache # <<>>
  /\ message' = Head(m_log_cache)
  /\ m_log_cache' = Tail(m_log_cache)
  /\ loop' = "write"
  /\ UNCHANGED <<m_level, logged, accepted, handled, undefined, destructor_vars>>

\* The predicate also holds when there is nothing but the order to stop: front
\* and pop_front of an empty queue are undefined.  Either the program crashes or
\* something that was never logged is taken, as an empty text.
TakeFromEmpty ==
  /\ loop = "lock"
  /\ SomethingToDo
  /\ m_log_cache = <<>>
  /\ undefined' = TRUE
  /\ message' = NoMessage
  /\ \/ loop' = "write" /\ UNCHANGED caller
     \/ loop' = "crashed" /\ caller' = "crashed"
  /\ UNCHANGED <<m_level, m_log_cache, logged, accepted, handled, m_to_stop>>

\* The predicate does not hold.
FindNothing ==
  /\ loop = "lock"
  /\ ~SomethingToDo
  /\ loop' = "blocking"
  /\ UNCHANGED <<m_level, m_log_cache, logged, accepted, destructor_vars, loop_vars>>

\* The mutex is given back and the thread sleeps.
FallAsleep ==
  /\ loop = "blocking"
  /\ loop' = "asleep"
  /\ UNCHANGED <<m_level, m_log_cache, logged, accepted, destructor_vars, loop_vars>>

\* A condition variable may wake a thread for no reason.
WakeSpuriously ==
  /\ loop = "asleep"
  /\ loop' = "lock"
  /\ UNCHANGED <<m_level, m_log_cache, logged, accepted, destructor_vars, loop_vars>>

\* The message goes to the file, which is flushed, and to the console.
Write ==
  /\ loop = "write"
  /\ handled' = IF message = NoMessage THEN handled ELSE Append(handled, message)
  /\ loop' = "test"
  /\ UNCHANGED <<m_level, m_log_cache, message, undefined, logged, accepted, destructor_vars>>

-----------------------------------------------------------------------------
(* The destructor.                                                         *)

Stop ==
  /\ caller = "running"
  /\ m_to_stop' = TRUE
  /\ caller' = "notify"
  /\ UNCHANGED <<loop, m_level, m_log_cache, logged, accepted, loop_vars>>

\* Faulty variant of NotifyStop.
NotifyNobody ==
  /\ caller = "notify"
  /\ caller' = "join"
  /\ UNCHANGED <<loop, m_level, m_log_cache, m_to_stop, logged, accepted, loop_vars>>

NotifyStop ==
  /\ caller = "notify"
  /\ loop' = Notified
  /\ caller' = "join"
  /\ UNCHANGED <<m_level, m_log_cache, m_to_stop, logged, accepted, loop_vars>>

Join ==
  /\ caller = "join"
  /\ loop = "ended"
  /\ caller' = "backup"
  /\ UNCHANGED <<loop, m_level, m_log_cache, m_to_stop, logged, accepted, loop_vars>>

\* FileUtil::DuplicateFile copies the file or fails, which it logs, into a queue
\* nobody reads.  The queue is then destroyed, and with it the program if
\* something was taken out when it was empty.
BackUp ==
  /\ caller = "backup"
  /\ \/ UNCHANGED <<loop, m_log_cache, logged, accepted>>
     \/ Log(Error)
  /\ \/ caller' = "ended"
     \/ undefined /\ caller' = "crashed"
  /\ UNCHANGED <<m_level, m_to_stop, loop_vars>>

-----------------------------------------------------------------------------
LoopNext == Test \/ Take \/ TakeFromEmpty \/ FindNothing \/ FallAsleep \/ Write

DestructorNext == NotifyStop \/ Join \/ BackUp

Next == CallLog \/ SetLevel \/ Stop \/ DestructorNext \/ LoopNext \/ WakeSpuriously

\* Both threads are scheduled: neither waits for a lock that another keeps, so a
\* step that can be taken is taken.  A thread woken for no reason cannot be
\* relied upon, nor that the program ends.
Spec == Init /\ [][Next]_vars /\ WF_vars(LoopNext) /\ WF_vars(DestructorNext)

-----------------------------------------------------------------------------
(* Properties.                                                             *)

\* Taken out of the queue and not yet written.
InHand == IF loop = "write" /\ message # NoMessage THEN <<message>> ELSE <<>>

\* Every message the level let through is written, about to be written or in
\* the queue, once, and in the order in which it was logged, whatever the two
\* threads do: LoggerImpl::Log and Loop hand them over under the mutex.
NothingLost == handled \o InHand \o m_log_cache = accepted

\* Loop takes from an empty queue only because of the order to stop, and only
\* once: neither an early wake-up nor a message that came in between leads there.
UndefinedOnlyAtStop ==
  undefined => /\ m_to_stop
               /\ loop \in {"write", "test", "ended", "crashed"}

\* The order to stop is given without the mutex, so it can come after Loop
\* looked and before it sleeps: the destructor then waits for a thread that waits
\* for it.  When that happens, all that was logged has been written.
MissedStopIsHarmless ==
  caller = "join" /\ loop = "asleep" => handled = accepted /\ m_log_cache = <<>>

\* While the program runs a message that got into the queue is written in the
\* end: no notification that counts is lost.
LoggedIsWritten ==
  \A i \in 1..MaxLogged : (Len(accepted) >= i) ~> (Len(handled) >= i \/ m_to_stop)

\* The destructor returns, or the program crashes on the empty queue, unless the
\* notification comes between Loop's look at the queue and its sleep: it need not
\* come after the thread of the log is asleep, only not in that moment.
StopEnds ==
  (caller = "notify" /\ loop # "blocking") ~> caller \in {"ended", "crashed"}
=============================================================================
