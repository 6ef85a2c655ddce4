---------------------------- MODULE LogManager ----------------------------
(***************************************************************************)
(* LogManager (log_manager.cpp): add_message reads the system clock and    *)
(* then appends an entry to a concurrent vector.  Threads call it at the   *)
(* same time, and a thread can lose the processor between the two steps.   *)
(* Entries are never changed or removed.                                   *)
(*                                                                         *)
(* The reporter is a name the caller passes, and several threads can pass  *)
(* the same one.  A message is the call it was passed to: the thread and   *)
(* the number of the call among that thread's calls.  The log level is     *)
(* left out.  The clock is taken not to be set back, and emplace_back to   *)
(* be the one step tbb::concurrent_vector makes of it.                     *)
(***************************************************************************)
EXTENDS Naturals, Sequences, FiniteSets, SequencesExt

CONSTANTS
    Threads,        \* the threads that call add_message
    Reporters,      \* the names they pass as reporter
    MaxMessages,    \* bound: calls of add_message per thread
    MaxTime         \* bound: the last time the clock shows

VARIABLES
    log_entries,    \* _log_entries
    system_clock,   \* the time std::chrono::system_clock::now() last returned
    call,           \* reporter and now of the call a thread is in
    message_count   \* the calls of add_message a thread has begun

vars == <<log_entries, system_clock, call, message_count>>

NotCalling == [reporter |-> "none"]

Messages == [thread : Threads, number : 1..MaxMessages]

Init ==
    /\ log_entries = <<>>
    /\ system_clock = 0
    /\ call = [thread \in Threads |-> NotCalling]
    /\ message_count = [thread \in Threads |-> 0]

\* The mutation: a thread reads the time in its first call and keeps it.
Now_of_first_call(thread, time) ==
    LET first == SelectInSeq(log_entries, LAMBDA entry : entry.message.thread = thread)
    IN  IF first = 0 THEN time ELSE log_entries[first].timestamp

Now(thread, time) == time

\* add_message up to the read of the clock, which returns a time not before
\* the time it returned last.
ReadClock(thread) ==
    /\ call[thread] = NotCalling
    /\ message_count[thread] < MaxMessages
    /\ \E reporter \in Reporters, time \in system_clock..MaxTime :
          /\ system_clock' = time
          /\ call' = [call EXCEPT ![thread] = [reporter |-> reporter,
                                               now      |-> Now(thread, time)]]
    /\ message_count' = [message_count EXCEPT ![thread] = @ + 1]
    /\ UNCHANGED log_entries

\* The mutation: reporter and message, both strings, are given in the
\* other order.
LogEntry_swapped(thread) ==
    [timestamp |-> call[thread].now,
     reporter  |-> [thread |-> thread, number |-> message_count[thread]],
     message   |-> call[thread].reporter]

LogEntry(thread) ==
    [timestamp |-> call[thread].now,
     reporter  |-> call[thread].reporter,
     message   |-> [thread |-> thread, number |-> message_count[thread]]]

\* The rest of add_message: the entry is built and appended.
EmplaceBack(thread) ==
    /\ call[thread] # NotCalling
    /\ log_entries' = Append(log_entries, LogEntry(thread))
    /\ call' = [call EXCEPT ![thread] = NotCalling]
    /\ UNCHANGED <<system_clock, message_count>>

Next == \E thread \in Threads : ReadClock(thread) \/ EmplaceBack(thread)

Spec == Init /\ [][Next]_vars

-----------------------------------------------------------------------------

TypeOK ==
    /\ log_entries \in Seq([timestamp : 0..MaxTime, reporter : Reporters,
                            message : Messages])
    /\ system_clock \in 0..MaxTime
    /\ call \in [Threads -> [reporter : Reporters, now : 0..MaxTime] \cup {NotCalling}]
    /\ message_count \in [Threads -> 0..MaxMessages]

\* The log is not in the order of its timestamps, since a thread can be
\* overtaken between the read of the clock and the append.  The disorder is
\* bounded: an entry is followed by at most one entry with an earlier time
\* for each other thread, the one of the call that was under way, under
\* whatever reporter names the calls are made.
LateEntriesAreBounded ==
    \A i \in DOMAIN log_entries :
        Cardinality({j \in DOMAIN log_entries :
                        j > i /\ log_entries[j].timestamp < log_entries[i].timestamp})
            < Cardinality(Threads)

=============================================================================
