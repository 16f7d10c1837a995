-------------------------- MODULE ThreadSafeQueue --------------------------
(***************************************************************************)
(* The lock-based queue ThreadSafeQueue<T>: a std::queue under a mutex,    *)
(* with a condition variable on which wait_and_pop waits for an item.      *)
(* Any number of threads may call it.  A step of a thread is the taking of *)
(* the mutex, what it does under the mutex, or the release; a notified or  *)
(* spuriously woken thread has to take the mutex again before it goes on.  *)
(* empty() changes nothing and is left out.                                *)
(***************************************************************************)
EXTENDS Integers, Sequences, FiniteSets

CONSTANTS Threads,   \* the threads that call the queue
          Values,    \* the items
          NoValue,   \* no item
          NoThread,  \* the owner of a free mutex
          MaxItems   \* bound on the items in the queue, as push has none

ASSUME ThreadsAssumption == /\ IsFiniteSet(Threads)
                            /\ NoThread \notin Threads
                            /\ NoValue \notin Values
                            /\ MaxItems \in Nat

VARIABLES
  queue_,   \* the items
  mutex_,   \* the thread that holds the mutex
  call,     \* the function each thread is in, or none
  qpc,      \* where in it: outside, enter, body, blocked, relock, take, leave
  value     \* the argument of push, or what the last pop has stored

qvars == <<queue_, mutex_, call, qpc, value>>

\* The threads in cond_, and those that may be about to take an item.
Blocked == {t \in Threads : qpc[t] = "blocked"}
Awake == {t \in Threads : \/ qpc[t] \in {"relock", "take"}
                          \/ qpc[t] = "body" /\ call[t] = "wait_and_pop"}

At(t, where) == qpc' = [qpc EXCEPT ![t] = where]

-----------------------------------------------------------------------------
\* Slips: mutated forms of the definitions below, used to show that a
\* property notices them.

NotifyIfWasEmpty == IF queue_ = <<>> THEN Blocked ELSE {}
IfInsteadOfWhile == "take"
SleepsWithMutex(t) == /\ qpc[t] = "body" /\ call[t] = "wait_and_pop"
                      /\ queue_ = <<>>
                      /\ At(t, "blocked")
                      /\ UNCHANGED <<queue_, mutex_, call, value>>
-----------------------------------------------------------------------------
QueueInit == /\ queue_ = <<>>
             /\ mutex_ = NoThread
             /\ call = [t \in Threads |-> "none"]
             /\ qpc = [t \in Threads |-> "outside"]
             /\ value = [t \in Threads |-> NoValue]

Call(t, function, v) == /\ qpc[t] = "outside"
                        /\ call' = [call EXCEPT ![t] = function]
                        /\ value' = [value EXCEPT ![t] = v]
                        /\ At(t, "enter")
                        /\ UNCHANGED <<queue_, mutex_>>

\* The bound: push is called while there is room for what is being pushed.
Room == Len(queue_) + Cardinality({t \in Threads : call[t] = "push"}) < MaxItems

CallPush(t, v) == Room /\ Call(t, "push", v)
CallWaitAndPop(t) == Call(t, "wait_and_pop", value[t])
CallTryPop(t) == Call(t, "try_pop", value[t])

\* The constructor of the lock_guard or unique_lock.
Lock(t) == /\ qpc[t] = "enter"
           /\ mutex_ = NoThread
           /\ mutex_' = t
           /\ At(t, "body")
           /\ UNCHANGED <<queue_, call, value>>

\* Its destructor; the call returns.
Unlock(t) == /\ qpc[t] = "leave"
             /\ mutex_' = NoThread
             /\ call' = [call EXCEPT ![t] = "none"]
             /\ At(t, "outside")
             /\ UNCHANGED <<queue_, value>>

\* Whom notify_one may wake.
Notifiable == Blocked

PushBody(t) ==
  /\ qpc[t] = "body" /\ call[t] = "push"
  /\ queue_' = Append(queue_, value[t])
  /\ \/ /\ Notifiable = {}
        /\ At(t, "leave")
     \/ \E w \in Notifiable :
          qpc' = [qpc EXCEPT ![t] = "leave", ![w] = "relock"]
  /\ UNCHANGED <<mutex_, call, value>>

\* cond_.wait: test the predicate, and block, letting go of the mutex, while
\* it is false.
PredicateTrue(t) == /\ qpc[t] = "body" /\ call[t] = "wait_and_pop"
                    /\ queue_ # <<>>
                    /\ At(t, "take")
                    /\ UNCHANGED <<queue_, mutex_, call, value>>

PredicateFalse(t) == /\ qpc[t] = "body" /\ call[t] = "wait_and_pop"
                     /\ queue_ = <<>>
                     /\ At(t, "blocked")
                     /\ mutex_' = NoThread
                     /\ UNCHANGED <<queue_, call, value>>

SpuriousWakeup(t) == /\ qpc[t] = "blocked"
                     /\ At(t, "relock")
                     /\ UNCHANGED <<queue_, mutex_, call, value>>

\* After a wakeup the predicate is tested again.
AfterWakeup == "body"

Relock(t) == /\ qpc[t] = "relock"
             /\ mutex_ = NoThread
             /\ mutex_' = t
             /\ At(t, AfterWakeup)
             /\ UNCHANGED <<queue_, call, value>>

Take(t) == /\ qpc[t] = "take"
           /\ value' = [value EXCEPT ![t] = Head(queue_)]
           /\ queue_' = Tail(queue_)
           /\ At(t, "leave")
           /\ UNCHANGED <<mutex_, call>>

TryFinds(t) == /\ qpc[t] = "body" /\ call[t] = "try_pop"
               /\ queue_ # <<>>
               /\ At(t, "take")
               /\ UNCHANGED <<queue_, mutex_, call, value>>

TryFails(t) == /\ qpc[t] = "body" /\ call[t] = "try_pop"
               /\ queue_ = <<>>
               /\ At(t, "leave")
               /\ UNCHANGED <<queue_, mutex_, call, value>>

\* What a thread does inside a call, as long as it is not blocked.
Step(t) == \/ Lock(t) \/ PushBody(t) \/ PredicateTrue(t) \/ PredicateFalse(t)
           \/ Relock(t) \/ Take(t) \/ TryFinds(t) \/ TryFails(t) \/ Unlock(t)

QueueNext == \E t \in Threads :
               \/ \E v \in Values : CallPush(t, v)
               \/ CallWaitAndPop(t)
               \/ CallTryPop(t)
               \/ Step(t)
               \/ SpuriousWakeup(t)

QueueSpec == QueueInit /\ [][QueueNext]_qvars
-----------------------------------------------------------------------------
\* Every variable has its type, and who is under the mutex holds it.
QueueTypeOK ==
  /\ queue_ \in Seq(Values)
  /\ mutex_ \in Threads \cup {NoThread}
  /\ call \in [Threads -> {"none", "push", "wait_and_pop", "try_pop"}]
  /\ qpc \in [Threads -> {"outside", "enter", "body", "blocked", "relock",
                          "take", "leave"}]
  /\ value \in [Threads -> Values \cup {NoValue}]
  /\ \A t \in Threads : mutex_ = t <=> qpc[t] \in {"body", "take", "leave"}

\* No item waits for a sleeper: while threads are blocked in wait_and_pop
\* there is, for each item in the queue, a thread awake to take it.
NoLostWakeup == Blocked # {} => Len(queue_) <= Cardinality(Awake)

\* front() and pop() are never called on an empty queue, although between the
\* push that woke a thread and its turn another may have taken the item.
NoPopOfEmpty == \A t \in Threads : qpc[t] = "take" => queue_ # <<>>
=============================================================================
