---------------------------- MODULE ReactorMutex ----------------------------
(***************************************************************************)
(* klippy/reactor.py, class ReactorMutex: the mutex greenlets use, and in  *)
(* particular the "gcode mutex" that serialises every G-code script.       *)
(*                                                                         *)
(* Greenlets are scheduled cooperatively, so each operation below is       *)
(* atomic.  The lock is handed over: when somebody waits, __exit__ leaves  *)
(* is_locked set, raises next_pending and wakes the first waiter; until    *)
(* that greenlet runs nobody owns the lock, and the one that released it   *)
(* goes on running and may even queue again behind the others.             *)
(***************************************************************************)
EXTENDS Sequences, Naturals

CONSTANT Greenlets        \* the greenlets of the klippy process

VARIABLES
    isLocked,             \* self.is_locked
    nextPending,          \* self.next_pending
    queue                 \* self.queue, the waiting greenlets, oldest first

mutexVars == <<isLocked, nextPending, queue>>

MutexInit ==
    /\ isLocked = FALSE
    /\ nextPending = FALSE
    /\ queue = <<>>

\* Mutant of EnterFree: is_locked is not looked at.
EnterFree_Untested ==
    /\ isLocked' = TRUE
    /\ UNCHANGED <<nextPending, queue>>

\* __enter__ when nobody holds the lock: the caller goes on with it.
EnterFree ==
    /\ ~isLocked
    /\ isLocked' = TRUE
    /\ UNCHANGED <<nextPending, queue>>

\* __enter__ when the lock is taken: the caller queues and is suspended.
EnterQueue(g) ==
    /\ isLocked
    /\ queue' = Append(queue, g)
    /\ UNCHANGED <<isLocked, nextPending>>

\* The loop of __enter__: only the greenlet at the head of the queue may
\* take the lock that is being handed over.
EnterWake(g) ==
    /\ nextPending
    /\ queue # <<>>
    /\ Head(queue) = g
    /\ nextPending' = FALSE
    /\ queue' = Tail(queue)
    /\ UNCHANGED isLocked

\* Mutants of Exit: the lock is freed although somebody waits; the waiter
\* is not woken.
Exit_Frees ==
    /\ isLocked' = FALSE
    /\ nextPending' = (IF queue # <<>> THEN TRUE ELSE nextPending)
    /\ UNCHANGED queue

Exit_NoWake ==
    /\ isLocked' = (queue # <<>>)
    /\ UNCHANGED <<nextPending, queue>>

\* __exit__: free the lock, or hand it to the oldest waiter.
Exit ==
    /\ isLocked' = (queue # <<>>)
    /\ nextPending' = (IF queue # <<>> THEN TRUE ELSE nextPending)
    /\ UNCHANGED queue

MutexTypeOK ==
    /\ isLocked \in BOOLEAN
    /\ nextPending \in BOOLEAN
    /\ queue \in Seq(Greenlets)
=============================================================================
