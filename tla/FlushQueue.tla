----------------------------- MODULE FlushQueue -----------------------------
(***************************************************************************)
(* flush_queue<T> of common_src/threadsafe_queue.hpp: threads append to a  *)
(* vector under a mutex, and flush swaps the whole vector out.  flush      *)
(* reserves its replacement outside of the mutex, for as many elements as  *)
(* an atomic hint says, and raises the hint afterwards with a weak         *)
(* compare-and-exchange.                                                   *)
(*                                                                         *)
(* A step is what happens under the mutex, or one operation on the hint.   *)
(* Elements are numbered in the order in which they are appended.          *)
(***************************************************************************)
EXTENDS Naturals, SequencesExt

CONSTANTS
    Flushers,     \* threads that call flush
    Reserve,      \* constructor argument reserve
    MaxElements   \* bound: elements appended

ASSUME FlushQueueAssumption == Reserve \in Nat /\ MaxElements \in Nat

VARIABLES
    vector,       \* the elements in the queue
    space,        \* vector.capacity()
    capacity,     \* the atomic hint
    appended,     \* number of elements appended
    flusher,      \* per flusher: where it is, and its locals r and c
    taken         \* history: what the last call that took elements got

vars == <<vector, space, capacity, appended, flusher, taken>>

Elements == 1 .. MaxElements

TypeOK ==
    /\ vector \in Seq(Elements)
    /\ space \in Nat /\ Len(vector) <= space
    /\ capacity \in Nat
    /\ appended \in 0 .. MaxElements
    /\ flusher \in [Flushers -> [at : {"idle", "reserved", "raising", "returning"},
                                 r : Nat, c : Nat]]
    /\ taken \in Seq(Elements)

\* std::vector doubles its memory when it is full.
Grown(n) == IF n = 0 THEN 1 ELSE 2 * n

Init ==
    /\ vector = <<>>
    /\ space = Reserve
    /\ capacity = Reserve
    /\ appended = 0
    /\ flusher = [f \in Flushers |-> [at |-> "idle", r |-> 0, c |-> 0]]
    /\ taken = <<>>

-----------------------------------------------------------------------------
emplace_back ==
    /\ appended < MaxElements
    /\ appended' = appended + 1
    /\ vector' = Append(vector, appended')
    /\ space' = IF Len(vector) = space THEN Grown(space) ELSE space
    /\ UNCHANGED <<capacity, flusher, taken>>

\* Of an empty queue, try_pop_back returns false.
try_pop_back ==
    /\ vector # <<>>
    /\ taken' = <<Last(vector)>>
    /\ vector' = Front(vector)
    /\ UNCHANGED <<space, capacity, appended, flusher>>

-----------------------------------------------------------------------------
(* flush.                                                                  *)

\* The hint is loaded and a replacement reserved.
FlushReserve(f) ==
    /\ flusher[f].at = "idle"
    /\ flusher' = [flusher EXCEPT ![f].at = "reserved", ![f].r = capacity]
    /\ UNCHANGED <<vector, space, capacity, appended, taken>>

\* Faulty variant: the vector is copied out, but not emptied.
FlushCopies(f) ==
    /\ flusher[f].at = "reserved"
    /\ flusher' = [flusher EXCEPT ![f] = [at |-> "raising", r |-> @.r, c |-> space]]
    /\ taken' = vector
    /\ UNCHANGED <<vector, space, capacity, appended>>

\* Faulty variant: the replacement is resized instead of reserved.
FlushResizes(f) ==
    /\ flusher[f].at = "reserved"
    /\ flusher' = [flusher EXCEPT ![f] = [at |-> "raising", r |-> @.r, c |-> space]]
    /\ taken' = vector
    /\ vector' = [i \in 1 .. flusher[f].r |-> 0]
    /\ space' = flusher[f].r
    /\ UNCHANGED <<capacity, appended>>

\* Under the mutex: the vectors are swapped.
FlushSwap(f) ==
    /\ flusher[f].at = "reserved"
    /\ flusher' = [flusher EXCEPT ![f] = [at |-> "raising", r |-> @.r, c |-> space]]
    /\ taken' = vector
    /\ vector' = <<>>
    /\ space' = flusher[f].r
    /\ UNCHANGED <<capacity, appended>>

\* Faulty variant: the hint is exchanged even for a smaller value.
RaiseToAny(f) ==
    /\ flusher[f].at = "raising"
    /\ flusher[f].c # flusher[f].r
    /\ capacity = flusher[f].r
    /\ capacity' = flusher[f].c
    /\ UNCHANGED <<vector, space, appended, flusher, taken>>

MustRaise(f) == flusher[f].at = "raising" /\ flusher[f].c > flusher[f].r

\* The exchange succeeds and leaves r alone; the loop goes on.
RaiseSucceeds(f) ==
    /\ MustRaise(f)
    /\ capacity = flusher[f].r
    /\ capacity' = flusher[f].c
    /\ UNCHANGED <<vector, space, appended, flusher, taken>>

\* Faulty variant: the loop is left on success and repeated on failure, with
\* the old expected value.
RaiseRetries(f) == MustRaise(f) /\ UNCHANGED vars

\* The exchange fails, the hint being another, or spuriously.  It loads the
\* hint into r and the loop ends.
RaiseFails(f) ==
    /\ MustRaise(f)
    /\ flusher' = [flusher EXCEPT ![f].at = "returning", ![f].r = capacity]
    /\ UNCHANGED <<vector, space, capacity, appended, taken>>

FlushReturn(f) ==
    /\ flusher[f].at \in {"raising", "returning"} /\ ~MustRaise(f)
    /\ flusher' = [flusher EXCEPT ![f] = [at |-> "idle", r |-> 0, c |-> 0]]
    /\ UNCHANGED <<vector, space, capacity, appended, taken>>

FlushGoesOn(f) ==
    FlushSwap(f) \/ RaiseSucceeds(f) \/ RaiseFails(f) \/ FlushReturn(f)

Next ==
    \/ emplace_back
    \/ try_pop_back
    \/ \E f \in Flushers : FlushReserve(f) \/ FlushGoesOn(f)

Spec == Init /\ [][Next]_vars

\* A thread inside flush goes on; nobody blocks while it holds the mutex.
LiveSpec == Spec /\ \A f \in Flushers : WF_vars(FlushGoesOn(f))

-----------------------------------------------------------------------------
(* Properties.                                                             *)

Promise == INSTANCE MessageBuffer WITH buffer <- vector, Messages <- Elements

\* To its users flush takes effect at one moment, when it swaps the vectors,
\* though its work on the hint interleaves with appends, try_pop_back and
\* other flushes before and after: no element is lost, handed out twice or
\* out of order.
ImplementsMessageBuffer == Promise!Spec

\* The hint only grows: a flush that loaded it long ago does not undo what
\* others raised it to.
HintGrows == [][capacity' >= capacity]_vars

\* flush ends, whatever other threads do to the hint.  Its loop repeats the
\* exchange after a success; as the hint only grows, the next one fails.
FlushReturns ==
    \A f \in Flushers : flusher[f].at # "idle" ~> flusher[f].at = "idle"
=============================================================================
