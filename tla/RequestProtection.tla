-------------------------- MODULE RequestProtection --------------------------
(***************************************************************************)
(* The limiter of a costly route, called by the threads of one process, and  *)
(* the gate that counts failed sign-ins.  A call reads the clock before it    *)
(* takes the lock.  Time is in ticks, a second is TicksPerSecond of them.     *)
(***************************************************************************)
EXTENDS Integers, Sequences, FiniteSets

CONSTANTS
    Threads,          \* request threads
    Limit,            \* events of one window
    TicksPerSecond,
    WindowSeconds,
    MaxMoment         \* bound: ticks

ASSUME LimiterAssumption ==
    Limit \in Nat \ {0} /\ TicksPerSecond \in Nat \ {0} /\ WindowSeconds \in Nat \ {0}

VARIABLES
    moment,     \* the monotonic clock
    events,     \* the deque of one key
    request,    \* what each thread is doing
    allowed     \* the events let through, with the moment each was let through

limiterVars == <<moment, events, request, allowed>>

Window == WindowSeconds * TicksPerSecond

---------------------------------------------------------------------------
(* The limiter *)

\* The oldest events go, up to the first that is still within the window.
Expired(seq, cutoff) ==
    {n \in 1..Len(seq) : \A i \in 1..n : seq[i] =< cutoff}

NotExpired(seq, cutoff) == SubSeq(seq, Cardinality(Expired(seq, cutoff)) + 1, Len(seq))

\* Mutant: the limit itself is let through too.
HasRoomAndOne(seq) == Len(seq) =< Limit

HasRoom(seq) == Len(seq) < Limit

IsLimited(seq, now) == Cardinality({i \in DOMAIN seq : seq[i] > now - Window}) >= Limit

\* Whole seconds, at least one.
RetryAfterSeconds(seq, now) ==
    LET wait == (Window - (now - Head(seq))) \div TicksPerSecond + 1
    IN  IF seq = <<>> THEN 0 ELSE IF wait < 1 THEN 1 ELSE wait

\* Records an event stamped at, if there is room.
Allow(at) ==
    LET kept == NotExpired(events, at - Window)
    IN  /\ events' = IF HasRoom(kept) THEN Append(kept, at) ELSE kept
        /\ allowed' = IF HasRoom(kept) THEN Append(allowed, [stamp |-> at, at |-> moment]) ELSE allowed

---------------------------------------------------------------------------
LimiterInit ==
    /\ moment = 0
    /\ events = <<>>
    /\ request = [t \in Threads |-> [phase |-> "idle"]]
    /\ allowed = <<>>

ReadClock(t) ==
    /\ request[t].phase \in {"idle", "allowed", "refused"}
    /\ request' = [request EXCEPT ![t] = [phase |-> "reading", stamp |-> moment]]
    /\ UNCHANGED <<moment, events, allowed>>

\* The locked part of allow().
Decide(t) ==
    /\ request[t].phase = "reading"
    /\ Allow(request[t].stamp)
    /\ request' = [request EXCEPT ![t].phase = IF allowed' # allowed THEN "allowed" ELSE "limited"]
    /\ UNCHANGED moment

Refusal == [phase |-> "refused", at |-> moment, retry_after |-> RetryAfterSeconds(events, moment)]

\* The 429 answer asks the limiter again, for the time to wait.
Refuse429(t) ==
    /\ request[t].phase = "limited"
    /\ request' = [request EXCEPT ![t] = Refusal]
    /\ UNCHANGED <<moment, events, allowed>>

\* The gate runs on the event loop: the question and the count are one step.
\* Only credentials that were presented and are wrong count.
SignIn(t, credentials) ==
    /\ IF credentials = "wrong" /\ ~IsLimited(events, moment)
       THEN Allow(moment)
       ELSE UNCHANGED <<events, allowed>>
    /\ request' = [request EXCEPT ![t] =
         IF IsLimited(events, moment) THEN Refusal
         ELSE [phase |-> IF credentials = "right" THEN "allowed" ELSE "denied"]]
    /\ UNCHANGED moment

Pass ==
    /\ moment < MaxMoment
    /\ moment' = moment + 1
    /\ UNCHANGED <<events, request, allowed>>

\* The threads of the costly route.
LimiterNext == Pass \/ \E t \in Threads : ReadClock(t) \/ Decide(t) \/ Refuse429(t)

\* The gate.
GateNext ==
    Pass \/ \E t \in Threads, credentials \in {"none", "wrong", "right"} : SignIn(t, credentials)

---------------------------------------------------------------------------
\* api/rate_limit.py:42: however long a thread waits between the clock and the
\* lock, no more than the limit of what was let through is stamped within the last
\* window; and a refused caller who waits as long as it was told finds room, if
\* nobody else has been let through.
LimitIsKept ==
    /\ Cardinality({i \in DOMAIN allowed : allowed[i].stamp > moment - Window}) =< Limit
    /\ \A t \in Threads :
         (request[t].phase = "refused"
          /\ \A i \in DOMAIN allowed : allowed[i].at < request[t].at) =>
            LET then == request[t].at + request[t].retry_after * TicksPerSecond
            IN  /\ HasRoom(NotExpired(events, then - Window))
                /\ ~IsLimited(events, then)
=============================================================================
