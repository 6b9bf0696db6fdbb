--------------------------- MODULE SinceLastVisit ---------------------------
(***************************************************************************)
(* The recap a returning reader gets (GET /since-last-visit) and the        *)
(* checkpoint the browser keeps.  A request carries the stored checkpoint;  *)
(* the server reads its clock once, before any query, and answers with the  *)
(* check runs completed in (after, through]; the page shows them and stores *)
(* through, which becomes the next after.                                   *)
(*                                                                          *)
(* Check runs are written by release processing, which stamps completed_at  *)
(* inside the transaction and commits later.  Tabs race one another; a page *)
(* may be closed and storage may be cleared at any point.                   *)
(***************************************************************************)
EXTENDS Values

CONSTANTS
    Runs,       \* check runs of the releases behind the two monitors
    Tabs,       \* open pages of one browser, sharing its storage
    Lookback,   \* DEFAULT_MAX_LOOKBACK_DAYS
    MaxTime     \* bound: the last instant the clock reaches

ASSUME LookbackAssumption == Lookback \in Nat /\ MaxTime \in Nat
ASSUME NullAssumption == Null \notin Int

VARIABLES
    clock,        \* the server's UTC clock
    run,          \* where each check run's transaction is
    completedAt,  \* the completed_at it stamped
    committedAt,  \* when its transaction committed
    checkpoint,   \* the through kept in localStorage
    tab,          \* where each page is
    after,        \* the checkpoint its request carries
    through,      \* the watermark its response carries
    found,        \* the runs its response lists
    shown,        \* runs some page has shown
    beyond,       \* runs a shown recap said it does not reach back to
    watermarks    \* every through that was ever stored

checkRuns == <<run, completedAt, committedAt>>
pages == <<tab, after, through, found>>
readerHistory == <<shown, beyond, watermarks>>
visitVars == <<clock, run, completedAt, committedAt, checkpoint, tab, after, through,
          found, shown, beyond, watermarks>>

Instant == 0..MaxTime

VisitTypeOK ==
    /\ clock \in Instant
    /\ run \in [Runs -> {"open", "stamped", "committed"}]
    /\ completedAt \in [Runs -> Instant \cup {Null}]
    /\ committedAt \in [Runs -> Instant \cup {Null}]
    /\ checkpoint \in Instant \cup {Null}
    /\ tab \in [Tabs -> {"idle", "asking", "answering", "loaded", "rendered"}]
    /\ after \in [Tabs -> Instant \cup {Null}]
    /\ through \in [Tabs -> Instant]
    /\ found \in [Tabs -> SUBSET Runs]
    /\ shown \in SUBSET Runs
    /\ beyond \in SUBSET Runs
    /\ watermarks \in SUBSET Instant

---------------------------------------------------------------------------
(* Release processing *)

VisitInit ==
    /\ clock = 0
    /\ run = [r \in Runs |-> "open"]
    /\ completedAt = [r \in Runs |-> Null]
    /\ committedAt = [r \in Runs |-> Null]
    /\ checkpoint = Null
    /\ tab = [t \in Tabs |-> "idle"]
    /\ after = [t \in Tabs |-> Null]
    /\ through = [t \in Tabs |-> 0]
    /\ found = [t \in Tabs |-> {}]
    /\ shown = {}
    /\ beyond = {}
    /\ watermarks = {}

Tick ==
    /\ clock < MaxTime
    /\ clock' = clock + 1
    /\ UNCHANGED <<checkRuns, checkpoint, pages, readerHistory>>

\* process_occurrence() reads completed_at, then writes its rows.
StampRun(r) ==
    /\ run[r] = "open"
    /\ run' = [run EXCEPT ![r] = "stamped"]
    /\ completedAt' = [completedAt EXCEPT ![r] = clock]
    /\ UNCHANGED <<clock, committedAt, checkpoint, pages, readerHistory>>

\* session_scope() commits when the with block ends.
CommitRun(r) ==
    /\ run[r] = "stamped"
    /\ run' = [run EXCEPT ![r] = "committed"]
    /\ committedAt' = [committedAt EXCEPT ![r] = clock]
    /\ UNCHANGED <<clock, completedAt, checkpoint, pages, readerHistory>>

\* ... or rolls back, and a later sweep tries again.
RollBackRun(r) ==
    /\ run[r] = "stamped"
    /\ run' = [run EXCEPT ![r] = "open"]
    /\ completedAt' = [completedAt EXCEPT ![r] = Null]
    /\ UNCHANGED <<clock, committedAt, checkpoint, pages, readerHistory>>

---------------------------------------------------------------------------
(* The page and the endpoint *)

\* useSinceLastVisit reads the checkpoint once per request.
Ask(t) ==
    /\ tab[t] = "idle"
    /\ tab' = [tab EXCEPT ![t] = "asking"]
    /\ after' = [after EXCEPT ![t] = checkpoint]
    /\ UNCHANGED <<clock, checkRuns, checkpoint, through, found, readerHistory>>

\* Mutant: the watermark is taken from a host whose clock is ahead.
TakeWatermarkAhead(t) ==
    /\ tab[t] = "asking"
    /\ tab' = [tab EXCEPT ![t] = "answering"]
    /\ through' = [through EXCEPT ![t] = clock + 1]
    /\ UNCHANGED <<clock, checkRuns, checkpoint, after, found, readerHistory>>

\* get_recap() reads the clock before any query.
TakeWatermark(t) ==
    /\ tab[t] = "asking"
    /\ tab' = [tab EXCEPT ![t] = "answering"]
    /\ through' = [through EXCEPT ![t] = clock]
    /\ UNCHANGED <<clock, checkRuns, checkpoint, after, found, readerHistory>>

\* resolve_window(): no checkpoint, or one that is not in the past, is a
\* first visit; an old one is clamped.  The response says which.
FirstVisit(a, w) == a = Null \/ a >= w

LookbackClamped(a, w) == ~FirstVisit(a, w) /\ a < w - Lookback

EffectiveAfter(a, w) ==
    IF FirstVisit(a, w) \/ LookbackClamped(a, w) THEN w - Lookback ELSE a

\* list_check_runs_in_window: after < completed_at <= through.
CompletedInWindow(t) ==
    {r \in Runs : /\ run[r] = "committed"
                  /\ EffectiveAfter(after[t], through[t]) < completedAt[r]
                  /\ completedAt[r] <= through[t]}

Query(t) ==
    /\ tab[t] = "answering"
    /\ tab' = [tab EXCEPT ![t] = "loaded"]
    /\ found' = [found EXCEPT ![t] = CompletedInWindow(t)]
    /\ UNCHANGED <<clock, checkRuns, checkpoint, after, through, readerHistory>>

\* The response becomes the page's state.
Render(t) ==
    /\ tab[t] = "loaded"
    /\ tab' = [tab EXCEPT ![t] = "rendered"]
    /\ shown' = shown \cup found[t]
    /\ beyond' = beyond \cup
         {r \in Runs : /\ \/ FirstVisit(after[t], through[t])
                          \/ LookbackClamped(after[t], through[t])
                       /\ run[r] = "committed"
                       /\ completedAt[r] <= through[t] - Lookback}
    /\ UNCHANGED <<clock, checkRuns, checkpoint, after, through, found, watermarks>>

\* Nothing of a request outlives it.
Forget(t) ==
    /\ tab' = [tab EXCEPT ![t] = "idle"]
    /\ after' = [after EXCEPT ![t] = Null]
    /\ through' = [through EXCEPT ![t] = 0]
    /\ found' = [found EXCEPT ![t] = {}]

\* Mutant: the page stores the time at which it rendered.
AcknowledgeNow(t) ==
    /\ tab[t] = "rendered"
    /\ checkpoint' = clock
    /\ watermarks' = watermarks \cup {clock}
    /\ Forget(t)
    /\ UNCHANGED <<clock, checkRuns, shown, beyond>>

\* The effect that follows stores through, whatever another tab has stored.
Acknowledge(t) ==
    /\ tab[t] = "rendered"
    /\ checkpoint' = through[t]
    /\ watermarks' = watermarks \cup {through[t]}
    /\ Forget(t)
    /\ UNCHANGED <<clock, checkRuns, shown, beyond>>

\* The page is closed, or the request fails: nothing is stored.
Leave(t) ==
    /\ tab[t] # "idle"
    /\ Forget(t)
    /\ UNCHANGED <<clock, checkRuns, checkpoint, readerHistory>>

\* Storage is cleared, refused, or holds something unreadable.
LoseCheckpoint ==
    /\ checkpoint' = Null
    /\ UNCHANGED <<clock, checkRuns, pages, readerHistory>>

VisitNext ==
    \/ Tick
    \/ \E r \in Runs : StampRun(r) \/ CommitRun(r) \/ RollBackRun(r)
    \/ \E t \in Tabs : \/ Ask(t) \/ TakeWatermark(t) \/ Query(t)
                       \/ Render(t) \/ Acknowledge(t) \/ Leave(t)
    \/ LoseCheckpoint

VisitSpec == VisitInit /\ [][VisitNext]_visitVars

---------------------------------------------------------------------------
(* Properties *)

\* Nobody will ever see r: it is committed at or before the stored
\* checkpoint, no page has shown it, and no recap said it stopped short.
Lost(r) ==
    /\ run[r] = "committed"
    /\ checkpoint # Null
    /\ completedAt[r] <= checkpoint
    /\ r \notin shown \cup beyond

\* get_recap()'s comment: reading the clock first "guarantees no event this
\* response might miss is ever permanently lost".
NothingIsLost == \A r \in Runs : ~Lost(r)

\* What the code does guarantee, whatever the tabs, closures and cleared
\* storage: a run is lost only when a stored watermark fell between its
\* completed_at and its commit.
LostOnlyIfStraddled ==
    \A r \in Runs : Lost(r) =>
        \E w \in watermarks : completedAt[r] <= w /\ w <= committedAt[r]
=============================================================================
