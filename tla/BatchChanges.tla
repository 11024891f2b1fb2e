---------------------------- MODULE BatchChanges ----------------------------
(***************************************************************************)
(* The batches of the dev server manager's file watchers: changes are      *)
(* collected until none has come for a while, then handed to the watcher's *)
(* callback in one call; changes that come during a call make up the next  *)
(* one.  DevManager supplies the callbacks; here a call takes any time.    *)
(***************************************************************************)
CONSTANTS
    Watchers,   \* one BatchChanges object per watcher
    Changes     \* the kinds of change a watcher can be told of

VARIABLE batch

Batches == [args    : SUBSET Changes,   \* changes no call has taken yet
            taken   : SUBSET Changes,   \* the changes of the running call
            busy    : BOOLEAN,          \* as last told to onBusy
            timer   : BOOLEAN,
            running : BOOLEAN,
            repeat  : BOOLEAN]

BatchInit ==
    batch = [w \in Watchers |-> [args |-> {}, taken |-> {}, busy |-> FALSE,
                                 timer |-> FALSE, running |-> FALSE, repeat |-> FALSE]]

\* mutant: a change that comes during a call is left to the timer alone
NotifiedNoRepeat(b, c) ==
    [b EXCEPT !.args = @ \cup {c}, !.busy = TRUE, !.timer = @ \/ ~b.running]

\* newChange, with _startTimer: a change during a call makes the batch repeat,
\* any other one starts the wait again.
Notified(b, c) ==
    [b EXCEPT !.args = @ \cup {c}, !.busy = TRUE,
              !.timer = ~b.running, !.repeat = @ \/ b.running]

NewChange(w, c) == batch' = [batch EXCEPT ![w] = Notified(@, c)]

\* _call, up to its await of the callback.
Called(b) == [b EXCEPT !.args = {}, !.taken = b.args, !.timer = FALSE,
                       !.running = TRUE, !.repeat = FALSE]

TimerFires(w) ==
    /\ batch[w].timer
    /\ batch' = [batch EXCEPT ![w] = Called(@)]

\* mutant: a finished call is reported idle although changes came during it
SettledAtOnce(b) == [b EXCEPT !.taken = {}, !.busy = FALSE, !.running = FALSE]

\* mutant: the end of the last call is not reported
SettledUnreported(b) ==
    IF b.repeat THEN Called(b) ELSE [b EXCEPT !.taken = {}, !.running = FALSE]

\* The callback has resolved or thrown: the rest of _call, and _settle.
Settled(b) ==
    IF b.repeat THEN Called(b)
                ELSE [b EXCEPT !.taken = {}, !.busy = FALSE, !.running = FALSE]

CallEnds(w) ==
    /\ batch[w].running
    /\ batch' = [batch EXCEPT ![w] = Settled(@)]

BatchNext == \E w \in Watchers : \/ \E c \in Changes : NewChange(w, c)
                                 \/ TimerFires(w)
                                 \/ CallEnds(w)

BatchSpec == BatchInit /\ [][BatchNext]_batch

-----------------------------------------------------------------------------
BatchTypeOK == batch \in [Watchers -> Batches]

\* Every change some call has yet to take has a timer, or a running call that
\* will be repeated for it, and a watcher with work is busy: what a build-status
\* wait of the manager relies on.  The timer never runs beside a call, so the
\* callback never runs twice at once.
BatchesAreHandled ==
    \A w \in Watchers :
        /\ batch[w].args # {} => batch[w].timer \/ batch[w].repeat
        /\ batch[w].busy <=> batch[w].timer \/ batch[w].running
        /\ ~(batch[w].timer /\ batch[w].running)
        /\ batch[w].repeat => batch[w].running
=============================================================================
