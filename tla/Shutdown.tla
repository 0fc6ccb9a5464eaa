------------------------------ MODULE Shutdown ------------------------------
(***************************************************************************)
(* ShutdownCoordinator's mode and ShutdownSignalHandler, at the grain of   *)
(* their two locks.                                                        *)
(*                                                                         *)
(* Python runs a signal handler on the main thread, between two bytecode   *)
(* instructions of whatever runs there: the handler is a frame on top of   *)
(* the main thread's stack, and the frames below it wait, holding what     *)
(* locks they hold.  Both locks are plain threading.Lock objects: a thread *)
(* that takes one it already holds waits for itself.                       *)
(***************************************************************************)
EXTENDS Naturals, Sequences

CONSTANTS
  Main,            \* the main thread
  Workers,         \* other threads that use the coordinator
  MaxPresses,      \* bound on the number of Ctrl+C
  MaxWorkerCalls   \* bound on the calls all the workers make

ASSUME ShutdownAssumption ==
  /\ Main \notin Workers
  /\ MaxPresses \in Nat
  /\ MaxWorkerCalls \in Nat

Threads == {Main} \cup Workers

DRAIN == "drain"
ABORT == "abort"
None == "none"

\* What SIGINT runs: this library's handle_sigint, or what was there before it.
Ours == "handle_sigint"
Theirs == "original"

\* The steps of each routine, a lock operation or a statement each.  The
\* routines of the coordinator that only read are one: observe.
Routines ==
  [observe  |-> <<"take", "release">>,
   drain    |-> <<"take", "begin", "release">>,
   abort    |-> <<"take", "begin", "release">>,
   sigint   |-> <<"take", "look", "release", "take", "begin", "release",
                  "take_signal", "read_original", "release_signal", "forward">>,
   install  |-> <<"take_signal", "check_install", "save_original", "set_handler",
                  "mark_installed", "release_signal">>,
   restore  |-> <<"take_signal", "check_restore", "reset_handler",
                  "clear_installed", "release_signal">>]

MainRoutines == {"observe", "drain", "abort", "install", "restore"}
WorkerRoutines == {"observe", "drain", "abort"}

\* One activation: the steps it has left and its local variables.
Frame(routine) ==
  [routine  |-> routine,
   todo     |-> Routines[routine],
   mode     |-> IF routine \in {DRAIN, ABORT} THEN routine ELSE None,
   original |-> None]

VARIABLES
  shutting_down, mode,           \* the coordinator
  lock,                          \* its _lock: the frame that holds it, <<thread, depth>>
  signal_lock, installed, original,  \* the signal handler
  disposition,                   \* what signal.getsignal(SIGINT) is
  stack,                         \* per thread, its frames, the running one last
  pressed,                       \* how often Ctrl+C was hit
  pending,                       \* SIGINT has arrived and its handler has not run
  workerCalls,                   \* calls the workers have made
  \* History variables.
  handled,                       \* handlers of this library that have returned
  forwarded,                     \* calls of the original handler they made
  struck,                        \* a handler has started above a frame with a lock
  nested                         \* a handler has started above another one

coordinator == <<shutting_down, mode>>
handler == <<installed, original, disposition>>
locks == <<lock, signal_lock>>
signals == <<pressed, pending, struck, nested>>
counts == <<workerCalls, handled, forwarded>>
vars == <<coordinator, handler, locks, stack, signals, counts>>

Free == <<>>

Init ==
  /\ shutting_down = FALSE /\ mode = None
  /\ lock = Free /\ signal_lock = Free
  /\ installed = FALSE /\ original = None /\ disposition = Theirs
  /\ stack = [t \in Threads |-> <<>>]
  /\ pressed = 0 /\ pending = FALSE
  /\ struck = FALSE /\ nested = FALSE
  /\ workerCalls = 0 /\ handled = 0 /\ forwarded = 0

Depth(t) == Len(stack[t])
Top(t) == stack[t][Depth(t)]
This(t) == <<t, Depth(t)>>

\* The running frame of t is about to do step s.
At(t, s) == Depth(t) > 0 /\ Head(Top(t).todo) = s

\* The running frame of t goes on with steps todo and local variables m and o,
\* or returns if it has no steps left.
GoOn(t, todo, m, o) ==
  LET frame == [Top(t) EXCEPT !.todo = todo, !.mode = m, !.original = o]
  IN  stack' = [stack EXCEPT ![t] = IF todo = <<>> THEN SubSeq(@, 1, Depth(t) - 1)
                                    ELSE [@ EXCEPT ![Depth(t)] = frame]]

Advance(t) == GoOn(t, Tail(Top(t).todo), Top(t).mode, Top(t).original)
-----------------------------------------------------------------------------
\* with self._lock, the lock of the coordinator.
Take(t) ==
  /\ At(t, "take")
  /\ lock = Free
  /\ lock' = This(t)
  /\ Advance(t)
  /\ UNCHANGED <<coordinator, handler, signal_lock, signals, counts>>

Release(t) ==
  /\ At(t, "release")
  /\ lock' = Free
  /\ Advance(t)
  /\ UNCHANGED <<coordinator, handler, signal_lock, signals, counts>>

LookAtNothing(t) ==
  /\ At(t, "look")
  /\ GoOn(t, Tail(Top(t).todo), DRAIN, Top(t).original)
  /\ UNCHANGED <<coordinator, handler, locks, signals, counts>>

\* handle_sigint asks is_shutting_down and picks the mode it will ask for.
Look(t) ==
  /\ At(t, "look")
  /\ GoOn(t, Tail(Top(t).todo), IF shutting_down THEN ABORT ELSE DRAIN, Top(t).original)
  /\ UNCHANGED <<coordinator, handler, locks, signals, counts>>

\* begin_shutdown
BeginShutdownOverwrites(t) ==
  /\ At(t, "begin")
  /\ shutting_down' = TRUE
  /\ mode' = Top(t).mode
  /\ Advance(t)
  /\ UNCHANGED <<handler, locks, signals, counts>>

BeginShutdownWithoutMode(t) ==
  /\ At(t, "begin")
  /\ shutting_down' = TRUE
  /\ mode' = IF mode = DRAIN /\ Top(t).mode = ABORT THEN ABORT ELSE mode
  /\ Advance(t)
  /\ UNCHANGED <<handler, locks, signals, counts>>

BeginShutdown(t) ==
  /\ At(t, "begin")
  /\ LET m == Top(t).mode
     IN  IF shutting_down
         THEN /\ mode' = IF mode = DRAIN /\ m = ABORT THEN ABORT ELSE mode
              /\ UNCHANGED shutting_down
         ELSE /\ shutting_down' = TRUE
              /\ mode' = m
  /\ Advance(t)
  /\ UNCHANGED <<handler, locks, signals, counts>>
-----------------------------------------------------------------------------
\* with self._signal_lock
TakeSignal(t) ==
  /\ At(t, "take_signal")
  /\ signal_lock = Free
  /\ signal_lock' = This(t)
  /\ Advance(t)
  /\ UNCHANGED <<coordinator, handler, lock, signals, counts>>

ReleaseSignal(t) ==
  /\ At(t, "release_signal")
  /\ signal_lock' = Free
  /\ Advance(t)
  /\ UNCHANGED <<coordinator, handler, lock, signals, counts>>

ReadOriginal(t) ==
  /\ At(t, "read_original")
  /\ GoOn(t, Tail(Top(t).todo), Top(t).mode, original)
  /\ UNCHANGED <<coordinator, handler, locks, signals, counts>>

\* handle_sigint calls the handler it replaced, unless there was none or the
\* one it read is itself.
Forward(t) ==
  /\ At(t, "forward")
  /\ forwarded' = IF Top(t).original \in {None, Ours} THEN forwarded ELSE forwarded + 1
  /\ handled' = handled + 1
  /\ Advance(t)
  /\ UNCHANGED <<coordinator, handler, locks, signals, workerCalls>>

CheckInstallNever(t) ==
  /\ At(t, "check_install")
  /\ Advance(t)
  /\ UNCHANGED <<coordinator, handler, locks, signals, counts>>

CheckInstallLeavesLocked(t) ==
  /\ At(t, "check_install")
  /\ GoOn(t, IF installed THEN <<>> ELSE Tail(Top(t).todo), Top(t).mode, Top(t).original)
  /\ UNCHANGED <<coordinator, handler, locks, signals, counts>>

CheckRestoreNever(t) ==
  /\ At(t, "check_restore")
  /\ Advance(t)
  /\ UNCHANGED <<coordinator, handler, locks, signals, counts>>

\* install and restore return early if there is nothing to do.
CheckInstall(t) ==
  /\ At(t, "check_install")
  /\ GoOn(t, IF installed THEN <<"release_signal">> ELSE Tail(Top(t).todo),
          Top(t).mode, Top(t).original)
  /\ UNCHANGED <<coordinator, handler, locks, signals, counts>>

CheckRestore(t) ==
  /\ At(t, "check_restore")
  /\ GoOn(t, IF installed THEN Tail(Top(t).todo) ELSE <<"release_signal">>,
          Top(t).mode, Top(t).original)
  /\ UNCHANGED <<coordinator, handler, locks, signals, counts>>

SaveOriginal(t) ==
  /\ At(t, "save_original")
  /\ original' = disposition
  /\ Advance(t)
  /\ UNCHANGED <<coordinator, installed, disposition, locks, signals, counts>>

SetHandler(t) ==
  /\ At(t, "set_handler")
  /\ disposition' = Ours
  /\ Advance(t)
  /\ UNCHANGED <<coordinator, installed, original, locks, signals, counts>>

MarkInstalled(t) ==
  /\ At(t, "mark_installed")
  /\ installed' = TRUE
  /\ Advance(t)
  /\ UNCHANGED <<coordinator, original, disposition, locks, signals, counts>>

ResetHandler(t) ==
  /\ At(t, "reset_handler")
  /\ disposition' = original
  /\ Advance(t)
  /\ UNCHANGED <<coordinator, installed, original, locks, signals, counts>>

\* The flag and the saved handler are cleared together: the frame holds the
\* lock, and a handler that interrupts between the two waits for it either way.
ClearInstalled(t) ==
  /\ At(t, "clear_installed")
  /\ installed' = FALSE
  /\ original' = None
  /\ Advance(t)
  /\ UNCHANGED <<coordinator, disposition, locks, signals, counts>>
-----------------------------------------------------------------------------
\* The application calls a routine on an idle thread.
Call(routine) ==
  /\ Depth(Main) = 0
  /\ stack' = [stack EXCEPT ![Main] = <<Frame(routine)>>]
  /\ UNCHANGED <<coordinator, handler, locks, signals, counts>>

WorkerCall(t, routine) ==
  /\ Depth(t) = 0
  /\ workerCalls < MaxWorkerCalls
  /\ workerCalls' = workerCalls + 1
  /\ stack' = [stack EXCEPT ![t] = <<Frame(routine)>>]
  /\ UNCHANGED <<coordinator, handler, locks, signals, handled, forwarded>>

\* The user hits Ctrl+C; a SIGINT that has not been handled yet absorbs it.
Press ==
  /\ pressed < MaxPresses
  /\ pressed' = pressed + 1
  /\ pending' = TRUE
  /\ UNCHANGED <<coordinator, handler, locks, stack, struck, nested, counts>>

Holds(t) == \E d \in 1 .. Depth(t) : <<t, d>> \in {lock, signal_lock}

\* The interpreter runs the handler above whatever the main thread runs; it
\* does so too while the main thread waits for a lock.
Deliver ==
  /\ pending
  /\ pending' = FALSE
  /\ IF disposition = Ours
     THEN /\ stack' = [stack EXCEPT ![Main] = Append(@, Frame("sigint"))]
          /\ struck' = (struck \/ Holds(Main))
          /\ nested' = (nested \/ \E d \in 1 .. Depth(Main) : stack[Main][d].routine = "sigint")
     ELSE UNCHANGED <<stack, struck, nested>>
  /\ UNCHANGED <<coordinator, handler, locks, pressed, counts>>
-----------------------------------------------------------------------------
Step(t) ==
  \/ Take(t) \/ Release(t) \/ Look(t) \/ BeginShutdown(t)
  \/ TakeSignal(t) \/ ReleaseSignal(t) \/ ReadOriginal(t) \/ Forward(t)
  \/ CheckInstall(t) \/ SaveOriginal(t) \/ SetHandler(t) \/ MarkInstalled(t)
  \/ CheckRestore(t) \/ ResetHandler(t) \/ ClearInstalled(t)

Next ==
  \/ \E t \in Threads : Step(t)
  \/ \E routine \in MainRoutines : Call(routine)
  \/ \E t \in Workers, routine \in WorkerRoutines : WorkerCall(t, routine)
  \/ Press
  \/ Deliver

\* Every thread that can go on does, and the interpreter does not sit on a
\* signal for ever.  The application may stop calling and the user pressing.
Fairness == WF_vars(Deliver) /\ \A t \in Threads : WF_vars(Step(t))

Spec == Init /\ [][Next]_vars /\ Fairness
-----------------------------------------------------------------------------
HandlerRunning == \E d \in 1 .. Depth(Main) : stack[Main][d].routine = "sigint"

\* The shape of the state.  The flag and the mode, two variables in the code,
\* say the same thing, and a lock is held by a frame that exists.
TypeOK ==
  /\ shutting_down \in BOOLEAN
  /\ mode \in {None, DRAIN, ABORT}
  /\ shutting_down <=> mode # None
  /\ \A l \in {lock, signal_lock} :
       l = Free \/ \E t \in Threads : \E d \in 1 .. Depth(t) : l = <<t, d>>
  /\ installed \in BOOLEAN
  /\ original \in {None, Theirs, Ours}
  /\ disposition \in {Theirs, Ours}
  /\ handled \in 0 .. MaxPresses /\ forwarded \in 0 .. handled

\* A shutdown is never taken back and an abort never becomes a drain again,
\* whichever threads and signals ask for what (shutdown.py begin_shutdown).
ModeMovesForward ==
  [][mode' # mode => mode = None \/ (mode = DRAIN /\ mode' = ABORT)]_vars

\* Once two handlers have run, one after the other, the process aborts
\* (docs/usage.md, "Shutdown Behavior"; signals.py handle_sigint).
SecondSigintAborts == handled >= 2 /\ ~nested => mode = ABORT

\* A handler that started above no lock starts a shutdown and returns, whatever
\* the other threads do with the coordinator meanwhile.
SigintServed == HandlerRunning ~> (struck \/ (shutting_down /\ ~HandlerRunning))

\* Whenever the main thread is idle the process's SIGINT handler is this one if
\* it is installed and the original one if it is not, however often install and
\* restore were called and whatever signals arrived (signals.py).
DispositionRestored ==
  Depth(Main) = 0 =>
    IF installed THEN disposition = Ours /\ original = Theirs
    ELSE disposition = Theirs /\ original = None

\* No SIGINT is swallowed: each handler that has run called the original one.
SignalsForwarded == Depth(Main) = 0 => forwarded = handled

\* What docs/usage.md says of the first Ctrl+C, with no proviso: it enters drain
\* mode.  A handler that interrupts a frame with the lock waits for that frame.
SigintStartsShutdown == HandlerRunning ~> shutting_down

\* What docs/usage.md says of the second Ctrl+C, with no proviso: it enters abort
\* mode.  A second handler above the first one, which has read is_shutting_down
\* and not yet acted on it, reads the same and asks for a drain.
SigintTwiceAborts == handled >= 2 => mode = ABORT
=============================================================================
